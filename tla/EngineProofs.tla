---------------------------- MODULE EngineProofs -----------------------------
(***************************************************************************)
(* The engine, for any number of producers, clients, instances,            *)
(* destinations, calls and flushes, through refusals, failures and panics. *)
(* First, its budgets are exact; sequence numbers, given under the lock,   *)
(* reach the worker in that order and each file group by group; and no     *)
(* line covers a refusal of its instance.  Then its accounts: where each   *)
(* sequence number, each accepted event and each overload is, and what a   *)
(* confirmation confirms.  Last, what it promises its callers: every       *)
(* overload is reported, a `flush` covers what was admitted before it,     *)
(* and, the tracing layer aside, the engine is a logger as LogContract     *)
(* describes it.                                                           *)
(***************************************************************************)
EXTENDS EngineSafety, SumProofs, FiniteSetTheorems, TLAPS

\* An expired group is still open when the worker comes to it, and what it
\* signals is a barrier.
WorkerShape ==
    /\ worker.pc = "expire" => worker.expired \subseteq DOMAIN groups
    /\ worker.pc = "signal" => worker.item \in BarrierType

\* The types are not inductive alone: that a release leaves a natural number
\* follows from the accounting of the permits, which needs the types.
IndInv == TypeOK /\ PermitsAccounted /\ WorkerShape
-----------------------------------------------------------------------------
(* Counting *)

\* The groups, and the threads, are finitely many.
LEMMA FiniteKeys == IsFiniteSet(Keys)
<1>1. IsFiniteSet(Instances)
  BY FS_Interval, InstancesAssumption DEF Instances
<1> QED
  BY <1>1, FS_Product, FiniteAssumption DEF Keys

\* The holders of a permit are among the producers, so they can be counted.
LEMMA HoldersFinite == IsFiniteSet(Holders) /\ Cardinality(Holders) \in Nat
<1>1. Holders \in SUBSET Producers
  BY DEF Holders
<1> QED
  BY <1>1, FS_Subset, FS_CardinalityType, FiniteAssumption

\* The open groups are indexed by keys, so they can be counted.
LEMMA GroupsFinite ==
  ASSUME NEW D \in SUBSET Keys
  PROVE  IsFiniteSet(D) /\ Cardinality(D) \in Nat
  BY FS_Subset, FS_CardinalityType, FiniteKeys

\* `Events` picks positions of a finite queue.
LEMMA EventsFinite ==
  ASSUME NEW S, NEW q \in Seq(S)
  PROVE  IsFiniteSet(Events(q)) /\ Cardinality(Events(q)) \in Nat
<1>1. IsFiniteSet(1..Len(q))
  BY FS_Interval
<1>2. Events(q) \in SUBSET (1..Len(q))
  BY DEF Events
<1> QED
  BY <1>1, <1>2, FS_Subset, FS_CardinalityType

\* Queueing an item adds one event, if it is one.
LEMMA EventsAppend ==
  ASSUME NEW S, NEW q \in Seq(S), NEW x \in S
  PROVE  Cardinality(Events(Append(q, x)))
           = Cardinality(Events(q)) + IF x.kind = "event" THEN 1 ELSE 0
<1> DEFINE last == Len(q) + 1
<1>1. Events(Append(q, x)) = IF x.kind = "event" THEN Events(q) \cup {last} ELSE Events(q)
  BY DEF Events
<1>2. last \notin Events(q)
  BY DEF Events
<1>3. Cardinality(Events(q) \cup {last}) = Cardinality(Events(q)) + 1
  BY <1>2, EventsFinite, FS_AddElement
<1> QED
  BY <1>1, <1>3, EventsFinite

\* Taking the head of the queue removes one event, if it is one.
LEMMA EventsTail ==
  ASSUME NEW S, NEW q \in Seq(S), q # <<>>
  PROVE  Cardinality(Events(q))
           = Cardinality(Events(Tail(q))) + IF Head(q).kind = "event" THEN 1 ELSE 0
<1> DEFINE others == Events(q) \ {1}
           shift  == [n \in others |-> n - 1]
<1>1. /\ IsFiniteSet(others)
      /\ Cardinality(others) = IF 1 \in Events(q) THEN Cardinality(Events(q)) - 1
                                                  ELSE Cardinality(Events(q))
  BY EventsFinite, FS_RemoveElement
<1>2. 1 \in Events(q) <=> Head(q).kind = "event"
  BY DEF Events
<1>3. shift \in Bijection(others, Events(Tail(q)))
  <2>1. \A n \in others : n - 1 \in Events(Tail(q))
    BY DEF Events
  <2>2. \A n \in Events(Tail(q)) : n + 1 \in others /\ shift[n + 1] = n
    BY DEF Events
  <2>3. \A a, b \in others : shift[a] = shift[b] => a = b
    BY DEF Events
  <2> QED
    BY <2>1, <2>2, <2>3 DEF Bijection, Injection, Surjection, IsInjective
<1>4. Cardinality(Events(Tail(q))) = Cardinality(others)
  BY <1>1, <1>3, FS_Bijection DEF ExistsBijection
<1> QED
  BY <1>1, <1>2, <1>4, EventsFinite

\* Summaries are queue items, and not events.
LEMMA SummariesQueued ==
  ASSUME TypeOK, NEW due \in SUBSET Instances, NEW order \in Ascending(due)
  PROVE  /\ queue \o SummaryItems(order) \in Seq(ItemType)
         /\ Events(queue \o SummaryItems(order)) = Events(queue)
         /\ Cardinality(due) \in Nat
<1>1. Cardinality(due) \in Nat
  <2>1. IsFiniteSet(Instances)
    BY FS_Interval, InstancesAssumption DEF Instances
  <2> QED
    BY <2>1, FS_Subset, FS_CardinalityType
<1>2. order \in Seq(Instances) /\ Len(order) = Cardinality(due)
  BY <1>1 DEF Ascending
<1>3. SummaryItems(order) \in Seq(SummaryType)
  <2>1. ASSUME NEW k \in 1..Len(order)
        PROVE  [kind |-> "summary", instance |-> order[k], hour |-> hour,
                seq |-> sequence + k, count |-> overloadPending[order[k]]] \in SummaryType
    BY <1>2 DEF TypeOK, AdmissionTypes, InstanceTypes, OutputTypes, SummaryType
  <2> QED
    BY <1>2, <2>1 DEF SummaryItems
<1>4. queue \o SummaryItems(order) \in Seq(ItemType)
  BY <1>3 DEF TypeOK, AdmissionTypes, ItemType
<1>5. \A n \in DOMAIN SummaryItems(order) : SummaryItems(order)[n].kind # "event"
  BY <1>2 DEF SummaryItems
<1>6. Events(queue \o SummaryItems(order)) = Events(queue)
  BY <1>3, <1>5 DEF Events, TypeOK, AdmissionTypes
<1> QED
  BY <1>1, <1>4, <1>6

\* A producer that reserves is one holder more.
LEMMA HolderAdded ==
  ASSUME NEW p \in Producers, producer[p].pc = "idle",
         producer' = [producer EXCEPT ![p] = producer'[p]], producer'[p].pc = "formatting",
         DOMAIN producer = Producers
  PROVE  Cardinality(Holders') = Cardinality(Holders) + 1
<1>1. Holders' = Holders \cup {p} /\ p \notin Holders
  BY DEF Holders, HoldsPermit
<1> QED
  BY <1>1, HoldersFinite, FS_AddElement

\* A producer that queues its event, or drops its permit, is one holder less.
LEMMA HolderRemoved ==
  ASSUME NEW p \in Producers, HoldsPermit(p),
         producer' = [producer EXCEPT ![p] = IdleProducer], DOMAIN producer = Producers
  PROVE  Cardinality(Holders') = Cardinality(Holders) - 1 /\ Cardinality(Holders) >= 1
<1>1. Holders' = Holders \ {p} /\ p \in Holders
  BY DEF Holders, HoldsPermit, IdleProducer
<1>2. Cardinality(Holders) # 0
  BY <1>1, HoldersFinite, FS_EmptySet
<1> QED
  BY <1>1, <1>2, HoldersFinite, FS_RemoveElement

\* The terms of the accounting are natural numbers.
LEMMA Terms ==
  ASSUME TypeOK
  PROVE  /\ Cardinality(Holders) \in Nat /\ Cardinality(Events(queue)) \in Nat
         /\ Cardinality(DOMAIN groups) \in Nat /\ HeldPermits \in Nat /\ Buried \in Nat
         /\ reservedEvents \in Nat /\ reservedBytes \in Nat
<1>1. Cardinality(Events(queue)) \in Nat /\ reservedEvents \in Nat /\ reservedBytes \in Nat
  BY EventsFinite DEF TypeOK, AdmissionTypes
<1>2. Cardinality(DOMAIN groups) \in Nat
  BY GroupsFinite DEF TypeOK, WorkerTypes
<1>3. HeldPermits \in Nat /\ Buried \in Nat
  BY DEF HeldPermits, Buried, TypeOK, WorkerTypes, WorkerType
<1> QED
  BY <1>1, <1>2, <1>3, HoldersFinite

\* A step that leaves every term alone keeps the accounting.
LEMMA PermitsKept ==
  ASSUME PermitsAccounted, UNCHANGED <<reservedEvents, reservedBytes>>,
         Holders' = Holders, Events(queue)' = Events(queue), HeldPermits' = HeldPermits,
         (DOMAIN groups)' = DOMAIN groups, Buried' = Buried
  PROVE  PermitsAccounted'
  BY DEF PermitsAccounted

\* The bounds the accounting must respect, besides the sum of its terms.
WithinBudget ==
    /\ reservedEvents \in Nat /\ reservedBytes \in Nat
    /\ reservedBytes = MaxEventBytes * reservedEvents
    /\ reservedEvents <= MaxEvents /\ reservedBytes <= MaxBytes

\* The arithmetic of a reservation and of a release.
LEMMA Reserved ==
  ASSUME TypeOK, PermitsAccounted, ~NoRoom,
         reservedEvents' = reservedEvents + 1, reservedBytes' = reservedBytes + MaxEventBytes
  PROVE  WithinBudget'
<1>1. MaxEventBytes * (reservedEvents + 1) = MaxEventBytes * reservedEvents + MaxEventBytes
  BY Terms, BudgetAssumption
<1> QED
  BY <1>1, Terms, BudgetAssumption DEF PermitsAccounted, NoRoom, WithinBudget

\* ... and its reverse: a slot given back leaves natural numbers within the budgets.
LEMMA Released ==
  ASSUME TypeOK, PermitsAccounted, NEW n \in Nat, n <= reservedEvents, ReleasePermits(n)
  PROVE  WithinBudget' /\ reservedEvents' = reservedEvents - n
<1> DEFINE left == reservedEvents - n
<1>1. left \in Nat /\ left <= reservedEvents /\ reservedEvents = left + n
  BY Terms
<1>2. MaxEventBytes * reservedEvents = MaxEventBytes * left + n * MaxEventBytes
  BY <1>1, BudgetAssumption
<1>3. MaxEventBytes * left \in Nat /\ n * MaxEventBytes \in Nat
  BY <1>1, BudgetAssumption
<1> QED
  BY <1>1, <1>2, <1>3, BudgetAssumption DEF PermitsAccounted, ReleasePermits, WithinBudget

\* A new counter record, seen from the function it is in.
LEMMA CountersType ==
  ASSUME InstanceTypes, NEW i \in Instances, NEW r \in CounterType,
         counters' = [counters EXCEPT ![i] = r]
  PROVE  counters' \in [Instances -> CounterType]
  BY DEF InstanceTypes
-----------------------------------------------------------------------------
(* Producers *)

\* What a refusal changes keeps its types.
LEMMA RefusalTypes ==
  ASSUME TypeOK, NEW i \in Instances, NEW reason \in Reasons, Refusal(i, reason)
  PROVE  InstanceTypes'
<1>1. counters' \in [Instances -> CounterType]
  <2> DEFINE c == counters[i]
             d == [c EXCEPT !.refused = [c.refused EXCEPT ![reason] = @ + 1]]
  <2>1. c \in CounterType
    BY DEF TypeOK, InstanceTypes
  <2>2. d \in CounterType
    BY <2>1 DEF CounterType
  <2>3. counters' = [counters EXCEPT ![i] = d]
    BY DEF Refusal
  <2> QED
    BY <2>2, <2>3, CountersType DEF TypeOK
<1>2. breaks' \in [Instances -> SUBSET Nat]
  BY DEF TypeOK, InstanceTypes, AdmissionTypes, Refusal
<1>3. overloadPending' \in [Instances -> Nat]
  BY DEF TypeOK, InstanceTypes, Refusal
<1>4. epoch' \in [Instances -> Nat] /\ summaryQueued' \in [Instances -> BOOLEAN]
  BY DEF TypeOK, InstanceTypes, Refusal
<1> QED
  BY <1>1, <1>2, <1>3, <1>4 DEF InstanceTypes

\* A reservation adds one slot and one holder (first locked section of `emit_args`).
LEMMA EmitReserveStep ==
  ASSUME IndInv, NEW p \in Producers, NEW i \in Instances, NEW d \in Destinations,
         NEW c \in Contents, EmitReserve(p, i, d, c)
  PROVE  IndInv'
<1> USE DEF IndInv, TypeOK
<1>1. WithinBudget'
  BY Reserved DEF EmitReserve
<1>2. AdmissionTypes'
  BY <1>1 DEF EmitReserve, AdmissionTypes, WithinBudget, barriers
<1>3. ThreadTypes'
  BY DEF EmitReserve, SetProducer, ThreadTypes, ProducerType
<1>4. InstanceTypes' /\ WorkerTypes'
  BY DEF EmitReserve, InstanceTypes, perInstance, WorkerTypes
<1>5. OutputTypes'
  BY DEF EmitReserve, Call, OutputTypes, output
<1>6. Cardinality(Holders') = Cardinality(Holders) + 1
  BY HolderAdded DEF EmitReserve, SetProducer, ThreadTypes
<1>7. /\ Events(queue)' = Events(queue) /\ HeldPermits' = HeldPermits
      /\ (DOMAIN groups)' = DOMAIN groups /\ Buried' = Buried
  BY DEF EmitReserve, Events, HeldPermits, HandlingA, Buried
<1>8. PermitsAccounted'
  BY <1>1, <1>6, <1>7, Terms DEF EmitReserve, PermitsAccounted, WithinBudget
<1>9. WorkerShape'
  BY DEF EmitReserve, WorkerShape
<1> QED
  BY <1>2, <1>3, <1>4, <1>5, <1>8, <1>9

\* A refusal without reservation leaves the accounting alone.
LEMMA EmitRefusedStep ==
  ASSUME IndInv, NEW i \in Instances,
         \/ \E p \in Producers : EmitRefused(p, i) \/ EmitTooLarge(p, i)
         \/ TracingRefuse(i)
  PROVE  IndInv'
<1> USE DEF IndInv, TypeOK, EmitRefused, EmitTooLarge, TracingRefuse
<1>1. PICK reason \in Reasons : Refusal(i, reason)
  BY DEF AdmissionRefusal, Reasons
<1>2. InstanceTypes'
  BY <1>1, RefusalTypes
<1>3. ThreadTypes'
  <2>1. asleep' \subseteq asleep
    BY DEF NotifyOne, AfterNotifyOne
  <2> QED
    BY <2>1 DEF ThreadTypes
<1>4. AdmissionTypes' /\ WorkerTypes'
  BY DEF AdmissionTypes, admission, barriers, WorkerTypes
<1>5. OutputTypes'
  BY DEF Call, OutputTypes, output
<1>6. PermitsAccounted' /\ WorkerShape'
  BY PermitsKept DEF admission, WorkerShape, Holders, HoldsPermit, Events, HeldPermits,
                     HandlingA, Buried
<1> QED
  BY <1>2, <1>3, <1>4, <1>5, <1>6

\* A filtered call only counts.
LEMMA EmitFilteredStep ==
  ASSUME IndInv, NEW p \in Producers, NEW i \in Instances, EmitFiltered(p, i)
  PROVE  IndInv'
<1> USE DEF IndInv, TypeOK
<1>1. counters' \in [Instances -> CounterType]
  <2> DEFINE c == counters[i]
             d == [c EXCEPT !.filtered = @ + 1]
  <2>1. c \in CounterType
    BY DEF InstanceTypes
  <2>2. d \in CounterType
    BY <2>1 DEF CounterType
  <2>3. counters' = [counters EXCEPT ![i] = d]
    BY DEF EmitFiltered
  <2> QED
    BY <2>2, <2>3, CountersType
<1>2. InstanceTypes' /\ OutputTypes'
  BY <1>1 DEF EmitFiltered, Call, InstanceTypes, OutputTypes, output
<1>3. AdmissionTypes' /\ ThreadTypes' /\ WorkerTypes'
  BY DEF EmitFiltered, AdmissionTypes, admission, barriers, ThreadTypes, threads, WorkerTypes
<1>4. PermitsAccounted' /\ WorkerShape'
  BY PermitsKept DEF EmitFiltered, admission, threads, WorkerShape, Holders, HoldsPermit,
                     Events, HeldPermits, HandlingA, Buried
<1> QED
  BY <1>2, <1>3, <1>4

\* The permit of a producer goes with its event into the queue.
LEMMA EmitAcceptStep ==
  ASSUME IndInv, NEW p \in Producers, EmitAccept(p)
  PROVE  IndInv'
<1> DEFINE e == producer[p]
           event == Event(e.instance, e.destination, e.content, sequence + 1, epoch[e.instance])
<1> USE DEF IndInv, TypeOK
<1>1. /\ e.pc = "formatting" /\ e.instance \in Instances
      /\ e.destination \in Destinations /\ e.content \in Contents
  BY DEF EmitAccept, ThreadTypes, ProducerType
<1>2. event \in EventType
  BY <1>1 DEF Event, EventType, AdmissionTypes, InstanceTypes, OutputTypes
<1>3. event \in ItemType /\ event.kind = "event"
  BY <1>2 DEF ItemType, Event
<1>4. queue' = Append(queue, event)
  BY DEF EmitAccept
<1>5. producer' = [producer EXCEPT ![p] = IdleProducer]
  BY DEF EmitAccept, SetProducer
<1>6. AdmissionTypes'
  BY <1>3, <1>4 DEF EmitAccept, AdmissionTypes, barriers
<1>7. InstanceTypes'
  <2> DEFINE c == counters[e.instance]
             d == [c EXCEPT !.accepted = @ + 1]
  <2>1. c \in CounterType
    BY <1>1 DEF InstanceTypes
  <2>2. d \in CounterType
    BY <2>1 DEF CounterType
  <2>3. counters' = [counters EXCEPT ![e.instance] = d]
    BY DEF EmitAccept
  <2>4. counters' \in [Instances -> CounterType]
    BY <1>1, <2>2, <2>3, CountersType
  <2> QED
    BY <2>4 DEF EmitAccept, InstanceTypes
<1>8. ThreadTypes'
  <2>1. asleep' \subseteq asleep
    BY DEF EmitAccept, NotifyOne, AfterNotifyOne
  <2> QED
    BY <1>5, <2>1 DEF EmitAccept, ThreadTypes, IdleProducer, ProducerType
<1>9. WorkerTypes' /\ OutputTypes'
  BY DEF EmitAccept, WorkerTypes, OutputTypes, output
<1>10. Cardinality(Holders') = Cardinality(Holders) - 1
  BY <1>1, <1>5, HolderRemoved DEF ThreadTypes, HoldsPermit
<1>11. Cardinality(Events(queue')) = Cardinality(Events(queue)) + 1
  BY <1>3, <1>4, EventsAppend DEF AdmissionTypes
<1>12. HeldPermits' = HeldPermits /\ Buried' = Buried
  BY DEF EmitAccept, HeldPermits, HandlingA, Buried
<1>13. PermitsAccounted'
  BY <1>10, <1>11, <1>12, Terms DEF EmitAccept, PermitsAccounted
<1>14. WorkerShape'
  BY DEF EmitAccept, WorkerShape
<1> QED
  BY <1>6, <1>7, <1>8, <1>9, <1>13, <1>14

\* A refusal after the reservation leaves the permit with its producer.
LEMMA EmitAbandonStep ==
  ASSUME IndInv, NEW p \in Producers, EmitAbandon(p)
  PROVE  IndInv'
<1> USE DEF IndInv, TypeOK, EmitAbandon
<1>1. producer[p].instance \in Instances
  BY DEF ThreadTypes, ProducerType
<1>2. PICK reason \in Reasons : Refusal(producer[p].instance, reason)
  BY DEF AdmissionRefusal, Reasons
<1>3. InstanceTypes'
  BY <1>1, <1>2, RefusalTypes
<1>4. ThreadTypes'
  <2>1. asleep' \subseteq asleep
    BY DEF NotifyOne, AfterNotifyOne
  <2> QED
    BY <2>1 DEF ThreadTypes, SetProducer, ProducerType
<1>5. AdmissionTypes' /\ WorkerTypes' /\ OutputTypes'
  BY DEF AdmissionTypes, admission, barriers, WorkerTypes, OutputTypes, output
<1>6. Holders' = Holders
  BY DEF ThreadTypes, SetProducer, Holders, HoldsPermit
<1>7. PermitsAccounted' /\ WorkerShape'
  BY <1>6, PermitsKept DEF admission, WorkerShape, Events, HeldPermits, HandlingA, Buried
<1> QED
  BY <1>3, <1>4, <1>5, <1>7

\* A dropped permit frees its slot (`Permit::drop`).
LEMMA DropPermitStep ==
  ASSUME IndInv, NEW p \in Producers, DropPermit(p)
  PROVE  IndInv'
<1> USE DEF IndInv, TypeOK
<1>1. producer' = [producer EXCEPT ![p] = IdleProducer] /\ HoldsPermit(p)
  BY DEF DropPermit, SetProducer
<1>2. Cardinality(Holders') = Cardinality(Holders) - 1 /\ Cardinality(Holders) >= 1
  BY <1>1, HolderRemoved DEF ThreadTypes
<1>3. reservedEvents >= 1
  BY <1>2, Terms DEF PermitsAccounted
<1>4. WithinBudget' /\ reservedEvents' = reservedEvents - 1
  BY <1>3, Released, Terms DEF DropPermit
<1>5. AdmissionTypes'
  BY <1>4 DEF DropPermit, AdmissionTypes, WithinBudget, barriers
<1>6. ThreadTypes'
  BY <1>1 DEF DropPermit, ThreadTypes, IdleProducer, ProducerType
<1>7. InstanceTypes' /\ WorkerTypes' /\ OutputTypes'
  BY DEF DropPermit, InstanceTypes, perInstance, WorkerTypes, OutputTypes, output
<1>8. /\ Events(queue)' = Events(queue) /\ HeldPermits' = HeldPermits /\ Buried' = Buried
      /\ (DOMAIN groups)' = DOMAIN groups
  BY DEF DropPermit, Events, HeldPermits, HandlingA, Buried
<1>9. PermitsAccounted'
  BY <1>2, <1>4, <1>8, Terms DEF PermitsAccounted, WithinBudget
<1>10. WorkerShape'
  BY DEF DropPermit, WorkerShape
<1> QED
  BY <1>5, <1>6, <1>7, <1>9, <1>10
-----------------------------------------------------------------------------
(* Callers of flush and shutdown *)

\* `summaries` keeps the types.
LEMMA BalancesTypes ==
  ASSUME TypeOK, NEW due \in SUBSET Instances, TakeBalances(due)
  PROVE  InstanceTypes' /\ sequence' \in Nat
<1>1. Cardinality(due) \in Nat
  <2>1. IsFiniteSet(Instances)
    BY FS_Interval, InstancesAssumption DEF Instances
  <2> QED
    BY <2>1, FS_Subset, FS_CardinalityType
<1> QED
  BY <1>1 DEF TypeOK, InstanceTypes, AdmissionTypes, TakeBalances

\* A flush and the first shutdown queue summaries and one control item.
LEMMA ControlQueued ==
  ASSUME TypeOK, NEW due \in SUBSET Instances, NEW order \in Ascending(due),
         NEW item \in BarrierType \cup {Shutdown},
         queue' = Append(queue \o SummaryItems(order), item)
  PROVE  queue' \in Seq(ItemType) /\ Cardinality(Events(queue')) = Cardinality(Events(queue))
<1>1. /\ queue \o SummaryItems(order) \in Seq(ItemType)
      /\ Events(queue \o SummaryItems(order)) = Events(queue)
  BY SummariesQueued
<1>2. item \in ItemType /\ item.kind # "event"
  BY DEF ItemType, BarrierType, Shutdown
<1>3. ASSUME NEW q \in Seq(ItemType)
      PROVE  Cardinality(Events(Append(q, item))) = Cardinality(Events(q))
  <2>1. Cardinality(Events(Append(q, item)))
          = Cardinality(Events(q)) + IF item.kind = "event" THEN 1 ELSE 0
    BY <1>2, EventsAppend
  <2>2. Cardinality(Events(q)) \in Nat
    BY EventsFinite
  <2> QED
    BY <1>2, <2>1, <2>2
<1>4. Append(queue \o SummaryItems(order), item) \in Seq(ItemType)
  BY <1>1, <1>2
<1> QED
  BY <1>1, <1>3, <1>4

\* A step that only moves the queue, without adding or removing an event.
LEMMA PermitsMoved ==
  ASSUME PermitsAccounted, UNCHANGED <<reservedEvents, reservedBytes>>, Holders' = Holders,
         Cardinality(Events(queue')) = Cardinality(Events(queue)), HeldPermits' = HeldPermits,
         (DOMAIN groups)' = DOMAIN groups, Buried' = Buried
  PROVE  PermitsAccounted'
  BY DEF PermitsAccounted

\* Balances are owed to instances.
LEMMA OwingInstances == Owing \in SUBSET Instances
  BY DEF Owing

\* `flush` queues summaries and a barrier, which own no permit.
LEMMA FlushBeginStep ==
  ASSUME IndInv, NEW c \in Clients, FlushBegin(c)
  PROVE  IndInv'
<1> USE DEF IndInv, TypeOK
<1>1. InstanceTypes' /\ sequence' \in Nat
  BY BalancesTypes, OwingInstances DEF FlushBegin
<1>2. PICK order \in Ascending(Owing) :
        queue' = Append(queue \o SummaryItems(order), Barrier(nextBarrier'))
  BY DEF FlushBegin
<1>3. nextBarrier' \in Nat /\ Barrier(nextBarrier') \in BarrierType
  BY DEF FlushBegin, AdmissionTypes, Barrier, BarrierType
<1>4. queue' \in Seq(ItemType) /\ Cardinality(Events(queue')) = Cardinality(Events(queue))
  BY <1>2, <1>3, ControlQueued, OwingInstances
<1>5. AdmissionTypes'
  BY <1>1, <1>3, <1>4 DEF FlushBegin, AdmissionTypes
<1>6. ThreadTypes'
  <2>1. asleep' \subseteq asleep \cup {c}
    BY DEF FlushBegin, AfterNotifyOne
  <2>2. client' = [client EXCEPT ![c] = [pc |-> "flushing", barrier |-> nextBarrier',
                                         mark |-> sequence']]
    BY DEF FlushBegin
  <2> QED
    BY <1>1, <1>3, <2>1, <2>2 DEF FlushBegin, ThreadTypes
<1>7. WorkerTypes' /\ OutputTypes'
  BY DEF FlushBegin, WorkerTypes, OutputTypes, output
<1>8. PermitsAccounted' /\ WorkerShape'
  BY <1>4, PermitsMoved DEF FlushBegin, WorkerShape, Holders, HoldsPermit, HeldPermits,
                            HandlingA, Buried
<1> QED
  BY <1>1, <1>5, <1>6, <1>7, <1>8

\* `shutdown` queues summaries and its own item, which own no permit.
LEMMA ShutdownBeginStep ==
  ASSUME IndInv, NEW c \in Clients, ShutdownBegin(c)
  PROVE  IndInv'
<1> USE DEF IndInv, TypeOK
<1>1. ThreadTypes'
  <2>1. asleep' \subseteq asleep
    BY DEF ShutdownBegin, NotifyOne, AfterNotifyOne
  <2> QED
    BY <2>1 DEF ShutdownBegin, ThreadTypes
<1>2. WorkerTypes' /\ OutputTypes'
  BY DEF ShutdownBegin, WorkerTypes, OutputTypes, output
<1>3. /\ WorkerShape' /\ Holders' = Holders /\ HeldPermits' = HeldPermits
      /\ (DOMAIN groups)' = DOMAIN groups /\ Buried' = Buried
  BY DEF ShutdownBegin, WorkerShape, Holders, HoldsPermit, HeldPermits, HandlingA, Buried
<1>4. CASE health = "open"
  <2>1. InstanceTypes' /\ sequence' \in Nat
    BY <1>4, BalancesTypes, OwingInstances DEF ShutdownBegin
  <2>2. PICK order \in Ascending(Owing) :
          queue' = Append(queue \o SummaryItems(order), Shutdown)
    BY <1>4 DEF ShutdownBegin
  <2>3. queue' \in Seq(ItemType) /\ Cardinality(Events(queue')) = Cardinality(Events(queue))
    BY <2>2, ControlQueued, OwingInstances
  <2>4. AdmissionTypes'
    BY <1>4, <2>1, <2>3 DEF ShutdownBegin, AdmissionTypes, barriers
  <2>5. PermitsAccounted'
    BY <1>3, <2>3, PermitsMoved DEF ShutdownBegin
  <2> QED
    BY <1>1, <1>2, <1>3, <2>1, <2>4, <2>5
<1>5. CASE health # "open"
  <2>1. AdmissionTypes' /\ InstanceTypes'
    BY <1>5 DEF ShutdownBegin, AdmissionTypes, barriers, InstanceTypes, perInstance
  <2>2. PermitsAccounted'
    BY <1>3, <1>5, PermitsKept DEF ShutdownBegin, Events
  <2> QED
    BY <1>1, <1>2, <1>3, <2>1, <2>2
<1> QED
  BY <1>4, <1>5

\* The other steps of a caller only move the caller.
LEMMA CallerStep ==
  ASSUME IndInv, NEW c \in Clients, FlushRefused(c) \/ FlushWake(c) \/ ShutdownReturn(c)
  PROVE  IndInv'
<1> USE DEF IndInv, TypeOK, FlushRefused, FlushWake, ShutdownReturn
<1>1. client' \in [Clients ->
          [pc : {"idle", "flushing", "joining", "flushed", "shut", "error"},
           barrier : Nat, mark : Nat]]
  BY DEF ThreadTypes
<1>2. asleep' \subseteq Clients \cup {Worker} /\ control' \subseteq Clients
  BY DEF ThreadTypes
<1>3. ThreadTypes'
  BY <1>1, <1>2 DEF ThreadTypes
<1>4. AdmissionTypes' /\ InstanceTypes' /\ WorkerTypes' /\ OutputTypes'
  BY DEF AdmissionTypes, admission, barriers, InstanceTypes, perInstance, WorkerTypes,
         OutputTypes, output
<1>5. PermitsAccounted' /\ WorkerShape'
  BY PermitsKept DEF admission, WorkerShape, Holders, HoldsPermit, Events, HeldPermits,
                     HandlingA, Buried
<1> QED
  BY <1>3, <1>4, <1>5
-----------------------------------------------------------------------------
(* The worker *)

\* The worker's local states, but for the one that buries the queue.
WorkerAt == [pc : {"top", "expire", "take", "waiting", "item", "signal", "draining", "closing",
                   "failing", "unwinding", "dying", "exited"},
             item : ItemType \cup {NoItem}, expired : SUBSET Keys, flushDue : BOOLEAN]

\* `Goto` leaves the worker without an item, an expired group or a buried queue.
LEMMA GotoTypes ==
  ASSUME NEW pc \in {"top", "take", "waiting", "draining", "closing", "failing", "unwinding",
                     "dying", "exited"},
         Goto(pc)
  PROVE  worker' \in WorkerType /\ HeldPermits' = 0 /\ Buried' = 0 /\ WorkerShape'
  BY DEF Goto, At, WorkerType, HeldPermits, HandlingA, Buried, WorkerShape

\* The item in hand has a type, and an event in hand owns a permit.
LEMMA InHandTypes ==
  ASSUME TypeOK, worker.pc = "item"
  PROVE  /\ worker \in WorkerAt /\ Buried = 0
         /\ HandlingA("event") => worker.item \in EventType /\ HeldPermits = 1
         /\ HandlingA("summary") => worker.item \in SummaryType
         /\ HandlingA("barrier") => worker.item \in BarrierType
         /\ ~HandlingA("event") => HeldPermits = 0
<1>1. worker \in WorkerAt /\ worker.item \in ItemType \cup {NoItem}
  BY DEF TypeOK, WorkerTypes, WorkerType, WorkerAt
<1> QED
  BY <1>1 DEF HandlingA, HeldPermits, Buried, ItemType, EventType, SummaryType, BarrierType,
              Shutdown, NoItem

\* Counters that move at a confirmation.
LEMMA ConfirmedTypes ==
  ASSUME NEW r \in CounterType, NEW a \in Nat, NEW b \in Nat, NEW o \in Nat
  PROVE  [r EXCEPT !.written = @ + a, !.lines = @ + b, !.reported = @ + o] \in CounterType
<1> SUFFICES ASSUME NEW s,
                    s = [r EXCEPT !.written = @ + a, !.lines = @ + b, !.reported = @ + o]
             PROVE  s \in CounterType
  OBVIOUS
<1>1. s = [accepted |-> r.accepted, filtered |-> r.filtered, refused |-> r.refused,
           written |-> r.written + a, lines |-> r.lines + b, reported |-> r.reported + o]
  BY DEF CounterType
<1> QED
  BY <1>1 DEF CounterType

\* A flush keeps the types.
LEMMA FlushTypes ==
  ASSUME TypeOK, FlushOutput
  PROVE  /\ counters' \in [Instances -> CounterType]
         /\ unconfirmed' \in [Instances -> [occurrences : Nat, lines : Nat, overload : Nat]]
         /\ files' \in [Paths -> Seq(LineType)] /\ durable' \in [Paths -> Nat]
<1> USE DEF TypeOK, InstanceTypes, OutputTypes
<1>1. CASE unconfirmed = [i \in Instances |-> NothingUnconfirmed]
  BY <1>1 DEF FlushOutput, output
<1>2. CASE unconfirmed # [i \in Instances |-> NothingUnconfirmed]
  <2>1. files' = files /\ durable' = [p \in Paths |-> Len(files[p])]
    BY <1>2 DEF FlushOutput
  <2>2. unconfirmed' = [i \in Instances |-> NothingUnconfirmed]
    BY <1>2 DEF FlushOutput
  <2>3. ASSUME NEW i \in Instances
        PROVE  [counters[i] EXCEPT !.written = @ + unconfirmed[i].occurrences,
                                   !.lines = @ + unconfirmed[i].lines,
                                   !.reported = @ + unconfirmed[i].overload] \in CounterType
    <3>1. unconfirmed[i].occurrences \in Nat /\ unconfirmed[i].lines \in Nat
          /\ unconfirmed[i].overload \in Nat /\ counters[i] \in CounterType
      OBVIOUS
    <3> QED
      BY <3>1, ConfirmedTypes
  <2>4. counters' = [i \in Instances |->
              [counters[i] EXCEPT !.written = @ + unconfirmed[i].occurrences,
                                  !.lines = @ + unconfirmed[i].lines,
                                  !.reported = @ + unconfirmed[i].overload]]
    BY <1>2 DEF FlushOutput
  <2>5. counters' \in [Instances -> CounterType]
    BY <2>3, <2>4
  <2> QED
    BY <2>1, <2>2, <2>5 DEF NothingUnconfirmed
<1> QED
  BY <1>1, <1>2

\* Writing a line of a group keeps the types.
LEMMA WriteGroupTypes ==
  ASSUME TypeOK, NEW k \in DOMAIN groups, WriteGroup(groups[k])
  PROVE  /\ unconfirmed' \in [Instances -> [occurrences : Nat, lines : Nat, overload : Nat]]
         /\ files' \in [Paths -> Seq(LineType)] /\ durable' \in [Paths -> Nat]
<1> DEFINE g == groups[k]
<1>1. g \in [first : EventType, last : Nat, count : Nat \ {0}]
  BY DEF TypeOK, WorkerTypes
<1>2. PathOf(g.first) \in Paths /\ GroupLine(g) \in LineType /\ g.first.instance \in Instances
  BY <1>1 DEF PathOf, Paths, GroupLine, LineType, EventType
<1>3. files' \in [Paths -> Seq(LineType)]
  BY <1>2 DEF TypeOK, OutputTypes, WriteGroup, Write
<1>4. unconfirmed' \in [Instances -> [occurrences : Nat, lines : Nat, overload : Nat]]
  <2>1. unconfirmed \in [Instances -> [occurrences : Nat, lines : Nat, overload : Nat]]
    BY DEF TypeOK, OutputTypes
  <2>2. g.count \in Nat
    BY <1>1
  <2> QED
    BY <1>2, <2>1, <2>2 DEF WriteGroup
<1> QED
  BY <1>3, <1>4 DEF TypeOK, OutputTypes, WriteGroup

\* The groups the worker must finish are open.
LEMMA MustFinishOpen ==
  ASSUME IndInv
  PROVE  MustFinish \subseteq DOMAIN groups
  BY DEF IndInv, WorkerShape, MustFinish

\* Removing an open group frees one slot.
LEMMA GroupRemoved ==
  ASSUME TypeOK, NEW k \in DOMAIN groups, groups' = Without(k)
  PROVE  /\ (DOMAIN groups)' = DOMAIN groups \ {k}
         /\ Cardinality(DOMAIN groups') = Cardinality(DOMAIN groups) - 1
         /\ Cardinality(DOMAIN groups) >= 1
         /\ DOMAIN groups' \subseteq Keys
         /\ \A j \in DOMAIN groups' :
               groups'[j] \in [first : EventType, last : Nat, count : Nat \ {0}]
<1>1. DOMAIN groups' = DOMAIN groups \ {k} /\ \A j \in DOMAIN groups' : groups'[j] = groups[j]
  BY DEF Without
<1>2. IsFiniteSet(DOMAIN groups) /\ Cardinality(DOMAIN groups) \in Nat
  BY GroupsFinite DEF TypeOK, WorkerTypes
<1>3. Cardinality(DOMAIN groups) # 0
  BY <1>2, FS_EmptySet
<1>4. Cardinality(DOMAIN groups \ {k}) = Cardinality(DOMAIN groups) - 1
  BY <1>2, FS_RemoveElement
<1> QED
  BY <1>1, <1>2, <1>3, <1>4 DEF TypeOK, WorkerTypes

\* The worker picks the expired groups among the open ones.
LEMMA WorkerTopStep ==
  ASSUME IndInv, WorkerTop
  PROVE  IndInv'
<1> USE DEF IndInv, TypeOK
<1>1. PICK expired \in SUBSET DOMAIN groups, flushDue \in BOOLEAN :
        worker' = [pc |-> "expire", item |-> NoItem, expired |-> expired, flushDue |-> flushDue]
  BY DEF WorkerTop
<1>2. WorkerTypes' /\ WorkerShape'
  BY <1>1 DEF WorkerTop, WorkerTypes, WorkerType, WorkerShape
<1>3. AdmissionTypes' /\ InstanceTypes' /\ ThreadTypes' /\ OutputTypes'
  BY DEF WorkerTop, AdmissionTypes, admission, barriers, InstanceTypes, perInstance,
         ThreadTypes, threads, OutputTypes, output
<1>4. HeldPermits' = HeldPermits /\ Buried' = Buried
  BY <1>1 DEF WorkerTop, HeldPermits, HandlingA, Buried
<1>5. PermitsAccounted'
  BY <1>4, PermitsKept DEF WorkerTop, admission, threads, Holders, HoldsPermit, Events
<1> QED
  BY <1>2, <1>3, <1>5

\* A group is finished: its line is written, its slot given back.
LEMMA WorkerFinishStep ==
  ASSUME IndInv, NEW k \in Keys, WorkerFinish(k)
  PROVE  IndInv'
<1> USE DEF IndInv, TypeOK
<1>1. k \in DOMAIN groups
  BY MustFinishOpen DEF WorkerFinish
<1>2. /\ (DOMAIN groups)' = DOMAIN groups \ {k}
      /\ Cardinality(DOMAIN groups') = Cardinality(DOMAIN groups) - 1
      /\ Cardinality(DOMAIN groups) >= 1
      /\ DOMAIN groups' \subseteq Keys
      /\ \A j \in DOMAIN groups' :
            groups'[j] \in [first : EventType, last : Nat, count : Nat \ {0}]
  BY <1>1, GroupRemoved DEF WorkerFinish
<1>3. reservedEvents >= 1
  BY <1>2, Terms DEF PermitsAccounted
<1>4. WithinBudget' /\ reservedEvents' = reservedEvents - 1
  BY <1>3, Released, Terms DEF WorkerFinish
<1>5. worker.pc \in {"expire", "item", "draining"}
  BY DEF WorkerFinish, MustFinish, HandlingA
<1>6. worker \in WorkerAt /\ worker' = [worker EXCEPT !.expired = @ \ {k}]
  BY <1>5 DEF WorkerFinish, WorkerTypes, WorkerType, WorkerAt
<1>7. worker' \in WorkerType
  BY <1>6 DEF WorkerAt, WorkerType
<1>8. /\ worker'.pc = worker.pc /\ worker'.item = worker.item
      /\ worker'.expired = worker.expired \ {k}
  BY <1>6 DEF WorkerAt
<1>9. WorkerShape'
  BY <1>2, <1>8 DEF WorkerShape
<1>10. WorkerTypes'
  BY <1>2, <1>7 DEF WorkerTypes
<1>11. AdmissionTypes'
  BY <1>4 DEF WorkerFinish, AdmissionTypes, WithinBudget, barriers
<1>12. OutputTypes'
  BY <1>1, WriteGroupTypes DEF WorkerFinish, OutputTypes
<1>13. InstanceTypes' /\ ThreadTypes'
  BY DEF WorkerFinish, InstanceTypes, perInstance, ThreadTypes, threads
<1>14. /\ Holders' = Holders /\ Events(queue)' = Events(queue)
       /\ HeldPermits' = HeldPermits /\ Buried' = Buried
  BY <1>5, <1>8 DEF WorkerFinish, threads, Holders, HoldsPermit, Events, HeldPermits, HandlingA,
                    Buried
<1>15. PermitsAccounted'
  BY <1>2, <1>4, <1>14, Terms DEF PermitsAccounted, WithinBudget
<1> QED
  BY <1>9, <1>10, <1>11, <1>12, <1>13, <1>15

\* The items the worker handles without holding a permit, and the steps between
\* two items: the accounting does not move.
LEMMA PermitFree ==
  ASSUME IndInv, worker.pc # "burying", ~HandlingA("event"), Goto(worker'.pc),
         worker'.pc \in {"top", "take", "waiting", "draining", "closing", "failing",
                         "unwinding", "dying", "exited"},
         UNCHANGED <<reservedEvents, reservedBytes, producer, groups>>,
         Cardinality(Events(queue')) = Cardinality(Events(queue))
  PROVE  PermitsAccounted' /\ WorkerTypes' /\ WorkerShape'
<1>1. worker' \in WorkerType /\ HeldPermits' = 0 /\ Buried' = 0 /\ WorkerShape'
  BY GotoTypes
<1>2. HeldPermits = 0 /\ Buried = 0 /\ Holders' = Holders
  BY DEF HeldPermits, Buried, Holders, HoldsPermit
<1>3. PermitsAccounted'
  BY <1>1, <1>2, PermitsMoved DEF IndInv
<1> QED
  BY <1>1, <1>3 DEF IndInv, TypeOK, WorkerTypes

\* The steps that confirm what the output has flushed.
LEMMA ConfirmingStep ==
  ASSUME IndInv, WorkerPeriodic \/ WorkerDrained
  PROVE  IndInv'
<1> USE DEF IndInv, TypeOK
<1>1. /\ worker.pc \in {"expire", "draining"} /\ Goto(worker'.pc)
      /\ worker'.pc \in {"take", "closing"}
      /\ UNCHANGED <<admission, producer, groups>>
  BY DEF WorkerPeriodic, WorkerDrained, Goto, At, threads
<1>2. PermitsAccounted' /\ WorkerTypes' /\ WorkerShape'
  BY <1>1, PermitFree DEF admission, HandlingA
<1>3. /\ counters' \in [Instances -> CounterType]
      /\ unconfirmed' \in [Instances -> [occurrences : Nat, lines : Nat, overload : Nat]]
      /\ files' \in [Paths -> Seq(LineType)] /\ durable' \in [Paths -> Nat]
  <2>1. CASE FlushOutput
    BY <2>1, FlushTypes
  <2>2. CASE UNCHANGED <<output, counters>>
    BY <2>2 DEF output, InstanceTypes, OutputTypes
  <2> QED
    BY <2>1, <2>2 DEF WorkerPeriodic, WorkerDrained
<1>4. InstanceTypes' /\ OutputTypes'
  BY <1>3 DEF WorkerPeriodic, WorkerDrained, InstanceTypes, OutputTypes
<1>5. AdmissionTypes' /\ ThreadTypes'
  BY DEF WorkerPeriodic, WorkerDrained, AdmissionTypes, admission, barriers, ThreadTypes, threads
<1> QED
  BY <1>2, <1>4, <1>5

\* An event that is taken keeps its permit, in the worker's hands.
LEMMA WorkerTakeStep ==
  ASSUME IndInv, WorkerTake
  PROVE  IndInv'
<1> USE DEF IndInv, TypeOK
<1>1. PICK due \in SUBSET Instances :
        TakeBalances(due) /\ \E order \in Ascending(due) : TakeNext(queue \o SummaryItems(order))
  BY OwingInstances DEF WorkerTake
<1>1a. PICK order \in Ascending(due) : TakeNext(queue \o SummaryItems(order))
  BY <1>1
<1> DEFINE items == queue \o SummaryItems(order)
<1>1b. TakeNext(items)
  BY <1>1a
<1>2. items \in Seq(ItemType) /\ Events(items) = Events(queue)
  BY SummariesQueued
<1> HIDE DEF items
<1>3. InstanceTypes' /\ sequence' \in Nat
  BY <1>1, BalancesTypes
<1>4. OutputTypes'
  BY DEF WorkerTake, OutputTypes, output
<1>5. ThreadTypes'
  BY <1>1b DEF WorkerTake, TakeNext, ThreadTypes
<1>6. /\ Holders' = Holders /\ (DOMAIN groups)' = DOMAIN groups /\ HeldPermits = 0 /\ Buried = 0
      /\ UNCHANGED <<reservedEvents, reservedBytes>>
  BY DEF WorkerTake, Holders, HoldsPermit, HeldPermits, HandlingA, Buried
<1>7. CASE items # <<>>
  <2> DEFINE item == Head(items)
  <2>1. item \in ItemType /\ queue' = Tail(items) /\ queue' \in Seq(ItemType)
        /\ worker' = Handling(item)
    BY <1>1b, <1>2, <1>7 DEF TakeNext
  <2>2. AdmissionTypes'
    BY <1>3, <2>1 DEF WorkerTake, AdmissionTypes, barriers
  <2>3. worker' \in WorkerType /\ worker'.pc = "item" /\ worker'.item = item
    BY <2>1 DEF Handling, WorkerType
  <2>4. WorkerTypes' /\ WorkerShape'
    BY <2>3 DEF WorkerTake, WorkerTypes, WorkerShape
  <2>5. /\ HeldPermits' = (IF item.kind = "event" THEN 1 ELSE 0)
        /\ HeldPermits' \in Nat /\ Buried' = 0
    BY <2>3 DEF HeldPermits, HandlingA, Buried
  <2>6. Cardinality(Events(items))
          = Cardinality(Events(Tail(items))) + IF item.kind = "event" THEN 1 ELSE 0
    BY <1>2, <1>7, EventsTail
  <2>7. Cardinality(Events(queue)) = Cardinality(Events(queue')) + HeldPermits'
    BY <1>2, <2>1, <2>5, <2>6
  <2>8. Cardinality(Events(queue')) \in Nat
    BY <2>1, EventsFinite
  <2>9. PermitsAccounted'
    BY <1>6, <2>5, <2>7, <2>8, Terms DEF PermitsAccounted
  <2> QED
    BY <1>3, <1>4, <1>5, <2>2, <2>4, <2>9
<1>8. CASE items = <<>>
  <2>1. Goto("waiting") /\ queue' = queue
    BY <1>1b, <1>8 DEF TakeNext
  <2>2. worker'.pc = "waiting"
    BY <2>1 DEF Goto, At
  <2>3. PermitsAccounted' /\ WorkerTypes' /\ WorkerShape'
    BY <2>1, <2>2, PermitFree DEF WorkerTake, HandlingA
  <2>4. AdmissionTypes'
    BY <1>3, <2>1 DEF WorkerTake, AdmissionTypes, barriers
  <2> QED
    BY <1>3, <1>4, <1>5, <2>3, <2>4
<1> QED
  BY <1>7, <1>8

\* Steps of the worker that move nothing but its place, the health, the barrier
\* and the wait set.
LEMMA WorkerMoveStep ==
  ASSUME IndInv, WorkerWake \/ WorkerSignal \/ WorkerClosed \/ WorkerDropped
  PROVE  IndInv'
<1> USE DEF IndInv, TypeOK
<1>1. /\ worker.pc \in {"waiting", "signal", "closing", "unwinding", "dying"}
      /\ Goto(worker'.pc) /\ worker'.pc \in {"top", "exited", "failing"}
      /\ UNCHANGED <<queue, reservedEvents, reservedBytes, producer, groups>>
  BY DEF WorkerWake, WorkerSignal, WorkerClosed, WorkerDropped, Goto, At, admission, threads
<1>2. PermitsAccounted' /\ WorkerTypes' /\ WorkerShape'
  BY <1>1, PermitFree DEF HandlingA
<1>3. completedBarrier' \in Nat
  BY DEF WorkerWake, WorkerSignal, WorkerClosed, WorkerDropped, AdmissionTypes, barriers,
         WorkerShape, BarrierType
<1>4. AdmissionTypes'
  BY <1>3 DEF WorkerWake, WorkerSignal, WorkerClosed, WorkerDropped, AdmissionTypes, admission,
              barriers
<1>5. ThreadTypes'
  BY DEF WorkerWake, WorkerSignal, WorkerClosed, WorkerDropped, NotifyAll, ThreadTypes, threads
<1>6. InstanceTypes' /\ OutputTypes'
  BY DEF WorkerWake, WorkerSignal, WorkerClosed, WorkerDropped, InstanceTypes, perInstance,
         OutputTypes, output
<1> QED
  BY <1>2, <1>4, <1>5, <1>6

\* The event in hand joins its key's group, which owns its first event's permit.
LEMMA WorkerMergeStep ==
  ASSUME IndInv, WorkerMerge
  PROVE  IndInv'
<1> DEFINE event == worker.item
           k == KeyOf(event)
<1> USE DEF IndInv, TypeOK
<1>1. /\ HandlingA("event") /\ k \in DOMAIN groups /\ Goto("top") /\ ReleasePermits(1)
      /\ groups' = [groups EXCEPT ![k].last = event.seq, ![k].count = @ + 1]
  BY DEF WorkerMerge, CanMerge
<1>2. event \in EventType /\ HeldPermits = 1 /\ Buried = 0
  BY <1>1, InHandTypes DEF HandlingA
<1>3. worker' \in WorkerType /\ HeldPermits' = 0 /\ Buried' = 0 /\ WorkerShape'
  BY <1>1, GotoTypes
<1>4. DOMAIN groups' = DOMAIN groups
  BY <1>1
<1>5. \A j \in DOMAIN groups' :
        groups'[j] \in [first : EventType, last : Nat, count : Nat \ {0}]
  <2>1. event.seq \in Nat
    BY <1>2 DEF EventType
  <2> QED
    BY <1>1, <2>1 DEF WorkerTypes
<1>6. WithinBudget' /\ reservedEvents' = reservedEvents - 1
  <2>1. reservedEvents >= 1
    BY <1>2, Terms DEF PermitsAccounted
  <2> QED
    BY <1>1, <2>1, Released, Terms
<1>7. AdmissionTypes'
  BY <1>6 DEF WorkerMerge, AdmissionTypes, WithinBudget, barriers
<1>8. WorkerTypes'
  BY <1>3, <1>4, <1>5 DEF WorkerTypes
<1>9. InstanceTypes' /\ ThreadTypes' /\ OutputTypes'
  BY DEF WorkerMerge, InstanceTypes, perInstance, ThreadTypes, threads, OutputTypes, output
<1>10. Holders' = Holders /\ Events(queue)' = Events(queue)
  BY DEF WorkerMerge, threads, Holders, HoldsPermit, Events
<1>11. PermitsAccounted'
  BY <1>2, <1>3, <1>4, <1>6, <1>10, Terms DEF PermitsAccounted, WithinBudget
<1> QED
  BY <1>3, <1>7, <1>8, <1>9, <1>11

\* ... or opens a group, after the one in its place is finished.
LEMMA WorkerOpenGroupStep ==
  ASSUME IndInv, WorkerOpenGroup
  PROVE  IndInv'
<1> DEFINE event == worker.item
           k == KeyOf(event)
           g == [first |-> event, last |-> event.seq, count |-> 1]
<1> USE DEF IndInv, TypeOK
<1>1. HandlingA("event") /\ Goto("top") /\ groups' = With(k, g)
  BY DEF WorkerOpenGroup
<1>2. event \in EventType /\ HeldPermits = 1 /\ Buried = 0
  BY <1>1, InHandTypes DEF HandlingA
<1>3. worker' \in WorkerType /\ HeldPermits' = 0 /\ Buried' = 0 /\ WorkerShape'
  BY <1>1, GotoTypes
<1>4. k \in Keys /\ g \in [first : EventType, last : Nat, count : Nat \ {0}]
  BY <1>2 DEF KeyOf, Keys, EventType
<1>5. /\ DOMAIN groups' = DOMAIN groups \cup {k}
      /\ \A j \in DOMAIN groups' : groups'[j] = IF j = k THEN g ELSE groups[j]
  BY <1>1 DEF With
<1>6. WorkerTypes'
  BY <1>3, <1>4, <1>5 DEF WorkerTypes
<1>7. /\ InstanceTypes' /\ ThreadTypes' /\ Holders' = Holders /\ Events(queue)' = Events(queue)
  BY DEF WorkerOpenGroup, InstanceTypes, perInstance, ThreadTypes, threads, Holders, HoldsPermit,
         Events
<1>8. CASE k \in DOMAIN groups
  <2>1. WriteGroup(groups[k]) /\ ReleasePermits(1)
    BY <1>8 DEF WorkerOpenGroup
  <2>2. OutputTypes'
    BY <1>8, <2>1, WriteGroupTypes DEF WorkerOpenGroup, OutputTypes
  <2>3. reservedEvents >= 1
    BY <1>2, Terms DEF PermitsAccounted
  <2>4. WithinBudget' /\ reservedEvents' = reservedEvents - 1
    BY <2>1, <2>3, Released, Terms
  <2>5. AdmissionTypes'
    BY <2>4 DEF WorkerOpenGroup, AdmissionTypes, WithinBudget, barriers
  <2>6. DOMAIN groups' = DOMAIN groups
    BY <1>5, <1>8
  <2>7. PermitsAccounted'
    BY <1>2, <1>3, <1>7, <2>4, <2>6, Terms DEF PermitsAccounted, WithinBudget
  <2> QED
    BY <1>3, <1>6, <1>7, <2>2, <2>5, <2>7
<1>9. CASE k \notin DOMAIN groups
  <2>1. UNCHANGED <<output, reservedEvents, reservedBytes>>
    BY <1>9 DEF WorkerOpenGroup
  <2>2. AdmissionTypes' /\ OutputTypes'
    BY <2>1 DEF WorkerOpenGroup, AdmissionTypes, OutputTypes, output, barriers
  <2>3. IsFiniteSet(DOMAIN groups)
    BY GroupsFinite DEF WorkerTypes
  <2>4. Cardinality(DOMAIN groups \cup {k}) = Cardinality(DOMAIN groups) + 1
    BY <1>9, <2>3, FS_AddElement
  <2>5. Cardinality(DOMAIN groups') = Cardinality(DOMAIN groups) + 1
    BY <1>5, <2>4
  <2>6. PermitsAccounted'
    BY <1>2, <1>3, <1>7, <2>1, <2>5, Terms DEF PermitsAccounted
  <2> QED
    BY <1>3, <1>6, <1>7, <2>2, <2>6
<1> QED
  BY <1>8, <1>9

\* A summary holds no permit.
LEMMA WorkerSummaryStep ==
  ASSUME IndInv, WorkerSummary
  PROVE  IndInv'
<1> DEFINE s == worker.item
           path == <<s.instance, MainDestination, s.hour>>
<1> USE DEF IndInv, TypeOK
<1>1. HandlingA("summary") /\ Goto("top")
  BY DEF WorkerSummary
<1>2. s \in SummaryType
  BY <1>1, InHandTypes DEF HandlingA
<1>3. path \in Paths /\ SummaryLine(s) \in LineType
  BY <1>2, RoutingAssumption DEF SummaryType, Paths, SummaryLine, LineType
<1>4. files' \in [Paths -> Seq(LineType)]
  <2>1. files' = [files EXCEPT ![path] = Append(@, SummaryLine(s))]
    BY DEF WorkerSummary, Write
  <2>2. files[path] \in Seq(LineType)
    BY <1>3 DEF OutputTypes
  <2>3. Append(files[path], SummaryLine(s)) \in Seq(LineType)
    BY <1>3, <2>2
  <2> QED
    BY <1>3, <2>1, <2>3 DEF OutputTypes
<1>5. unconfirmed' \in [Instances -> [occurrences : Nat, lines : Nat, overload : Nat]]
  <2>1. unconfirmed \in [Instances -> [occurrences : Nat, lines : Nat, overload : Nat]]
    BY DEF OutputTypes
  <2>2. s.instance \in Instances /\ s.count \in Nat
    BY <1>2 DEF SummaryType
  <2> QED
    BY <2>1, <2>2 DEF WorkerSummary
<1>6. OutputTypes'
  BY <1>4, <1>5 DEF WorkerSummary, OutputTypes
<1>7. PermitsAccounted' /\ WorkerTypes' /\ WorkerShape'
  <2>1. worker'.pc = "top"
    BY <1>1 DEF Goto, At
  <2>2. /\ Cardinality(Events(queue')) = Cardinality(Events(queue)) /\ ~HandlingA("event")
        /\ worker.pc # "burying" /\ UNCHANGED <<reservedEvents, reservedBytes, producer, groups>>
    BY <1>1 DEF WorkerSummary, HandlingA, admission, threads
  <2> QED
    BY <1>1, <2>1, <2>2, PermitFree
<1>8. AdmissionTypes' /\ ThreadTypes'
  BY DEF WorkerSummary, AdmissionTypes, admission, barriers, ThreadTypes, threads
<1>9. InstanceTypes'
  BY DEF WorkerSummary, SummaryWritten, InstanceTypes
<1> QED
  BY <1>6, <1>7, <1>8, <1>9

\* A barrier is kept in hand until it is signalled.
LEMMA WorkerBarrierStep ==
  ASSUME IndInv, WorkerBarrier
  PROVE  IndInv'
<1> USE DEF IndInv, TypeOK
<1>1. HandlingA("barrier") /\ FlushOutput /\ worker' = [worker EXCEPT !.pc = "signal"]
  BY DEF WorkerBarrier
<1>2. worker \in WorkerAt /\ worker.item \in BarrierType /\ HeldPermits = 0 /\ Buried = 0
  <2>1. worker.pc = "item" /\ ~HandlingA("event")
    BY <1>1 DEF HandlingA
  <2> QED
    BY <1>1, <2>1, InHandTypes
<1>3. worker' \in WorkerType /\ worker'.pc = "signal" /\ worker'.item = worker.item
  BY <1>1, <1>2 DEF WorkerAt, WorkerType
<1>4. WorkerTypes' /\ WorkerShape'
  BY <1>2, <1>3 DEF WorkerBarrier, WorkerTypes, WorkerShape
<1>5. InstanceTypes' /\ OutputTypes'
  BY <1>1, FlushTypes DEF WorkerBarrier, InstanceTypes, OutputTypes
<1>6. AdmissionTypes' /\ ThreadTypes'
  BY DEF WorkerBarrier, AdmissionTypes, admission, barriers, ThreadTypes, threads
<1>7. HeldPermits' = 0 /\ Buried' = 0
  BY <1>3 DEF HeldPermits, HandlingA, Buried
<1>8. PermitsAccounted'
  BY <1>2, <1>7, PermitsKept DEF WorkerBarrier, admission, threads, Holders, HoldsPermit, Events
<1> QED
  BY <1>4, <1>5, <1>6, <1>8

\* The shutdown item goes back behind what is queued, or the worker drains.
LEMMA WorkerShutdownStep ==
  ASSUME IndInv, WorkerShutdown
  PROVE  IndInv'
<1> USE DEF IndInv, TypeOK
<1>1. FinalBalances \in SUBSET Instances
  BY OwingInstances DEF FinalBalances
<1>2. PICK order \in Ascending(FinalBalances) :
        \/ Goto("top") /\ queue' = Append(queue \o SummaryItems(order), Shutdown)
        \/ Goto("draining") /\ queue' = queue
  BY DEF WorkerShutdown
<1>3. queue' \in Seq(ItemType) /\ Cardinality(Events(queue')) = Cardinality(Events(queue))
  BY <1>1, <1>2, ControlQueued DEF AdmissionTypes
<1>4. InstanceTypes' /\ sequence' \in Nat
  BY <1>1, BalancesTypes DEF WorkerShutdown
<1>5. AdmissionTypes'
  BY <1>3, <1>4 DEF WorkerShutdown, AdmissionTypes, barriers
<1>6. ThreadTypes' /\ OutputTypes'
  BY DEF WorkerShutdown, ThreadTypes, threads, OutputTypes, output
<1>7. /\ Goto(worker'.pc) /\ worker'.pc \in {"top", "draining"}
      /\ ~HandlingA("event") /\ worker.pc # "burying"
      /\ UNCHANGED <<reservedEvents, reservedBytes, producer, groups>>
  BY <1>2 DEF WorkerShutdown, Goto, At, HandlingA, threads
<1>8. PermitsAccounted' /\ WorkerTypes' /\ WorkerShape'
  BY <1>3, <1>7, PermitFree
<1> QED
  BY <1>4, <1>5, <1>6, <1>8
-----------------------------------------------------------------------------
(* Failures *)

\* An error drops the item in hand and, maybe, the group being written.
LEMMA WorkerErrorStep ==
  ASSUME IndInv, WorkerError
  PROVE  IndInv'
<1> USE DEF IndInv, TypeOK
<1>1. worker' \in WorkerType /\ HeldPermits' = 0 /\ Buried' = 0 /\ WorkerShape'
  BY GotoTypes DEF WorkerError
<1>2. /\ InstanceTypes' /\ ThreadTypes' /\ OutputTypes' /\ Buried = 0
      /\ Holders' = Holders /\ Events(queue)' = Events(queue)
  BY DEF WorkerError, InstanceTypes, perInstance, ThreadTypes, threads, OutputTypes, output,
         Holders, HoldsPermit, Events, DoesOutput, Buried
<1>3. CASE groups' = groups /\ ReleasePermits(HeldPermits)
  <2>1. HeldPermits \in Nat /\ HeldPermits <= reservedEvents
    BY Terms DEF PermitsAccounted
  <2>2. WithinBudget' /\ reservedEvents' = reservedEvents - HeldPermits
    BY <1>3, <2>1, Released
  <2>3. PermitsAccounted'
    BY <1>1, <1>2, <1>3, <2>2, Terms DEF PermitsAccounted, WithinBudget
  <2>4. AdmissionTypes' /\ WorkerTypes'
    BY <1>1, <1>3, <2>2 DEF WorkerError, AdmissionTypes, WithinBudget, barriers, WorkerTypes
  <2> QED
    BY <1>1, <1>2, <2>3, <2>4
<1>4. ASSUME NEW k \in InWriting, groups' = Without(k), ReleasePermits(HeldPermits + 1)
      PROVE  IndInv'
  <2>1. k \in DOMAIN groups
    BY MustFinishOpen DEF InWriting
  <2>2. /\ Cardinality(DOMAIN groups') = Cardinality(DOMAIN groups) - 1
        /\ Cardinality(DOMAIN groups) >= 1
        /\ DOMAIN groups' \subseteq Keys
        /\ \A j \in DOMAIN groups' :
              groups'[j] \in [first : EventType, last : Nat, count : Nat \ {0}]
    BY <1>4, <2>1, GroupRemoved
  <2>3. HeldPermits + 1 \in Nat /\ HeldPermits + 1 <= reservedEvents
    BY <2>2, Terms DEF PermitsAccounted
  <2>4. WithinBudget' /\ reservedEvents' = reservedEvents - (HeldPermits + 1)
    BY <1>4, <2>3, Released
  <2>5. PermitsAccounted'
    BY <1>1, <1>2, <2>2, <2>4, Terms DEF PermitsAccounted, WithinBudget
  <2>6. AdmissionTypes' /\ WorkerTypes'
    BY <1>1, <2>2, <2>4 DEF WorkerError, AdmissionTypes, WithinBudget, barriers, WorkerTypes
  <2> QED
    BY <1>1, <1>2, <2>5, <2>6
<1> QED
  BY <1>3, <1>4 DEF WorkerError

\* A panic drops the item in hand; the groups follow.
LEMMA WorkerPanicStep ==
  ASSUME IndInv, WorkerPanic
  PROVE  IndInv'
<1> USE DEF IndInv, TypeOK
<1>1. worker' \in WorkerType /\ HeldPermits' = 0 /\ Buried' = 0 /\ WorkerShape'
  BY GotoTypes DEF WorkerPanic
<1>2. /\ InstanceTypes' /\ ThreadTypes' /\ OutputTypes' /\ Buried = 0
      /\ Holders' = Holders /\ Events(queue)' = Events(queue) /\ groups' = groups
  BY DEF WorkerPanic, InstanceTypes, perInstance, ThreadTypes, threads, OutputTypes, output,
         Holders, HoldsPermit, Events, DoesOutput, Buried
<1>3. HeldPermits \in Nat /\ HeldPermits <= reservedEvents
  BY Terms DEF PermitsAccounted
<1>4. WithinBudget' /\ reservedEvents' = reservedEvents - HeldPermits
  BY <1>3, Released DEF WorkerPanic
<1>5. PermitsAccounted'
  BY <1>1, <1>2, <1>4, Terms DEF PermitsAccounted, WithinBudget
<1>6. AdmissionTypes' /\ WorkerTypes'
  BY <1>1, <1>2, <1>4 DEF WorkerPanic, AdmissionTypes, WithinBudget, barriers, WorkerTypes
<1> QED
  BY <1>1, <1>2, <1>5, <1>6

\* The queue leaves the shared state with the permits of its events.
LEMMA WorkerFailStep ==
  ASSUME IndInv, WorkerFail
  PROVE  IndInv'
<1> USE DEF IndInv, TypeOK
<1>1. Cardinality(Events(queue)) \in Nat
  BY Terms
<1>2. worker' \in WorkerType /\ WorkerShape'
  BY <1>1 DEF WorkerFail, WorkerType, WorkerShape
<1>3. HeldPermits' = 0 /\ Buried' = Cardinality(Events(queue)) /\ HeldPermits = 0 /\ Buried = 0
  BY DEF WorkerFail, HeldPermits, HandlingA, Buried
<1>4. Cardinality(Events(queue')) = 0
  <2>1. Events(queue') = {}
    BY DEF WorkerFail, Events
  <2> QED
    BY <2>1, FS_EmptySet
<1>5. AdmissionTypes' /\ InstanceTypes' /\ ThreadTypes' /\ WorkerTypes' /\ OutputTypes'
  BY <1>2 DEF WorkerFail, AdmissionTypes, barriers, InstanceTypes, perInstance, ThreadTypes,
              threads, WorkerTypes, OutputTypes, output
<1>6. Holders' = Holders /\ groups' = groups /\ UNCHANGED <<reservedEvents, reservedBytes>>
  BY DEF WorkerFail, threads, Holders, HoldsPermit
<1>7. PermitsAccounted'
  BY <1>3, <1>4, <1>6, Terms DEF PermitsAccounted
<1> QED
  BY <1>2, <1>5, <1>7

\* Each event of the queue a failure took away frees its slot in turn.
LEMMA WorkerBuryStep ==
  ASSUME IndInv, WorkerBury
  PROVE  IndInv'
<1> USE DEF IndInv, TypeOK
<1>1. /\ InstanceTypes' /\ OutputTypes' /\ ThreadTypes'
      /\ Holders' = Holders /\ Events(queue)' = Events(queue) /\ groups' = groups
  BY DEF WorkerBury, NotifyAll, InstanceTypes, perInstance, OutputTypes, output, ThreadTypes,
         Holders, HoldsPermit, Events
<1>2. worker \in [pc : {"burying"}, buried : Nat] /\ Buried = worker.buried /\ HeldPermits = 0
  BY DEF WorkerBury, WorkerTypes, WorkerType, Buried, HeldPermits, HandlingA
<1>3. CASE worker.buried > 0
  <2>1. ReleasePermits(1) /\ worker' = [worker EXCEPT !.buried = @ - 1]
    BY <1>3 DEF WorkerBury
  <2>2. reservedEvents >= 1
    BY <1>2, <1>3, Terms DEF PermitsAccounted
  <2>3. WithinBudget' /\ reservedEvents' = reservedEvents - 1
    BY <2>1, <2>2, Released, Terms
  <2>4. worker' \in [pc : {"burying"}, buried : Nat] /\ worker'.buried = worker.buried - 1
    BY <1>2, <1>3, <2>1
  <2>5. worker' \in WorkerType /\ WorkerShape' /\ HeldPermits' = 0 /\ Buried' = Buried - 1
    BY <1>2, <2>4 DEF WorkerType, WorkerShape, HeldPermits, HandlingA, Buried
  <2>6. AdmissionTypes' /\ WorkerTypes'
    BY <1>1, <2>3, <2>5 DEF WorkerBury, AdmissionTypes, WithinBudget, barriers, WorkerTypes
  <2>7. PermitsAccounted'
    BY <1>1, <1>2, <2>3, <2>5, Terms DEF PermitsAccounted, WithinBudget
  <2> QED
    BY <1>1, <2>5, <2>6, <2>7
<1>4. CASE ~(worker.buried > 0)
  <2>1. worker.buried = 0 /\ Goto("dying") /\ UNCHANGED <<reservedEvents, reservedBytes>>
    BY <1>4 DEF WorkerBury
  <2>2. worker' \in WorkerType /\ HeldPermits' = 0 /\ Buried' = 0 /\ WorkerShape'
    BY <2>1, GotoTypes
  <2>3. AdmissionTypes' /\ WorkerTypes'
    BY <1>1, <2>1, <2>2 DEF WorkerBury, AdmissionTypes, barriers, WorkerTypes
  <2>4. PermitsAccounted'
    BY <1>1, <1>2, <2>1, <2>2, PermitsKept
  <2> QED
    BY <1>1, <2>2, <2>3, <2>4
<1> QED
  BY <1>3, <1>4

\* An open group dropped with the worker frees its slot and writes nothing.
LEMMA WorkerDropGroupStep ==
  ASSUME IndInv, NEW k \in Keys, WorkerDropGroup(k)
  PROVE  IndInv'
<1> USE DEF IndInv, TypeOK
<1>1. /\ Cardinality(DOMAIN groups') = Cardinality(DOMAIN groups) - 1
      /\ Cardinality(DOMAIN groups) >= 1
      /\ DOMAIN groups' \subseteq Keys
      /\ \A j \in DOMAIN groups' :
            groups'[j] \in [first : EventType, last : Nat, count : Nat \ {0}]
  BY GroupRemoved DEF WorkerDropGroup
<1>2. reservedEvents >= 1
  BY <1>1, Terms DEF PermitsAccounted
<1>3. WithinBudget' /\ reservedEvents' = reservedEvents - 1
  BY <1>2, Released, Terms DEF WorkerDropGroup
<1>4. WorkerTypes' /\ WorkerShape'
  BY <1>1 DEF WorkerDropGroup, WorkerTypes, WorkerShape
<1>5. AdmissionTypes' /\ OutputTypes'
  BY <1>3 DEF WorkerDropGroup, DiscardedByDrop, AdmissionTypes, WithinBudget, barriers,
              OutputTypes, output
<1>6. InstanceTypes' /\ ThreadTypes'
  BY DEF WorkerDropGroup, InstanceTypes, perInstance, ThreadTypes, threads
<1>7. /\ Holders' = Holders /\ Events(queue)' = Events(queue)
      /\ HeldPermits' = HeldPermits /\ Buried' = Buried
  BY DEF WorkerDropGroup, threads, Holders, HoldsPermit, Events, HeldPermits, HandlingA, Buried
<1>8. PermitsAccounted'
  BY <1>1, <1>3, <1>7, Terms DEF PermitsAccounted, WithinBudget
<1> QED
  BY <1>4, <1>5, <1>6, <1>8

\* The wall clock, and a step that changes nothing.
LEMMA QuietStep ==
  ASSUME IndInv, WallClock \/ UNCHANGED vars
  PROVE  IndInv'
<1> USE DEF IndInv, TypeOK
<1>1. /\ UNCHANGED <<admission, barriers, perInstance, threads, worker, groups, output, calls>>
      /\ hour' \in Hours
  BY DEF WallClock, vars, OutputTypes
<1>2. AdmissionTypes' /\ InstanceTypes' /\ ThreadTypes' /\ WorkerTypes' /\ OutputTypes'
  BY <1>1 DEF AdmissionTypes, admission, barriers, InstanceTypes, perInstance, ThreadTypes,
              threads, WorkerTypes, OutputTypes, output
<1>3. PermitsAccounted' /\ WorkerShape'
  BY <1>1, PermitsKept DEF admission, threads, WorkerShape, Holders, HoldsPermit, Events,
                           HeldPermits, HandlingA, Buried
<1> QED
  BY <1>2, <1>3
-----------------------------------------------------------------------------
(* The invariant *)

\* Nothing is reserved at the start.
LEMMA InitIndInv == Init => IndInv
<1> SUFFICES ASSUME Init PROVE IndInv
  OBVIOUS
<1> USE DEF Init
<1>1. AdmissionTypes
  BY DEF AdmissionTypes
<1>2. InstanceTypes
  BY DEF InstanceTypes, CounterType
<1>3. ThreadTypes
  BY DEF ThreadTypes, IdleProducer, IdleClient, ProducerType
<1>4. worker = At("top") /\ DOMAIN groups = {}
  OBVIOUS
<1>5. WorkerTypes /\ WorkerShape
  BY <1>4 DEF WorkerTypes, WorkerShape, At, WorkerType
<1>6. OutputTypes
  BY DEF OutputTypes, NothingUnconfirmed
<1>7. Holders = {} /\ Events(queue) = {} /\ HeldPermits = 0 /\ Buried = 0
  BY <1>4 DEF Holders, HoldsPermit, IdleProducer, Events, HeldPermits, HandlingA, Buried, At
<1>8. Cardinality({}) = 0
  BY FS_EmptySet
<1>9. MaxEventBytes * 0 = 0 /\ 0 <= MaxEvents /\ 0 <= MaxBytes
  BY BudgetAssumption
<1>10. /\ Cardinality(Holders) = 0 /\ Cardinality(Events(queue)) = 0
       /\ Cardinality(DOMAIN groups) = 0
  BY <1>4, <1>7, <1>8
<1>11. PermitsAccounted
  BY <1>7, <1>9, <1>10 DEF PermitsAccounted
<1> QED
  BY <1>1, <1>2, <1>3, <1>5, <1>6, <1>11 DEF IndInv, TypeOK

\* Every step keeps it.
LEMMA NextIndInv == IndInv /\ [Next]_vars => IndInv'
<1> SUFFICES ASSUME IndInv, [Next]_vars PROVE IndInv'
  OBVIOUS
<1>1. CASE ProducerStep
  BY <1>1, EmitReserveStep, EmitRefusedStep, EmitFilteredStep, EmitAcceptStep, EmitAbandonStep,
     DropPermitStep DEF ProducerStep
<1>2. CASE ClientStep
  BY <1>2, FlushBeginStep, ShutdownBeginStep, CallerStep DEF ClientStep
<1>3. CASE WorkerStep
  BY <1>3, WorkerTopStep, WorkerFinishStep, ConfirmingStep, WorkerTakeStep, WorkerMoveStep,
     WorkerMergeStep, WorkerOpenGroupStep, WorkerSummaryStep, WorkerBarrierStep,
     WorkerShutdownStep, WorkerFailStep, WorkerBuryStep, WorkerDropGroupStep DEF WorkerStep
<1>4. CASE WorkerFault
  BY <1>4, WorkerErrorStep, WorkerPanicStep DEF WorkerFault
<1>5. CASE WallClock \/ UNCHANGED vars
  BY <1>5, QuietStep
<1> QED
  BY <1>1, <1>2, <1>3, <1>4, <1>5 DEF Next

\* The invariant holds in every reachable state.
LEMMA Inductive == Spec => []IndInv
  BY InitIndInv, NextIndInv, PTL DEF Spec

\* The variables of the engine keep their types: no counter underflows.
THEOREM Types == Spec => []TypeOK
<1>1. IndInv => TypeOK
  BY DEF IndInv
<1> QED
  BY Inductive, <1>1, PTL

\* Each reserved slot has exactly one owner and no budget is exceeded (Permit,
\* engine.rs), for any number of threads, instances and calls.
THEOREM Budgets == Spec => []PermitsAccounted
<1>1. IndInv => PermitsAccounted
  BY DEF IndInv
<1> QED
  BY Inductive, <1>1, PTL
-----------------------------------------------------------------------------
(* Fail-stop *)

\* Only the worker fails the runtime, and it does nothing afterwards but die.
DyingWhenFailed == health = "failed" => worker.pc \in {"burying", "dying", "exited"}

\* A dying worker takes none of the steps that write, confirm or close.
LEMMA DyingSteps ==
  ASSUME worker.pc \in {"burying", "dying", "exited"}, WorkerStep \/ WorkerFault
  PROVE  WorkerBury \/ WorkerDropped \/ \E k \in Keys : WorkerDropGroup(k)
<1>1. MustFinish = {} /\ ~DoesOutput
  BY DEF MustFinish, HandlingA, DoesOutput
<1> QED
  BY <1>1 DEF WorkerStep, WorkerFault, WorkerTop, WorkerPeriodic, WorkerTake, WorkerWake,
     WorkerMerge, WorkerOpenGroup, WorkerSummary, WorkerBarrier, WorkerSignal, WorkerShutdown,
     WorkerDrained, WorkerClosed, WorkerFail, WorkerFinish, WorkerError, WorkerPanic, HandlingA

\* Every step keeps a failed runtime failed, and its worker on the way out.
LEMMA DyingWhenFailedStep == IndInv /\ DyingWhenFailed /\ [Next]_vars => DyingWhenFailed'
<1> SUFFICES ASSUME IndInv, DyingWhenFailed, [Next]_vars PROVE DyingWhenFailed'
  OBVIOUS
<1> USE DEF DyingWhenFailed
<1>1. CASE ProducerStep
  BY <1>1 DEF ProducerStep, EmitReserve, EmitRefused, EmitTooLarge, EmitFiltered, EmitAccept,
              EmitAbandon, DropPermit, TracingRefuse, admission, threads
<1>2. CASE ClientStep
  BY <1>2 DEF ClientStep, FlushBegin, FlushRefused, FlushWake, ShutdownBegin, ShutdownReturn,
              admission
<1>3. CASE WorkerStep \/ WorkerFault
  <2>1. CASE health = "failed"
    <3>1. WorkerBury \/ WorkerDropped \/ \E k \in Keys : WorkerDropGroup(k)
      BY <1>3, <2>1, DyingSteps
    <3>2. CASE WorkerBury
      BY <3>2 DEF WorkerBury, Goto, At, IndInv, TypeOK, WorkerTypes, WorkerType
    <3>3. CASE WorkerDropped
      BY <2>1, <3>3 DEF WorkerDropped, Goto, At
    <3>4. CASE \E k \in Keys : WorkerDropGroup(k)
      BY <2>1, <3>4 DEF WorkerDropGroup
    <3> QED
      BY <3>1, <3>2, <3>3, <3>4
  <2>2. CASE health # "failed"
    <3>1. WorkerFail \/ health' # "failed"
      BY <1>3, <2>2 DEF WorkerStep, WorkerFault, WorkerTop, WorkerPeriodic, WorkerTake, WorkerWake,
         WorkerMerge, WorkerOpenGroup, WorkerSummary, WorkerBarrier, WorkerSignal,
         WorkerShutdown, WorkerDrained, WorkerClosed, WorkerBury, WorkerDropped, WorkerFinish,
         WorkerDropGroup, WorkerError, WorkerPanic, admission
    <3>2. CASE WorkerFail
      BY <3>2 DEF WorkerFail
    <3> QED
      BY <3>1, <3>2
  <2> QED
    BY <2>1, <2>2
<1>4. CASE WallClock \/ UNCHANGED vars
  BY <1>4 DEF WallClock, vars, admission
<1> QED
  BY <1>1, <1>2, <1>3, <1>4 DEF Next

\* A refusal counts a refusal, and nothing else.
LEMMA RefusalConfirmsNothing ==
  ASSUME TypeOK, NEW i \in Instances, NEW reason \in Reasons, Refusal(i, reason)
  PROVE  \A j \in Instances : /\ counters'[j].written = counters[j].written
                              /\ counters'[j].reported = counters[j].reported
<1>1. counters \in [Instances -> CounterType]
  BY DEF TypeOK, InstanceTypes
<1> QED
  BY <1>1 DEF Refusal, CounterType

\* A failed runtime stays failed, writes nothing and confirms nothing more
\* (Shared::fail, FileOutput's Drop): a partial write is never retried.
THEOREM FailsForGood == Spec => FailStop
<1> DEFINE Stopped ==
      health = "failed" =>
         /\ UNCHANGED <<health, files, durable>>
         /\ \A i \in Instances :
               /\ counters'[i].written = counters[i].written
               /\ counters'[i].reported = counters[i].reported
<1>1. Init => DyingWhenFailed
  BY DEF Init, DyingWhenFailed
<1>2. IndInv /\ DyingWhenFailed /\ [Next]_vars => [Stopped]_vars
  <2> SUFFICES ASSUME IndInv, DyingWhenFailed, Next, health = "failed" PROVE Stopped
    OBVIOUS
  <2> TypeOK /\ counters \in [Instances -> CounterType]
    BY DEF IndInv, TypeOK, InstanceTypes
  <2>1. CASE ProducerStep
    <3>1. CASE \E i \in Instances, reason \in Reasons : Refusal(i, reason)
      <4>1. UNCHANGED <<health, files, durable>>
        BY <2>1 DEF ProducerStep, EmitReserve, EmitRefused, EmitTooLarge, EmitFiltered, EmitAccept,
                    EmitAbandon, DropPermit, TracingRefuse, admission, output
      <4> QED
        BY <3>1, <4>1, RefusalConfirmsNothing
    <3>2. CASE \E p \in Producers, i \in Instances : EmitFiltered(p, i)
      BY <3>2 DEF EmitFiltered, CounterType, admission, output
    <3>3. CASE \E p \in Producers : DropPermit(p)
      BY <3>3 DEF DropPermit, perInstance, output
    <3>4. ASSUME NEW p \in Producers, EmitAbandon(p)
          PROVE  \E i \in Instances, reason \in Reasons : Refusal(i, reason)
      <4>1. producer[p].instance \in Instances
        BY <3>4 DEF EmitAbandon, TypeOK, ThreadTypes, ProducerType
      <4> QED
        BY <3>4, <4>1 DEF EmitAbandon, AdmissionRefusal, Reasons
    <3>5. \/ \E i \in Instances, reason \in Reasons : Refusal(i, reason)
          \/ \E p \in Producers, i \in Instances : EmitFiltered(p, i)
          \/ \E p \in Producers : DropPermit(p)
      BY <2>1, <3>4 DEF ProducerStep, EmitReserve, EmitRefused, EmitTooLarge, EmitAccept,
                        TracingRefuse, AdmissionRefusal, Reasons
    <3> QED
      BY <3>1, <3>2, <3>3, <3>5
  <2>2. CASE ClientStep
    BY <2>2 DEF ClientStep, FlushBegin, FlushRefused, FlushWake, ShutdownBegin, ShutdownReturn,
                admission, perInstance, output
  <2>3. CASE WorkerStep \/ WorkerFault
    <3>1. WorkerBury \/ WorkerDropped \/ \E k \in Keys : WorkerDropGroup(k)
      BY <2>3, DyingSteps DEF DyingWhenFailed
    <3> QED
      BY <3>1 DEF WorkerBury, WorkerDropped, WorkerDropGroup, DiscardedByDrop, admission,
                  perInstance, output
  <2>4. CASE WallClock
    BY <2>4 DEF WallClock, admission, perInstance, output
  <2> QED
    BY <2>1, <2>2, <2>3, <2>4 DEF Next
<1> QED
  BY Inductive, DyingWhenFailedStep, <1>1, <1>2, PTL DEF Spec, FailStop
-----------------------------------------------------------------------------
(* Order in the files *)

\* An item that carries a sequence number, and the one the worker has in hand, if any.
IsNumbered(item) == item.kind \in {"event", "summary"}
HoldsNumber == worker.pc = "item" /\ IsNumbered(worker.item)

\* The numbers that are still to be written, but for those in groups.
Ahead == {queue[n].seq : n \in Numbered(queue)}
         \cup (IF HoldsNumber THEN {worker.item.seq} ELSE {})
\* A number that was given before all of them.
Behind(number) == number \in Nat /\ number <= sequence /\ \A a \in Ahead : number < a

Sorted(q) == \A m, n \in Numbered(q) : m < n => q[m].seq < q[n].seq

\* The worker takes the numbers in the order they were given.
QueueInOrder ==
    /\ Sorted(queue)
    /\ \A a \in Ahead : a <= sequence
    /\ HoldsNumber => \A n \in Numbered(queue) : worker.item.seq < queue[n].seq

GroupsBehind ==
    \A k \in DOMAIN groups :
        LET g == groups[k] IN
        KeyOf(g.first) = k /\ g.first.seq <= g.last /\ Behind(g.last)

LinesBehind ==
    \A p \in Paths : \A n \in DOMAIN files[p] :
        files[p][n].first <= files[p][n].last /\ Behind(files[p][n].last)

\* An open group comes after every line of its file.
GroupsAfterLines ==
    \A k \in DOMAIN groups : \A n \in DOMAIN files[PathOf(groups[k].first)] :
        files[PathOf(groups[k].first)][n].last < groups[k].first.seq

LinesInOrder == \A p \in Paths : InOrder(files[p])

OutputInOrder == GroupsBehind /\ LinesBehind /\ GroupsAfterLines /\ LinesInOrder
Order == QueueInOrder /\ OutputInOrder

\* The events that may still begin or join a group, or have begun one.
LiveEvents ==
    {queue[n] : n \in Events(queue)}
    \cup (IF HandlingA("event") THEN {worker.item} ELSE {})
    \cup {groups[k].first : k \in DOMAIN groups}
\* No refusal of the instance came between the numbers a and b.
NoBreakWithin(i, a, b) == \A x \in breaks[i] : ~(a <= x /\ x < b)

\* Refusals are noted at the last number given.
BreaksBehind == \A i \in Instances : \A x \in breaks[i] : x <= sequence
\* An event of the current epoch of its instance came after its last refusal.
EpochsCurrent ==
    \A e \in LiveEvents :
        /\ e.epoch <= epoch[e.instance]
        /\ e.epoch = epoch[e.instance] => \A x \in breaks[e.instance] : x < e.seq
\* No refusal separates two events of one epoch.
EventsContinuous ==
    \A e, f \in LiveEvents :
        e.instance = f.instance /\ e.epoch = f.epoch => NoBreakWithin(e.instance, e.seq, f.seq)
\* ... nor the two ends of a group.
GroupsContinuous ==
    \A k \in DOMAIN groups : NoBreakWithin(k[1], groups[k].first.seq, groups[k].last)
Continuity ==
    BreaksBehind /\ EpochsCurrent /\ EventsContinuous /\ GroupsContinuous /\ NoLineSpansRefusal
-----------------------------------------------------------------------------
(* Queues *)

\* `Numbered` picks positions.
LEMMA NumberedPositions ==
  ASSUME NEW q \in Seq(ItemType)
  PROVE  /\ Len(q) \in Nat
         /\ \A n \in Numbered(q) : n \in Nat /\ 1 <= n /\ n <= Len(q)
         /\ \A n \in Numbered(q) : q[n].seq \in Nat
<1>1. Len(q) \in Nat /\ DOMAIN q = 1..Len(q)
  OBVIOUS
<1>2. \A n \in 1..Len(q) : q[n] \in ItemType
  OBVIOUS
<1>3. \A x \in ItemType : x.kind \in {"event", "summary"} => x.seq \in Nat
  BY DEF ItemType, EventType, SummaryType, BarrierType, Shutdown
<1> QED
  BY <1>1, <1>2, <1>3 DEF Numbered

\* Appending an item keeps the order, if its number is beyond the others.
LEMMA SortedAppend ==
  ASSUME NEW q \in Seq(ItemType), NEW x \in ItemType, Sorted(q),
         IsNumbered(x) => \A n \in Numbered(q) : q[n].seq < x.seq
  PROVE  /\ Sorted(Append(q, x))
         /\ \A n \in Numbered(Append(q, x)) :
               \/ n \in Numbered(q) /\ Append(q, x)[n] = q[n]
               \/ IsNumbered(x) /\ Append(q, x)[n] = x
<1>1. \A n \in DOMAIN Append(q, x) : \/ n \in DOMAIN q /\ n <= Len(q) /\ Append(q, x)[n] = q[n]
                                     \/ n = Len(q) + 1 /\ Append(q, x)[n] = x
  OBVIOUS
<1>2. \A n \in Numbered(Append(q, x)) :
         \/ n \in Numbered(q) /\ n <= Len(q) /\ Append(q, x)[n] = q[n]
         \/ n = Len(q) + 1 /\ IsNumbered(x) /\ Append(q, x)[n] = x
  BY <1>1 DEF Numbered, IsNumbered
<1>3. ASSUME NEW m \in Numbered(Append(q, x)), NEW n \in Numbered(Append(q, x)), m < n
      PROVE  Append(q, x)[m].seq < Append(q, x)[n].seq
  <2>1. Len(q) \in Nat /\ \A k \in Numbered(q) : k \in Nat
    BY NumberedPositions
  <2>2. m \in Numbered(q) /\ Append(q, x)[m] = q[m]
    <3>1. m \in Nat /\ n \in Nat /\ n <= Len(q) + 1
      BY <1>2, <2>1
    <3>2. m # Len(q) + 1
      BY <1>3, <2>1, <3>1
    <3> QED
      BY <1>2, <3>2
  <2>3. CASE n \in Numbered(q) /\ Append(q, x)[n] = q[n]
    BY <1>3, <2>2, <2>3 DEF Sorted
  <2>4. CASE IsNumbered(x) /\ Append(q, x)[n] = x
    BY <2>2, <2>4
  <2> QED
    BY <1>2, <2>3, <2>4
<1>4. Sorted(Append(q, x))
  BY <1>3 DEF Sorted
<1> QED
  BY <1>2, <1>4

\* Taking the head keeps the order.
LEMMA SortedTail ==
  ASSUME NEW q \in Seq(ItemType), q # <<>>, Sorted(q)
  PROVE  /\ Sorted(Tail(q))
         /\ \A n \in Numbered(Tail(q)) : n + 1 \in Numbered(q) /\ Tail(q)[n] = q[n + 1]
         /\ IsNumbered(Head(q)) => /\ 1 \in Numbered(q) /\ Head(q) = q[1]
                                   /\ \A n \in Numbered(Tail(q)) : Head(q).seq < Tail(q)[n].seq
<1>1. \A n \in DOMAIN Tail(q) : n \in Nat /\ n >= 1 /\ n + 1 \in DOMAIN q /\ Tail(q)[n] = q[n + 1]
  OBVIOUS
<1>2. \A n \in Numbered(Tail(q)) : n \in Nat /\ n >= 1 /\ n + 1 \in Numbered(q) /\ Tail(q)[n] = q[n + 1]
  BY <1>1 DEF Numbered
<1>3. IsNumbered(Head(q)) => 1 \in Numbered(q) /\ Head(q) = q[1]
  BY DEF Numbered, IsNumbered
<1>4. ASSUME NEW m \in Numbered(Tail(q)), NEW n \in Numbered(Tail(q)), m < n
      PROVE  Tail(q)[m].seq < Tail(q)[n].seq
  <2>1. m + 1 < n + 1
    BY <1>2, <1>4
  <2> QED
    BY <1>2, <2>1 DEF Sorted
<1>5. ASSUME IsNumbered(Head(q)), NEW n \in Numbered(Tail(q))
      PROVE  Head(q).seq < Tail(q)[n].seq
  <2>1. 1 < n + 1
    BY <1>2
  <2> QED
    BY <1>2, <1>3, <1>5, <2>1 DEF Sorted
<1> QED
  BY <1>2, <1>3, <1>4, <1>5 DEF Sorted

\* The summaries of one locked section come in ascending numbers, after all others.
LEMMA SummariesSorted ==
  ASSUME TypeOK, NEW due \in SUBSET Instances, NEW order \in Ascending(due),
         Sorted(queue), \A n \in Numbered(queue) : queue[n].seq <= sequence
  PROVE  LET q == queue \o SummaryItems(order) IN
         /\ q \in Seq(ItemType) /\ Cardinality(due) \in Nat /\ Sorted(q)
         /\ \A n \in Numbered(q) :
               \/ n \in Numbered(queue) /\ q[n] = queue[n]
               \/ q[n].kind = "summary" /\ q[n].seq > sequence
                  /\ q[n].seq <= sequence + Cardinality(due)
<1> DEFINE q == queue \o SummaryItems(order)
           N == Cardinality(due)
<1>1. q \in Seq(ItemType) /\ N \in Nat
  BY SummariesQueued
<1>2. order \in [1..N -> due] /\ Len(order) = N
  BY <1>1 DEF Ascending
<1>3. /\ SummaryItems(order) = [k \in 1..N |-> [kind |-> "summary", instance |-> order[k],
             hour |-> hour, seq |-> sequence + k, count |-> overloadPending[order[k]]]]
  BY <1>2 DEF SummaryItems
<1>4. queue \in Seq(ItemType) /\ sequence \in Nat
  BY DEF TypeOK, AdmissionTypes
<1>5. Len(SummaryItems(order)) = N /\ SummaryItems(order) \in Seq(SummaryType)
  <2>1. ASSUME NEW k \in 1..N
        PROVE  [kind |-> "summary", instance |-> order[k], hour |-> hour,
                seq |-> sequence + k, count |-> overloadPending[order[k]]] \in SummaryType
    <3>1. order[k] \in Instances /\ k \in Nat
      BY <1>1, <1>2
    <3> QED
      BY <1>4, <3>1 DEF TypeOK, InstanceTypes, OutputTypes, SummaryType
  <2> QED
    BY <1>1, <1>3, <2>1
<1>6. \A n \in DOMAIN q : \/ n \in DOMAIN queue /\ n <= Len(queue) /\ q[n] = queue[n]
                          \/ /\ n \in Nat /\ n > Len(queue) /\ n - Len(queue) \in 1..N
                             /\ q[n] = SummaryItems(order)[n - Len(queue)]
  <2>1. Len(q) = Len(queue) + N /\ Len(queue) \in Nat
    BY <1>1, <1>4, <1>5
  <2> QED
    BY <1>1, <1>4, <1>5, <2>1
<1>a. \A k \in 1..N : /\ SummaryItems(order)[k].kind = "summary"
                      /\ SummaryItems(order)[k].seq = sequence + k
  BY <1>3
<1> HIDE DEF q, N
<1>7. \A n \in Numbered(q) :
         \/ n \in Numbered(queue) /\ n <= Len(queue) /\ q[n] = queue[n]
         \/ /\ n \in Nat /\ n > Len(queue) /\ n - Len(queue) \in 1..N
            /\ q[n].kind = "summary" /\ q[n].seq = sequence + (n - Len(queue))
  <2>1. ASSUME NEW n \in Numbered(q)
        PROVE  \/ n \in Numbered(queue) /\ n <= Len(queue) /\ q[n] = queue[n]
               \/ /\ n \in Nat /\ n > Len(queue) /\ n - Len(queue) \in 1..N
                  /\ q[n].kind = "summary" /\ q[n].seq = sequence + (n - Len(queue))
    <3>1. n \in DOMAIN q /\ q[n].kind \in {"event", "summary"}
      BY DEF Numbered
    <3>2. CASE n \in DOMAIN queue /\ n <= Len(queue) /\ q[n] = queue[n]
      BY <3>1, <3>2 DEF Numbered
    <3>3. CASE /\ n \in Nat /\ n > Len(queue) /\ n - Len(queue) \in 1..N
               /\ q[n] = SummaryItems(order)[n - Len(queue)]
      BY <1>a, <3>3
    <3> QED
      BY <1>6, <3>1, <3>2, <3>3
  <2> QED
    BY <2>1
<1>8. \A n \in Numbered(queue) : n \in Nat /\ queue[n].seq \in Nat
  BY <1>4, NumberedPositions
<1>9. Sorted(q)
  <2>1. ASSUME NEW m \in Numbered(q), NEW n \in Numbered(q), m < n
        PROVE  q[m].seq < q[n].seq
    <3>1. Len(queue) \in Nat
      BY <1>4
    <3>2. CASE n \in Numbered(queue) /\ n <= Len(queue) /\ q[n] = queue[n]
      <4>1. m \in Numbered(queue) /\ q[m] = queue[m]
        <5>1. n \in Nat
          BY <1>8, <3>2
        <5>2. ~(m \in Nat /\ m > Len(queue))
          BY <2>1, <3>1, <3>2, <5>1
        <5> QED
          BY <1>7, <5>2
      <4> QED
        BY <2>1, <3>2, <4>1 DEF Sorted
    <3>3. CASE /\ n \in Nat /\ n > Len(queue) /\ n - Len(queue) \in 1..N
               /\ q[n].seq = sequence + (n - Len(queue))
      <4>1. CASE m \in Numbered(queue) /\ q[m] = queue[m]
        BY <1>4, <1>8, <3>1, <3>3, <4>1
      <4>2. CASE m \in Nat /\ q[m].seq = sequence + (m - Len(queue))
        BY <1>4, <2>1, <3>1, <3>3, <4>2
      <4> QED
        BY <1>7, <4>1, <4>2
    <3> QED
      BY <1>7, <3>2, <3>3
  <2> QED
    BY <2>1 DEF Sorted
<1>10. \A n \in Numbered(q) :
               \/ n \in Numbered(queue) /\ q[n] = queue[n]
               \/ q[n].kind = "summary" /\ q[n].seq > sequence /\ q[n].seq <= sequence + N
  <2>1. ASSUME NEW n \in Numbered(q), n - Len(queue) \in 1..N, q[n].seq = sequence + (n - Len(queue))
        PROVE  q[n].seq > sequence /\ q[n].seq <= sequence + N
    <3> DEFINE k == n - Len(queue)
    <3>1. k \in Nat /\ 1 <= k /\ k <= N /\ q[n].seq = sequence + k
      BY <1>1, <2>1
    <3> HIDE DEF k
    <3> QED
      BY <1>1, <1>4, <3>1
  <2> QED
    BY <1>7, <2>1
<1> QED
  BY <1>1, <1>9, <1>10 DEF q, N
-----------------------------------------------------------------------------
(* Numbers only grow *)

\* A step gives new numbers above all the old ones.
Moves ==
    /\ sequence' \in Nat /\ sequence <= sequence'
    /\ \A a \in Ahead' : a \in Ahead \/ a > sequence

\* The numbers ahead are natural, and none is zero-width: they can be compared.
LEMMA AheadNatural == TypeOK => Ahead \subseteq Nat
<1> SUFFICES ASSUME TypeOK, NEW a \in Ahead PROVE a \in Nat
  OBVIOUS
<1>1. \A n \in Numbered(queue) : queue[n].seq \in Nat
  BY NumberedPositions DEF TypeOK, AdmissionTypes
<1>2. CASE HoldsNumber /\ a = worker.item.seq
  <2>1. worker.item \in ItemType
    BY <1>2 DEF HoldsNumber, IsNumbered, TypeOK, WorkerTypes, WorkerType, NoItem
  <2> QED
    BY <1>2, <2>1 DEF HoldsNumber, IsNumbered, ItemType, EventType, SummaryType, BarrierType, Shutdown
<1> QED
  BY <1>1, <1>2 DEF Ahead

\* Behind the numbers ahead after a step.
NextBehind(number) == number \in Nat /\ number <= sequence' /\ \A a \in Ahead' : number < a

\* What was behind stays behind.
LEMMA BehindStays ==
  ASSUME TypeOK, TypeOK', Moves, NEW b, Behind(b)
  PROVE  NextBehind(b)
<1>0. TypeOK' => (Ahead \subseteq Nat)'
  BY AheadNatural, PTL
<1>1. sequence \in Nat /\ sequence' \in Nat /\ Ahead \subseteq Nat /\ Ahead' \subseteq Nat
  BY <1>0, AheadNatural DEF TypeOK, AdmissionTypes
<1>2. b \in Nat /\ b <= sequence'
  BY <1>1 DEF Behind, Moves
<1>3. ASSUME NEW a \in Ahead' PROVE b < a
  <2>1. a \in Nat
    BY <1>1
  <2>2. a \in Ahead \/ a > sequence
    BY DEF Moves
  <2> QED
    BY <1>1, <1>2, <2>1, <2>2 DEF Behind
<1> QED
  BY <1>2, <1>3 DEF NextBehind

\* A step that appends higher numbers, or removes some, keeps the queue in order.
LEMMA QueueAdvances ==
  ASSUME TypeOK, TypeOK', QueueInOrder, Sorted(queue'), sequence <= sequence',
         \A n \in Numbered(queue') :
            \/ n \in Numbered(queue) /\ queue'[n] = queue[n]
            \/ queue'[n].seq > sequence /\ queue'[n].seq <= sequence',
         HoldsNumber' => HoldsNumber /\ worker'.item = worker.item
  PROVE  QueueInOrder' /\ Moves
<1>0. TypeOK' => (Ahead \subseteq Nat)'
  BY AheadNatural, PTL
<1>1. sequence \in Nat /\ sequence' \in Nat /\ Ahead \subseteq Nat /\ Ahead' \subseteq Nat
  BY <1>0, AheadNatural DEF TypeOK, AdmissionTypes
<1>2. \A n \in Numbered(queue') : queue'[n].seq \in Nat
  BY NumberedPositions DEF TypeOK, AdmissionTypes
<1>3. ASSUME NEW a \in Ahead' PROVE (a \in Ahead \/ a > sequence) /\ a <= sequence'
  <2>1. CASE HoldsNumber' /\ a = worker'.item.seq
    <3>1. a \in Ahead
      BY <2>1 DEF Ahead
    <3> QED
      BY <1>1, <3>1 DEF QueueInOrder
  <2>2. ASSUME NEW n \in Numbered(queue'), a = queue'[n].seq
        PROVE  (a \in Ahead \/ a > sequence) /\ a <= sequence'
    <3>1. CASE n \in Numbered(queue) /\ queue'[n] = queue[n]
      <4>1. a \in Ahead
        BY <2>2, <3>1 DEF Ahead
      <4> QED
        BY <1>1, <4>1 DEF QueueInOrder
    <3> QED
      BY <2>2, <3>1
  <2> QED
    BY <2>1, <2>2 DEF Ahead
<1>4. ASSUME HoldsNumber', NEW n \in Numbered(queue')
      PROVE  worker'.item.seq < queue'[n].seq
  <2>1. worker.item.seq \in Ahead /\ worker'.item = worker.item /\ HoldsNumber
    BY <1>4 DEF Ahead
  <2>2. CASE n \in Numbered(queue) /\ queue'[n] = queue[n]
    BY <2>1, <2>2 DEF QueueInOrder
  <2>3. CASE queue'[n].seq > sequence
    <3>1. worker.item.seq \in Nat /\ worker.item.seq <= sequence /\ queue'[n].seq \in Nat
      BY <1>1, <1>2, <2>1 DEF QueueInOrder
    <3> QED
      BY <1>1, <2>1, <2>3, <3>1
  <2> QED
    BY <2>2, <2>3
<1> QED
  BY <1>1, <1>3, <1>4 DEF QueueInOrder, Moves

\* A step that touches neither the queue nor the numbers, and takes nothing in hand.
LEMMA QueueQuiet ==
  ASSUME TypeOK, TypeOK', QueueInOrder, UNCHANGED <<queue, sequence>>,
         HoldsNumber' => HoldsNumber /\ worker'.item = worker.item
  PROVE  QueueInOrder' /\ Moves
<1>1. Sorted(queue') /\ sequence <= sequence'
  BY DEF QueueInOrder, TypeOK, AdmissionTypes
<1>2. \A n \in Numbered(queue') : n \in Numbered(queue) /\ queue'[n] = queue[n]
  OBVIOUS
<1> QED
  BY <1>1, <1>2, QueueAdvances
\* The second locked section of `emit_args` queues the next number.
LEMMA AcceptInOrder ==
  ASSUME IndInv, IndInv', QueueInOrder, NEW p \in Producers, EmitAccept(p)
  PROVE  QueueInOrder' /\ Moves
<1> USE DEF IndInv
<1> DEFINE e == producer[p]
           event == Event(e.instance, e.destination, e.content, sequence + 1, epoch[e.instance])
<1>1. queue' = Append(queue, event) /\ sequence' = sequence + 1 /\ UNCHANGED worker
  BY DEF EmitAccept
<1>2. queue \in Seq(ItemType) /\ sequence \in Nat /\ queue' \in Seq(ItemType)
  BY DEF TypeOK, AdmissionTypes
<1>3. event.seq = sequence + 1
  BY DEF Event
<1>4. event \in ItemType
  <2>1. /\ e.instance \in Instances /\ e.destination \in Destinations /\ e.content \in Contents
    BY DEF EmitAccept, TypeOK, ThreadTypes, ProducerType
  <2>2. event \in EventType
    BY <1>2, <2>1 DEF Event, EventType, TypeOK, InstanceTypes, OutputTypes
  <2> QED
    BY <2>2 DEF ItemType
<1>5. \A n \in Numbered(queue) : queue[n].seq \in Nat /\ queue[n].seq <= sequence
  BY <1>2, NumberedPositions DEF QueueInOrder, Ahead
<1> HIDE DEF event
<1>6. /\ Sorted(queue')
      /\ \A n \in Numbered(queue') : \/ n \in Numbered(queue) /\ queue'[n] = queue[n]
                                     \/ queue'[n] = event
  <2>1. \A n \in Numbered(queue) : queue[n].seq < event.seq
    BY <1>2, <1>3, <1>5
  <2>2. Sorted(queue)
    BY DEF QueueInOrder
  <2> QED
    BY <1>1, <1>2, <1>4, <2>1, <2>2, SortedAppend
<1>7. HoldsNumber' => HoldsNumber /\ worker'.item = worker.item
  BY <1>1 DEF HoldsNumber
<1>8. sequence <= sequence' /\ event.seq > sequence /\ event.seq <= sequence'
  BY <1>1, <1>2, <1>3
<1> QED
  BY <1>6, <1>7, <1>8, QueueAdvances

\* `flush` and `shutdown` queue summaries, then an item without a number; so does
\* the worker when it puts the shutdown item back.
LEMMA ControlInOrder ==
  ASSUME IndInv, IndInv', QueueInOrder, NEW due \in SUBSET Instances, TakeBalances(due),
         NEW order \in Ascending(due), NEW x \in ItemType, ~IsNumbered(x),
         queue' = Append(queue \o SummaryItems(order), x),
         HoldsNumber' => HoldsNumber /\ worker'.item = worker.item
  PROVE  QueueInOrder' /\ Moves
<1> USE DEF IndInv
<1> DEFINE q == queue \o SummaryItems(order)
<1>1. queue \in Seq(ItemType) /\ sequence \in Nat
  BY DEF TypeOK, AdmissionTypes
<1>2. Sorted(queue) /\ \A n \in Numbered(queue) : queue[n].seq <= sequence
  BY DEF QueueInOrder, Ahead
<1>3. /\ q \in Seq(ItemType) /\ Cardinality(due) \in Nat /\ Sorted(q)
      /\ \A n \in Numbered(q) :
            \/ n \in Numbered(queue) /\ q[n] = queue[n]
            \/ q[n].seq > sequence /\ q[n].seq <= sequence + Cardinality(due)
  BY <1>2, SummariesSorted
<1>4. sequence' = sequence + Cardinality(due) /\ sequence <= sequence'
  BY <1>1, <1>3 DEF TakeBalances
<1> HIDE DEF q
<1>5. /\ Sorted(queue')
      /\ \A n \in Numbered(queue') : n \in Numbered(q) /\ queue'[n] = q[n]
  BY <1>3, SortedAppend DEF q
<1>6. \A n \in Numbered(queue') :
         \/ n \in Numbered(queue) /\ queue'[n] = queue[n]
         \/ queue'[n].seq > sequence /\ queue'[n].seq <= sequence'
  BY <1>3, <1>4, <1>5
<1> QED
  BY <1>4, <1>5, <1>6, QueueAdvances

\* The worker takes the lowest number in hand, those of due summaries included.
LEMMA TakeInOrder ==
  ASSUME IndInv, IndInv', QueueInOrder, WorkerTake
  PROVE  QueueInOrder' /\ Moves
<1> USE DEF IndInv
<1>1. PICK due \in SUBSET (IF health = "open" THEN Owing ELSE {}) :
        /\ TakeBalances(due)
        /\ \E order \in Ascending(due) : TakeNext(queue \o SummaryItems(order))
  BY DEF WorkerTake
<1>2. due \in SUBSET Instances
  BY DEF Owing
<1>3. PICK order \in Ascending(due) : TakeNext(queue \o SummaryItems(order))
  BY <1>1
<1> DEFINE q == queue \o SummaryItems(order)
<1>4. queue \in Seq(ItemType) /\ sequence \in Nat
  BY DEF TypeOK, AdmissionTypes
<1>5. Sorted(queue) /\ \A n \in Numbered(queue) : queue[n].seq <= sequence
  BY DEF QueueInOrder, Ahead
<1>6. /\ q \in Seq(ItemType) /\ Cardinality(due) \in Nat /\ Sorted(q)
      /\ \A n \in Numbered(q) :
            \/ n \in Numbered(queue) /\ q[n] = queue[n]
            \/ q[n].seq > sequence /\ q[n].seq <= sequence + Cardinality(due)
  BY <1>2, <1>5, SummariesSorted
<1>7. sequence' = sequence + Cardinality(due) /\ sequence <= sequence' /\ sequence' \in Nat
  BY <1>1, <1>4, <1>6 DEF TakeBalances
<1>8. ~HoldsNumber
  BY DEF WorkerTake, HoldsNumber
<1> HIDE DEF q
<1>9. ASSUME NEW n \in Numbered(q)
      PROVE  (q[n].seq \in Ahead \/ q[n].seq > sequence) /\ q[n].seq <= sequence'
  <2>1. CASE n \in Numbered(queue) /\ q[n] = queue[n]
    <3>1. queue[n].seq \in Nat /\ queue[n].seq <= sequence
      BY <1>4, <1>5, <2>1, NumberedPositions
    <3> QED
      BY <1>4, <1>7, <2>1, <3>1 DEF Ahead
  <2>2. CASE q[n].seq > sequence /\ q[n].seq <= sequence + Cardinality(due)
    BY <1>7, <2>2
  <2> QED
    BY <1>6, <2>1, <2>2
<1>10. CASE q # <<>> /\ worker' = Handling(Head(q)) /\ queue' = Tail(q)
  <2>1. /\ Sorted(queue')
        /\ \A n \in Numbered(queue') : n + 1 \in Numbered(q) /\ queue'[n] = q[n + 1]
        /\ IsNumbered(Head(q)) => /\ 1 \in Numbered(q) /\ Head(q) = q[1]
                                  /\ \A n \in Numbered(queue') : Head(q).seq < queue'[n].seq
    BY <1>6, <1>10, SortedTail
  <2>2. worker'.item = Head(q) /\ (HoldsNumber' => IsNumbered(Head(q)))
    BY <1>10 DEF Handling, HoldsNumber
  <2>3. ASSUME NEW a \in Ahead' PROVE \E n \in Numbered(q) : a = q[n].seq
    BY <2>1, <2>2 DEF Ahead
  <2>4. \A a \in Ahead' : (a \in Ahead \/ a > sequence) /\ a <= sequence'
    BY <1>9, <2>3
  <2>5. HoldsNumber' => \A n \in Numbered(queue') : worker'.item.seq < queue'[n].seq
    BY <2>1, <2>2
  <2> QED
    BY <1>7, <2>1, <2>4, <2>5 DEF QueueInOrder, Moves
<1>11. CASE q = <<>> /\ Goto("waiting") /\ queue' = queue
  <2>1. ~HoldsNumber'
    BY <1>11 DEF Goto, At, HoldsNumber
  <2>2. \A n \in Numbered(queue') : n \in Numbered(queue) /\ queue'[n] = queue[n]
    BY <1>11
  <2> QED
    BY <1>5, <1>7, <1>11, <2>1, <2>2, QueueAdvances
<1> QED
  BY <1>3, <1>10, <1>11 DEF TakeNext, q
\* A step that takes no item leaves the one in hand, or is done with it.
LEMMA HandKept ==
  ASSUME IndInv, IndInv', [Next]_vars, ~WorkerTake, worker'.pc = "item"
  PROVE  worker.pc = "item" /\ worker'.item = worker.item
<1>1. CASE ProducerStep \/ ClientStep \/ WallClock \/ UNCHANGED vars
  BY <1>1 DEF ProducerStep, EmitReserve, EmitRefused, EmitTooLarge, EmitFiltered, EmitAccept,
     EmitAbandon, DropPermit, TracingRefuse, ClientStep, FlushBegin, FlushRefused, FlushWake,
     ShutdownBegin, ShutdownReturn, WallClock, vars
<1>2. CASE \E k \in Keys : WorkerFinish(k)
  <2>1. worker.pc \in {"expire", "item", "draining"}
    BY <1>2 DEF WorkerFinish, MustFinish, HandlingA
  <2>2. worker \in WorkerAt
    BY <2>1 DEF IndInv, TypeOK, WorkerTypes, WorkerType, WorkerAt
  <2> QED
    BY <1>2, <2>2 DEF WorkerFinish, WorkerAt
<1>3. CASE \E k \in Keys : WorkerDropGroup(k)
  BY <1>3 DEF WorkerDropGroup
<1>4. CASE WorkerBury
  BY <1>4 DEF WorkerBury, Goto, At, IndInv, TypeOK, WorkerTypes, WorkerType
<1>5. CASE WorkerBarrier
  BY <1>5 DEF WorkerBarrier, HandlingA, IndInv, TypeOK, WorkerTypes, WorkerType
<1>6. CASE \/ WorkerTop \/ WorkerPeriodic \/ WorkerWake \/ WorkerMerge \/ WorkerOpenGroup
           \/ WorkerSummary \/ WorkerSignal \/ WorkerShutdown \/ WorkerDrained \/ WorkerClosed
           \/ WorkerFail \/ WorkerDropped \/ WorkerError \/ WorkerPanic
  BY <1>6 DEF WorkerTop, WorkerPeriodic, WorkerWake, WorkerMerge, WorkerOpenGroup,
     WorkerSummary, WorkerSignal, WorkerShutdown, WorkerDrained, WorkerClosed, WorkerFail,
     WorkerDropped, WorkerError, WorkerPanic, Goto, At
<1> QED
  BY <1>1, <1>2, <1>3, <1>4, <1>5, <1>6 DEF Next, WorkerStep, WorkerFault

\* ... so it holds a number only if it did before.
LEMMA NumberKept ==
  ASSUME IndInv, IndInv', [Next]_vars, ~WorkerTake
  PROVE  HoldsNumber' => HoldsNumber /\ worker'.item = worker.item
  BY HandKept DEF HoldsNumber

\* The steps of callers: `flush` and `shutdown` are the ones that queue something.
LEMMA ClientsInOrder ==
  ASSUME IndInv, IndInv', QueueInOrder, ClientStep,
         HoldsNumber' => HoldsNumber /\ worker'.item = worker.item
  PROVE  QueueInOrder' /\ Moves
<1> USE DEF IndInv
<1>1. PICK c \in Clients : \/ FlushBegin(c) \/ FlushRefused(c) \/ FlushWake(c)
                           \/ ShutdownBegin(c) \/ ShutdownReturn(c)
  BY DEF ClientStep
<1>2. CASE FlushBegin(c)
  <2>1. PICK order \in Ascending(Owing) :
          queue' = Append(queue \o SummaryItems(order), Barrier(nextBarrier'))
    BY <1>2 DEF FlushBegin
  <2>2. Barrier(nextBarrier') \in ItemType /\ ~IsNumbered(Barrier(nextBarrier'))
    BY <1>2 DEF FlushBegin, Barrier, ItemType, BarrierType, IsNumbered, TypeOK, AdmissionTypes
  <2>3. TakeBalances(Owing)
    BY <1>2 DEF FlushBegin
  <2> QED
    BY <2>1, <2>2, <2>3, OwingInstances, ControlInOrder
<1>3. CASE ShutdownBegin(c) /\ health = "open"
  <2>1. PICK order \in Ascending(Owing) : queue' = Append(queue \o SummaryItems(order), Shutdown)
    BY <1>3 DEF ShutdownBegin
  <2>2. Shutdown \in ItemType /\ ~IsNumbered(Shutdown)
    BY DEF Shutdown, ItemType, IsNumbered
  <2>3. TakeBalances(Owing)
    BY <1>3 DEF ShutdownBegin
  <2> QED
    BY <2>1, <2>2, <2>3, OwingInstances, ControlInOrder
<1>4. CASE \/ FlushRefused(c) \/ FlushWake(c) \/ ShutdownReturn(c)
           \/ ShutdownBegin(c) /\ health # "open"
  <2>1. UNCHANGED <<queue, sequence>>
    BY <1>4 DEF FlushRefused, FlushWake, ShutdownReturn, ShutdownBegin, admission
  <2> QED
    BY <2>1, QueueQuiet
<1> QED
  BY <1>1, <1>2, <1>3, <1>4

\* The shutdown item carries no number; the last summaries are queued before it.
LEMMA ShutdownInOrder ==
  ASSUME IndInv, IndInv', QueueInOrder, WorkerShutdown
  PROVE  QueueInOrder' /\ Moves
<1> USE DEF IndInv
<1>1. PICK order \in Ascending(Owing) :
        \/ queue' = Append(queue \o SummaryItems(order), Shutdown) /\ Goto("top")
        \/ UNCHANGED queue /\ Goto("draining")
  BY DEF WorkerShutdown, FinalBalances
<1>2. TakeBalances(Owing) /\ ~HoldsNumber'
  BY <1>1 DEF WorkerShutdown, FinalBalances, Goto, At, HoldsNumber
<1>3. CASE queue' = Append(queue \o SummaryItems(order), Shutdown)
  <2>1. Shutdown \in ItemType /\ ~IsNumbered(Shutdown)
    BY DEF Shutdown, ItemType, IsNumbered
  <2> QED
    BY <1>2, <1>3, <2>1, OwingInstances, ControlInOrder
<1>4. CASE UNCHANGED queue
  <2>1. sequence <= sequence'
    <3>1. Cardinality(Owing) \in Nat /\ sequence \in Nat
      BY OwingInstances, SummariesQueued DEF TypeOK, AdmissionTypes
    <3> QED
      BY <1>2, <3>1 DEF TakeBalances
  <2>2. Sorted(queue') /\ \A n \in Numbered(queue') : n \in Numbered(queue) /\ queue'[n] = queue[n]
    BY <1>4 DEF QueueInOrder
  <2> QED
    BY <1>2, <2>1, <2>2, QueueAdvances
<1> QED
  BY <1>1, <1>3, <1>4

\* The worker's other steps take nothing in hand, and leave the numbers alone.
LEMMA WorkerInOrder ==
  ASSUME IndInv, IndInv', QueueInOrder, WorkerStep \/ WorkerFault,
         ~WorkerTake, ~WorkerShutdown,
         HoldsNumber' => HoldsNumber /\ worker'.item = worker.item
  PROVE  QueueInOrder' /\ Moves
<1> USE DEF IndInv
<1>1. CASE WorkerFail
  <2>1. queue' = <<>> /\ ~HoldsNumber' /\ sequence' = sequence
    BY <1>1 DEF WorkerFail, HoldsNumber
  <2>2. Numbered(queue') = {} /\ sequence <= sequence'
    BY <2>1 DEF Numbered, TypeOK, AdmissionTypes
  <2> QED
    BY <2>1, <2>2, QueueAdvances DEF Sorted
<1>2. CASE ~WorkerFail
  <2>1. UNCHANGED <<queue, sequence>>
    BY <1>2 DEF WorkerStep, WorkerFault, WorkerTop, WorkerPeriodic, WorkerWake, WorkerMerge,
       WorkerOpenGroup, WorkerSummary, WorkerBarrier, WorkerSignal, WorkerDrained, WorkerClosed,
       WorkerBury, WorkerDropped, WorkerFinish, WorkerDropGroup, WorkerError, WorkerPanic, admission
  <2> QED
    BY <2>1, QueueQuiet
<1> QED
  BY <1>1, <1>2

\* Every step keeps the queue in order, and gives only higher numbers.
LEMMA NextMoves ==
  ASSUME IndInv, IndInv', QueueInOrder, [Next]_vars
  PROVE  QueueInOrder' /\ Moves
<1>1. CASE ProducerStep
  <2>1. CASE \E p \in Producers : EmitAccept(p)
    BY <2>1, AcceptInOrder
  <2>2. CASE ~\E p \in Producers : EmitAccept(p)
    <3>1. UNCHANGED <<queue, sequence, worker>>
      BY <1>1, <2>2 DEF ProducerStep, EmitReserve, EmitRefused, EmitTooLarge, EmitFiltered,
                        EmitAbandon, DropPermit, TracingRefuse, admission
    <3> QED
      BY <3>1, QueueQuiet DEF IndInv, HoldsNumber
  <2> QED
    BY <2>1, <2>2
<1>2. CASE ClientStep
  <2>1. ~WorkerTake
    BY <1>2 DEF ClientStep, FlushBegin, FlushRefused, FlushWake, ShutdownBegin, ShutdownReturn,
                WorkerTake, TakeNext, Handling, Goto, At
  <2> QED
    BY <1>2, <2>1, ClientsInOrder, NumberKept
<1>3. CASE WorkerStep \/ WorkerFault
  BY <1>3, TakeInOrder, ShutdownInOrder, WorkerInOrder, NumberKept
<1>4. CASE WallClock \/ UNCHANGED vars
  <2>1. UNCHANGED <<queue, sequence, worker>>
    BY <1>4 DEF WallClock, vars, admission
  <2> QED
    BY <2>1, QueueQuiet DEF IndInv, HoldsNumber
<1> QED
  BY <1>1, <1>2, <1>3, <1>4 DEF Next
-----------------------------------------------------------------------------
(* Groups and lines *)

\* An open group that a step leaves alone, and a line, stay behind the numbers ahead.
LEMMA GroupsStay ==
  ASSUME TypeOK, TypeOK', Moves, GroupsBehind, NEW k \in DOMAIN groups, groups'[k] = groups[k]
  PROVE  /\ KeyOf(groups'[k].first) = k /\ groups'[k].first.seq <= groups'[k].last
         /\ NextBehind(groups'[k].last)
  BY BehindStays DEF GroupsBehind

LinesStay ==
    \A p \in Paths : \A n \in DOMAIN files[p] :
        files[p][n].first <= files[p][n].last /\ NextBehind(files[p][n].last)

\* The lines already written stay behind the numbers ahead.
LEMMA LinesBehindStay == TypeOK /\ TypeOK' /\ Moves /\ LinesBehind => LinesStay
<1> SUFFICES ASSUME TypeOK, TypeOK', Moves, LinesBehind,
                    NEW p \in Paths, NEW n \in DOMAIN files[p]
             PROVE  files[p][n].first <= files[p][n].last /\ NextBehind(files[p][n].last)
  BY DEF LinesStay
<1>1. files[p][n].first <= files[p][n].last /\ Behind(files[p][n].last)
  BY DEF LinesBehind
<1> QED
  BY <1>1, BehindStays

\* A step that writes nothing and at most closes groups.
LEMMA OutputKept ==
  ASSUME IndInv, IndInv', Moves, OutputInOrder, UNCHANGED files,
         DOMAIN groups' \subseteq DOMAIN groups, \A k \in DOMAIN groups' : groups'[k] = groups[k]
  PROVE  OutputInOrder'
<1> TypeOK /\ TypeOK'
  BY DEF IndInv
<1> USE DEF OutputInOrder
<1>1. GroupsBehind'
  <2>1. ASSUME NEW k \in DOMAIN groups'
        PROVE  /\ KeyOf(groups'[k].first) = k /\ groups'[k].first.seq <= groups'[k].last
               /\ NextBehind(groups'[k].last)
    BY GroupsStay
  <2> QED
    BY <2>1 DEF GroupsBehind, NextBehind, Behind
<1>2. LinesBehind'
  BY LinesBehindStay DEF LinesStay, LinesBehind, NextBehind, Behind
<1>3. GroupsAfterLines'
  BY DEF GroupsAfterLines
<1>4. LinesInOrder'
  BY DEF LinesInOrder
<1> QED
  BY <1>1, <1>2, <1>3, <1>4

\* A line beyond the others of its file, and behind the numbers ahead, is in order.
LEMMA LineWritten ==
  ASSUME IndInv, IndInv', Moves, OutputInOrder, NEW path \in Paths, NEW line \in LineType,
         Write(path, line), line.first <= line.last, NextBehind(line.last),
         \A n \in DOMAIN files[path] : files[path][n].last < line.first
  PROVE  /\ LinesBehind' /\ LinesInOrder'
         /\ \A p \in Paths : \A n \in DOMAIN files'[p] :
               \/ n \in DOMAIN files[p] /\ files'[p][n] = files[p][n]
               \/ p = path /\ files'[p][n] = line
<1> TypeOK /\ TypeOK'
  BY DEF IndInv
<1> USE DEF OutputInOrder
<1>1. files \in [Paths -> Seq(LineType)] /\ files' = [files EXCEPT ![path] = Append(@, line)]
  BY DEF TypeOK, OutputTypes, Write
<1>2. /\ files'[path] = Append(files[path], line)
      /\ \A p \in Paths \ {path} : files'[p] = files[p]
  BY <1>1
<1>3. \A n \in DOMAIN files'[path] : \/ n \in 1..Len(files[path]) /\ files'[path][n] = files[path][n]
                                     \/ n = Len(files[path]) + 1 /\ files'[path][n] = line
  BY <1>1, <1>2
<1>4. \A p \in Paths : \A n \in DOMAIN files'[p] :
         \/ n \in DOMAIN files[p] /\ files'[p][n] = files[p][n]
         \/ p = path /\ files'[p][n] = line
  BY <1>1, <1>2, <1>3
<1>5. LinesBehind'
  <2>1. ASSUME NEW p \in Paths, NEW n \in DOMAIN files'[p]
        PROVE  files'[p][n].first <= files'[p][n].last /\ NextBehind(files'[p][n].last)
    BY <1>4, LinesBehindStay DEF LinesStay
  <2> QED
    BY <2>1 DEF LinesBehind, NextBehind, Behind
<1>6. LinesInOrder'
  <2>1. ASSUME NEW p \in Paths PROVE InOrder(files'[p])
    <3>1. CASE p # path
      BY <1>2, <3>1 DEF LinesInOrder
    <3>2. CASE p = path
      <4> DEFINE old == files[path]
      <4>1. old \in Seq(LineType) /\ files'[p] = Append(old, line) /\ Len(old) \in Nat
        BY <1>1, <1>2, <3>2
      <4>2. InOrder(old) /\ \A n \in DOMAIN old : old[n].last < line.first
        BY DEF LinesInOrder
      <4> HIDE DEF old
      <4>3. /\ Len(Append(old, line)) = Len(old) + 1 /\ DOMAIN old = 1..Len(old)
            /\ \A n \in 1..Len(old) : Append(old, line)[n] = old[n]
            /\ Append(old, line)[Len(old) + 1] = line
        BY <4>1
      <4>4. \A n \in DOMAIN Append(old, line) : Append(old, line)[n].first <= Append(old, line)[n].last
        BY <4>1, <4>2, <4>3 DEF InOrder
      <4>5. ASSUME NEW n \in 1..Len(Append(old, line)) - 1
            PROVE  Append(old, line)[n].last < Append(old, line)[n + 1].first
        <5>1. n \in 1..Len(old)
          BY <4>1, <4>3
        <5>2. CASE n = Len(old)
          BY <4>1, <4>2, <4>3, <5>1, <5>2
        <5>3. CASE n # Len(old)
          <6>1. n \in 1..Len(old) - 1 /\ n + 1 \in 1..Len(old)
            BY <4>1, <5>1, <5>3
          <6>2. old[n].last < old[n + 1].first
            BY <4>2, <6>1 DEF InOrder
          <6> QED
            BY <4>3, <5>1, <6>1, <6>2
        <5> QED
          BY <5>2, <5>3
      <4> QED
        BY <4>1, <4>4, <4>5 DEF InOrder
    <3> QED
      BY <3>1, <3>2
  <2> QED
    BY <2>1 DEF LinesInOrder
<1> QED
  BY <1>4, <1>5, <1>6

\* The worker is done with the number it had in hand.
LEMMA HandedBehind ==
  ASSUME IndInv, QueueInOrder, HoldsNumber, ~HoldsNumber', UNCHANGED <<queue, sequence>>
  PROVE  worker.item.seq \in Ahead /\ NextBehind(worker.item.seq)
<1>1. worker.item.seq \in Ahead
  BY DEF Ahead
<1>2. worker.item.seq \in Nat /\ worker.item.seq <= sequence
  BY <1>1, AheadNatural DEF IndInv, QueueInOrder
<1>3. Ahead' = {queue[n].seq : n \in Numbered(queue)}
  BY DEF Ahead
<1> QED
  BY <1>1, <1>2, <1>3 DEF QueueInOrder, NextBehind

\* Two open groups never share a file.
LEMMA OwnFiles ==
  ASSUME GroupsBehind, NEW j \in DOMAIN groups, NEW k \in DOMAIN groups, j # k
  PROVE  PathOf(groups[j].first) # PathOf(groups[k].first)
  BY DEF GroupsBehind, KeyOf, PathOf

\* The line of an open group: it comes after all the lines of its file.
LEMMA GroupWritten ==
  ASSUME IndInv, IndInv', Moves, OutputInOrder, NEW k \in DOMAIN groups, WriteGroup(groups[k])
  PROVE  /\ LinesBehind' /\ LinesInOrder'
         /\ \A j \in DOMAIN groups \ {k} : files'[PathOf(groups[j].first)] = files[PathOf(groups[j].first)]
<1> DEFINE g == groups[k]
           path == PathOf(g.first)
           line == GroupLine(g)
<1> TypeOK /\ TypeOK'
  BY DEF IndInv
<1> USE DEF OutputInOrder
<1>1. g \in [first : EventType, last : Nat, count : Nat \ {0}]
  BY DEF TypeOK, WorkerTypes
<1>2. path \in Paths /\ line \in LineType
  BY <1>1 DEF PathOf, Paths, GroupLine, LineType, EventType
<1>3. Write(path, line) /\ line.first = g.first.seq /\ line.last = g.last
  BY DEF WriteGroup, GroupLine
<1>4. line.first <= line.last /\ NextBehind(line.last)
  BY <1>3, BehindStays DEF GroupsBehind
<1>5. \A n \in DOMAIN files[path] : files[path][n].last < line.first
  BY <1>3 DEF GroupsAfterLines
<1>6. LinesBehind' /\ LinesInOrder'
  BY <1>2, <1>3, <1>4, <1>5, LineWritten
<1>7. \A j \in DOMAIN groups \ {k} : PathOf(groups[j].first) # path
  BY OwnFiles
<1>8. files \in [Paths -> Seq(LineType)]
  BY DEF TypeOK, OutputTypes
<1>9. \A j \in DOMAIN groups : PathOf(groups[j].first) \in Paths
  BY DEF PathOf, Paths, EventType, TypeOK, WorkerTypes
<1> HIDE DEF path, line
<1>10. \A j \in DOMAIN groups \ {k} : files'[PathOf(groups[j].first)] = files[PathOf(groups[j].first)]
  BY <1>3, <1>7, <1>8, <1>9 DEF Write
<1> QED
  BY <1>6, <1>10
\* `finish` writes the group's line and closes it.
LEMMA FinishInOrder ==
  ASSUME IndInv, IndInv', Moves, OutputInOrder, NEW k \in Keys, WorkerFinish(k)
  PROVE  OutputInOrder'
<1>1. k \in DOMAIN groups /\ WriteGroup(groups[k])
  BY MustFinishOpen DEF WorkerFinish
<1>2. /\ LinesBehind' /\ LinesInOrder'
      /\ \A j \in DOMAIN groups \ {k} : files'[PathOf(groups[j].first)] = files[PathOf(groups[j].first)]
  BY <1>1, GroupWritten
<1>3. DOMAIN groups' = DOMAIN groups \ {k} /\ \A j \in DOMAIN groups' : groups'[j] = groups[j]
  BY DEF WorkerFinish, Without
<1>4. GroupsBehind'
  <2>1. ASSUME NEW j \in DOMAIN groups'
        PROVE  /\ KeyOf(groups'[j].first) = j /\ groups'[j].first.seq <= groups'[j].last
               /\ NextBehind(groups'[j].last)
    BY <1>3, GroupsStay DEF IndInv, OutputInOrder
  <2> QED
    BY <2>1 DEF GroupsBehind, NextBehind, Behind
<1>5. GroupsAfterLines'
  BY <1>2, <1>3 DEF GroupsAfterLines, OutputInOrder
<1> QED
  BY <1>2, <1>4, <1>5 DEF OutputInOrder

\* A group that is opened holds the number in hand, beyond all the lines.
LEMMA OpenInOrder ==
  ASSUME IndInv, IndInv', Order, Moves, WorkerOpenGroup
  PROVE  OutputInOrder'
<1> DEFINE event == worker.item
           key == KeyOf(event)
           g == [first |-> event, last |-> event.seq, count |-> 1]
<1> TypeOK /\ TypeOK'
  BY DEF IndInv
<1>1. HandlingA("event") /\ groups' = With(key, g) /\ ~HoldsNumber' /\ UNCHANGED <<queue, sequence>>
  BY DEF WorkerOpenGroup, Goto, At, HoldsNumber
<1>2. HoldsNumber /\ event \in EventType
  BY <1>1, InHandTypes DEF HandlingA, HoldsNumber, IsNumbered
<1>3. event.seq \in Ahead /\ NextBehind(event.seq) /\ event.seq \in Nat
  BY <1>1, <1>2, HandedBehind DEF Order, EventType
<1>4. /\ DOMAIN groups' = DOMAIN groups \cup {key}
      /\ \A j \in DOMAIN groups' : groups'[j] = IF j = key THEN g ELSE groups[j]
  BY <1>1 DEF With
<1>5. GroupsBehind'
  <2>1. ASSUME NEW j \in DOMAIN groups'
        PROVE  /\ KeyOf(groups'[j].first) = j /\ groups'[j].first.seq <= groups'[j].last
               /\ NextBehind(groups'[j].last)
    <3>1. CASE j = key
      BY <1>3, <1>4, <3>1
    <3>2. CASE j # key
      BY <1>4, <3>2, GroupsStay DEF Order, OutputInOrder
    <3> QED
      BY <3>1, <3>2
  <2> QED
    BY <2>1 DEF GroupsBehind, NextBehind, Behind
<1>6. PathOf(event) \in Paths
  BY <1>2 DEF PathOf, Paths, EventType
<1>7. \A n \in DOMAIN files[PathOf(event)] : files[PathOf(event)][n].last < event.seq
  BY <1>3, <1>6 DEF Order, OutputInOrder, LinesBehind, Behind
<1>8. CASE key \notin DOMAIN groups
  <2>1. UNCHANGED files
    BY <1>8 DEF WorkerOpenGroup, output
  <2>2. LinesBehind' /\ LinesInOrder'
    <3>1. LinesStay
      BY LinesBehindStay DEF Order, OutputInOrder
    <3> QED
      BY <2>1, <3>1 DEF Order, OutputInOrder, LinesStay, LinesBehind, NextBehind, Behind, LinesInOrder
  <2>3. GroupsAfterLines'
    BY <1>4, <1>7, <2>1 DEF GroupsAfterLines, Order, OutputInOrder
  <2> QED
    BY <1>5, <2>2, <2>3 DEF OutputInOrder
<1>9. CASE key \in DOMAIN groups
  <2>1. WriteGroup(groups[key])
    BY <1>9 DEF WorkerOpenGroup
  <2>2. /\ LinesBehind' /\ LinesInOrder'
        /\ \A j \in DOMAIN groups \ {key} :
              files'[PathOf(groups[j].first)] = files[PathOf(groups[j].first)]
    BY <1>9, <2>1, GroupWritten DEF Order
  <2>3. \A n \in DOMAIN files'[PathOf(event)] : files'[PathOf(event)][n].last < event.seq
    <3> DEFINE path == PathOf(groups[key].first)
               line == GroupLine(groups[key])
    <3>1. files' = [files EXCEPT ![path] = Append(@, line)] /\ files \in [Paths -> Seq(LineType)]
      BY <2>1 DEF WriteGroup, Write, TypeOK, OutputTypes
    <3>2. line.last < event.seq
      <4>1. line.last = groups[key].last
        BY DEF GroupLine
      <4> QED
        BY <1>3, <1>9, <4>1 DEF Order, OutputInOrder, GroupsBehind, Behind
    <3> HIDE DEF line, path
    <3>3. CASE path = PathOf(event)
      BY <1>6, <1>7, <3>1, <3>2, <3>3
    <3>4. CASE path # PathOf(event)
      BY <1>6, <1>7, <3>1, <3>4
    <3> QED
      BY <3>3, <3>4
  <2>4. GroupsAfterLines'
    <3>1. ASSUME NEW j \in DOMAIN groups', NEW n \in DOMAIN files'[PathOf(groups'[j].first)]
          PROVE  files'[PathOf(groups'[j].first)][n].last < groups'[j].first.seq
      <4>1. CASE j = key
        BY <1>4, <2>3, <3>1, <4>1
      <4>2. CASE j # key
        BY <1>4, <2>2, <3>1, <4>2 DEF GroupsAfterLines, Order, OutputInOrder
      <4> QED
        BY <4>1, <4>2
    <3> QED
      BY <3>1 DEF GroupsAfterLines
  <2> QED
    BY <1>5, <2>2, <2>4 DEF OutputInOrder
<1> QED
  BY <1>8, <1>9

\* A merge moves the end of a group to the number in hand.
LEMMA MergeInOrder ==
  ASSUME IndInv, IndInv', Order, Moves, WorkerMerge
  PROVE  OutputInOrder'
<1> DEFINE event == worker.item
           key == KeyOf(event)
<1> TypeOK /\ TypeOK'
  BY DEF IndInv
<1>1. /\ HandlingA("event") /\ key \in DOMAIN groups
      /\ groups' = [groups EXCEPT ![key].last = event.seq, ![key].count = @ + 1]
      /\ ~HoldsNumber' /\ UNCHANGED <<queue, sequence, files>>
  BY DEF WorkerMerge, CanMerge, Goto, At, HoldsNumber, output
<1>2. HoldsNumber /\ event \in EventType
  BY <1>1, InHandTypes DEF HandlingA, HoldsNumber, IsNumbered
<1>3. event.seq \in Ahead /\ NextBehind(event.seq) /\ event.seq \in Nat
  BY <1>1, <1>2, HandedBehind DEF Order, EventType
<1>4. /\ DOMAIN groups' = DOMAIN groups
      /\ \A j \in DOMAIN groups \ {key} : groups'[j] = groups[j]
  BY <1>1
<1>5. groups[key] \in [first : EventType, last : Nat, count : Nat \ {0}]
  BY <1>1 DEF TypeOK, WorkerTypes
<1>6. groups'[key].first = groups[key].first /\ groups'[key].last = event.seq
  BY <1>1, <1>5
<1>7. GroupsBehind'
  <2>1. ASSUME NEW j \in DOMAIN groups'
        PROVE  /\ KeyOf(groups'[j].first) = j /\ groups'[j].first.seq <= groups'[j].last
               /\ NextBehind(groups'[j].last)
    <3>1. CASE j = key
      <4>1. /\ KeyOf(groups[key].first) = key /\ groups[key].last < event.seq
            /\ groups[key].first.seq <= groups[key].last
        BY <1>1, <1>3 DEF Order, OutputInOrder, GroupsBehind, Behind
      <4>2. groups[key].first.seq \in Nat /\ groups[key].last \in Nat
        BY <1>5 DEF EventType
      <4> QED
        BY <1>3, <1>6, <3>1, <4>1, <4>2
    <3>2. CASE j # key
      BY <1>4, <3>2, GroupsStay DEF Order, OutputInOrder
    <3> QED
      BY <3>1, <3>2
  <2> QED
    BY <2>1 DEF GroupsBehind, NextBehind, Behind
<1>8. LinesBehind' /\ LinesInOrder'
  <2>1. LinesStay
    BY LinesBehindStay DEF Order, OutputInOrder
  <2> QED
    BY <1>1, <2>1 DEF Order, OutputInOrder, LinesStay, LinesBehind, NextBehind, Behind, LinesInOrder
<1>9. GroupsAfterLines'
  <2>1. \A j \in DOMAIN groups' : groups'[j].first = groups[j].first
    BY <1>4, <1>6
  <2> QED
    BY <1>1, <1>4, <2>1 DEF Order, OutputInOrder, GroupsAfterLines
<1> QED
  BY <1>7, <1>8, <1>9 DEF OutputInOrder

\* A summary is written when its instance has no open group.
LEMMA SummaryInOrder ==
  ASSUME IndInv, IndInv', Order, Moves, WorkerSummary
  PROVE  OutputInOrder'
<1> DEFINE s == worker.item
           path == <<s.instance, MainDestination, s.hour>>
           line == SummaryLine(s)
<1> TypeOK /\ TypeOK'
  BY DEF IndInv
<1>1. /\ HandlingA("summary") /\ MustFinish = {} /\ Write(path, line)
      /\ ~HoldsNumber' /\ UNCHANGED <<queue, sequence, groups>>
  BY DEF WorkerSummary, Goto, At, HoldsNumber, admission
<1>2. HoldsNumber /\ s \in SummaryType
  BY <1>1, InHandTypes DEF HandlingA, HoldsNumber, IsNumbered
<1>3. s.seq \in Ahead /\ NextBehind(s.seq) /\ s.seq \in Nat
  BY <1>1, <1>2, HandedBehind DEF Order, SummaryType
<1>4. path \in Paths /\ line \in LineType /\ line.first = s.seq /\ line.last = s.seq
  BY <1>2, RoutingAssumption DEF Paths, SummaryLine, LineType, SummaryType
<1>5. \A n \in DOMAIN files[path] : files[path][n].last < line.first
  BY <1>3, <1>4 DEF Order, OutputInOrder, LinesBehind, Behind
<1>6. /\ LinesBehind' /\ LinesInOrder'
  BY <1>1, <1>3, <1>4, <1>5, LineWritten DEF Order
<1>7. \A k \in DOMAIN groups : k[1] # s.instance
  BY <1>1 DEF MustFinish, HandlingA
<1>8. \A k \in DOMAIN groups : PathOf(groups[k].first) # path
  BY <1>7 DEF Order, OutputInOrder, GroupsBehind, KeyOf, PathOf
<1>9. files \in [Paths -> Seq(LineType)] /\ \A k \in DOMAIN groups : PathOf(groups[k].first) \in Paths
  BY DEF TypeOK, OutputTypes, WorkerTypes, PathOf, Paths, EventType
<1> HIDE DEF path, line, s
<1>10. \A k \in DOMAIN groups : files'[PathOf(groups[k].first)] = files[PathOf(groups[k].first)]
  BY <1>1, <1>8, <1>9 DEF Write
<1>11. GroupsAfterLines'
  BY <1>1, <1>10 DEF Order, OutputInOrder, GroupsAfterLines
<1>12. GroupsBehind'
  <2>1. ASSUME NEW j \in DOMAIN groups'
        PROVE  /\ KeyOf(groups'[j].first) = j /\ groups'[j].first.seq <= groups'[j].last
               /\ NextBehind(groups'[j].last)
    BY <1>1, GroupsStay DEF Order, OutputInOrder
  <2> QED
    BY <2>1 DEF GroupsBehind, NextBehind, Behind
<1> QED
  BY <1>6, <1>11, <1>12 DEF OutputInOrder
\* No other step writes a line, opens a group or moves its end.
LEMMA OthersKeepOutput ==
  ASSUME [Next]_vars, ~WorkerMerge, ~WorkerOpenGroup, ~WorkerSummary,
         ~\E k \in Keys : WorkerFinish(k)
  PROVE  /\ UNCHANGED files /\ DOMAIN groups' \subseteq DOMAIN groups
         /\ \A k \in DOMAIN groups' : groups'[k] = groups[k]
<1>1. CASE ProducerStep \/ ClientStep \/ WallClock \/ UNCHANGED vars
  <2>1. UNCHANGED <<files, groups>>
    BY <1>1 DEF ProducerStep, EmitReserve, EmitRefused, EmitTooLarge, EmitFiltered, EmitAccept,
       EmitAbandon, DropPermit, TracingRefuse, ClientStep, FlushBegin, FlushRefused, FlushWake,
       ShutdownBegin, ShutdownReturn, WallClock, vars, output
  <2> QED
    BY <2>1
<1>2. CASE WorkerStep
  <2>1. CASE \E k \in Keys : WorkerDropGroup(k)
    BY <2>1 DEF WorkerDropGroup, DiscardedByDrop, Without, output
  <2>2. CASE ~\E k \in Keys : WorkerDropGroup(k)
    <3>1. UNCHANGED <<files, groups>>
      BY <1>2, <2>2 DEF WorkerStep, WorkerTop, WorkerPeriodic, FlushOutput, WorkerTake, WorkerWake,
         WorkerBarrier, WorkerSignal, WorkerShutdown, WorkerDrained, WorkerClosed, WorkerFail,
         WorkerBury, WorkerDropped, output
    <3> QED
      BY <3>1
  <2> QED
    BY <2>1, <2>2
<1>3. CASE WorkerFault
  BY <1>3 DEF WorkerFault, WorkerError, WorkerPanic, Without, output
<1> QED
  BY <1>1, <1>2, <1>3 DEF Next

\* At the start nothing is numbered.
LEMMA InitOrder == Init => Order
<1> SUFFICES ASSUME Init PROVE Order
  OBVIOUS
<1>1. Ahead = {} /\ Numbered(queue) = {} /\ ~HoldsNumber
  BY DEF Init, Ahead, Numbered, HoldsNumber, At
<1>2. QueueInOrder
  BY <1>1 DEF QueueInOrder, Sorted
<1>3. DOMAIN groups = {} /\ \A p \in Paths : files[p] = <<>>
  BY DEF Init
<1>4. LinesInOrder
  BY <1>3 DEF LinesInOrder, InOrder
<1> QED
  BY <1>2, <1>3, <1>4 DEF Order, OutputInOrder, GroupsBehind, LinesBehind, GroupsAfterLines

\* Every step keeps the order.
LEMMA NextOrder == IndInv /\ IndInv' /\ Order /\ [Next]_vars => Order'
<1> SUFFICES ASSUME IndInv, IndInv', Order, [Next]_vars PROVE Order'
  OBVIOUS
<1>1. QueueInOrder' /\ Moves
  BY NextMoves DEF Order
<1>2. OutputInOrder'
  <2>1. CASE WorkerMerge
    BY <1>1, <2>1, MergeInOrder
  <2>2. CASE WorkerOpenGroup
    BY <1>1, <2>2, OpenInOrder
  <2>3. CASE WorkerSummary
    BY <1>1, <2>3, SummaryInOrder
  <2>4. CASE \E k \in Keys : WorkerFinish(k)
    BY <1>1, <2>4, FinishInOrder DEF Order
  <2>5. CASE ~(WorkerMerge \/ WorkerOpenGroup \/ WorkerSummary \/ \E k \in Keys : WorkerFinish(k))
    BY <1>1, <2>5, OthersKeepOutput, OutputKept DEF Order
  <2> QED
    BY <2>1, <2>2, <2>3, <2>4, <2>5
<1> QED
  BY <1>1, <1>2 DEF Order

\* The order holds in every reachable state.
LEMMA AlwaysOrder == Spec => []Order
  BY Inductive, InitOrder, NextOrder, PTL DEF Spec

\* In every file the ranges of sequence numbers of the lines increase and never
\* overlap, and an open group comes after the lines of its file (emit_args numbers
\* under the lock, Worker::finish writes), for any number of threads, instances,
\* destinations and hours, whatever the wall clock does.
THEOREM OrderedFiles == Spec => []FilesInOrder
<1>1. IndInv /\ Order => FilesInOrder
  <2> SUFFICES ASSUME IndInv, Order, NEW k \in DOMAIN groups,
                      files[PathOf(groups[k].first)] # <<>>
               PROVE  LET lines == files[PathOf(groups[k].first)] IN
                      lines[Len(lines)].last < groups[k].first.seq
    BY DEF FilesInOrder, Order, OutputInOrder, LinesInOrder
  <2> DEFINE path == PathOf(groups[k].first)
             lines == files[path]
  <2>1. path \in Paths /\ lines \in Seq(LineType)
    BY DEF IndInv, TypeOK, OutputTypes, WorkerTypes, PathOf, Paths, EventType
  <2> HIDE DEF path
  <2>2. Len(lines) \in DOMAIN lines
    BY <2>1 DEF path
  <2> QED
    BY <2>2 DEF Order, OutputInOrder, GroupsAfterLines, path
<1> QED
  BY Inductive, AlwaysOrder, <1>1, PTL
-----------------------------------------------------------------------------
(* Continuity *)

\* Live events are events, and were numbered.
LEMMA LiveTypes ==
  ASSUME IndInv, Order, NEW e \in LiveEvents
  PROVE  e \in EventType /\ e.seq \in Nat /\ e.seq <= sequence
<1> TypeOK
  BY DEF IndInv
<1>1. CASE e \in {queue[n] : n \in Events(queue)}
  <2>1. PICK n \in Events(queue) : e = queue[n]
    BY <1>1
  <2>2. n \in Numbered(queue) /\ e \in ItemType /\ e.kind = "event"
    BY <2>1 DEF Events, Numbered, TypeOK, AdmissionTypes
  <2>3. e.seq \in Ahead /\ e \in EventType
    BY <2>1, <2>2 DEF Ahead, ItemType, SummaryType, BarrierType, Shutdown
  <2> QED
    BY <2>3 DEF Order, QueueInOrder, EventType
<1>2. CASE HandlingA("event") /\ e = worker.item
  <2>1. e \in EventType /\ HoldsNumber
    BY <1>2, InHandTypes DEF HandlingA, HoldsNumber, IsNumbered
  <2>2. e.seq \in Ahead
    BY <1>2, <2>1 DEF Ahead
  <2> QED
    BY <2>1, <2>2 DEF Order, QueueInOrder, EventType
<1>3. ASSUME NEW k \in DOMAIN groups, e = groups[k].first
      PROVE  e \in EventType /\ e.seq \in Nat /\ e.seq <= sequence
  <2>1. groups[k] \in [first : EventType, last : Nat, count : Nat \ {0}] /\ sequence \in Nat
    BY DEF TypeOK, WorkerTypes, AdmissionTypes
  <2>2. e.seq <= groups[k].last /\ groups[k].last <= sequence
    BY <1>3 DEF Order, OutputInOrder, GroupsBehind, Behind
  <2> QED
    BY <1>3, <2>1, <2>2 DEF EventType
<1> QED
  BY <1>1, <1>2, <1>3 DEF LiveEvents

\* The summaries of a locked section add no event to the queue.
LEMMA NoEventAdded ==
  ASSUME TypeOK, NEW due \in SUBSET Instances, NEW order \in Ascending(due)
  PROVE  LET q == queue \o SummaryItems(order) IN
         /\ q \in Seq(ItemType)
         /\ \A n \in Events(q) : n \in Events(queue) /\ q[n] = queue[n]
<1> DEFINE q == queue \o SummaryItems(order)
<1>1. q \in Seq(ItemType) /\ Events(q) = Events(queue) /\ queue \in Seq(ItemType)
  BY SummariesQueued DEF TypeOK, AdmissionTypes
<1>2. SummaryItems(order) \in Seq(SummaryType)
  <2>1. Cardinality(due) \in Nat
    BY SummariesQueued
  <2>2. order \in Seq(Instances)
    BY <2>1 DEF Ascending
  <2>3. ASSUME NEW k \in 1..Len(order)
        PROVE  [kind |-> "summary", instance |-> order[k], hour |-> hour,
                seq |-> sequence + k, count |-> overloadPending[order[k]]] \in SummaryType
    BY <2>2 DEF TypeOK, AdmissionTypes, InstanceTypes, OutputTypes, SummaryType
  <2> QED
    BY <2>2, <2>3 DEF SummaryItems
<1>3. \A n \in Events(queue) : q[n] = queue[n]
  BY <1>1, <1>2 DEF Events
<1> QED
  BY <1>1, <1>3

\* An item that is not an event, appended, adds none.
LEMMA OtherAppended ==
  ASSUME NEW q \in Seq(ItemType), NEW x \in ItemType, x.kind # "event"
  PROVE  \A n \in Events(Append(q, x)) : n \in Events(q) /\ Append(q, x)[n] = q[n]
  BY DEF Events

\* But for an acceptance, and for taking the head, the queue gets no event.
LEMMA NoEventQueued ==
  ASSUME IndInv, [Next]_vars, ~WorkerTake, ~\E p \in Producers : EmitAccept(p)
  PROVE  \A n \in Events(queue') : n \in Events(queue) /\ queue'[n] = queue[n]
<1> DEFINE NoneAdded == \A n \in Events(queue') : n \in Events(queue) /\ queue'[n] = queue[n]
<1> USE DEF IndInv
<1>1. ASSUME NEW order \in Ascending(Owing), NEW x \in ItemType, x.kind # "event",
             queue' = Append(queue \o SummaryItems(order), x)
      PROVE  NoneAdded
  <2> DEFINE q == queue \o SummaryItems(order)
  <2>1. q \in Seq(ItemType) /\ \A n \in Events(q) : n \in Events(queue) /\ q[n] = queue[n]
    BY NoEventAdded, OwingInstances
  <2> HIDE DEF q
  <2>2. queue' = Append(q, x)
    BY <1>1 DEF q
  <2> QED
    BY <1>1, <2>1, <2>2, OtherAppended
<1>2. Shutdown \in ItemType /\ Shutdown.kind # "event"
  BY DEF Shutdown, ItemType
<1>3. ASSUME NEW c \in Clients, FlushBegin(c) PROVE NoneAdded
  <2>1. PICK order \in Ascending(Owing) :
          queue' = Append(queue \o SummaryItems(order), Barrier(nextBarrier'))
    BY <1>3 DEF FlushBegin
  <2>2. Barrier(nextBarrier') \in ItemType /\ Barrier(nextBarrier').kind # "event"
    BY <1>3 DEF FlushBegin, Barrier, ItemType, BarrierType, TypeOK, AdmissionTypes
  <2> QED
    BY <1>1, <2>1, <2>2
<1>4. ASSUME NEW c \in Clients, ShutdownBegin(c) PROVE NoneAdded
  <2>1. CASE UNCHANGED queue
    BY <2>1
  <2>2. CASE \E order \in Ascending(Owing) : queue' = Append(queue \o SummaryItems(order), Shutdown)
    BY <1>1, <1>2, <2>2
  <2> QED
    BY <1>4, <2>1, <2>2 DEF ShutdownBegin
<1>5. CASE WorkerShutdown
  <2>1. CASE UNCHANGED queue
    BY <2>1
  <2>2. CASE \E order \in Ascending(Owing) : queue' = Append(queue \o SummaryItems(order), Shutdown)
    BY <1>1, <1>2, <2>2
  <2> QED
    BY <1>5, <2>1, <2>2 DEF WorkerShutdown, FinalBalances
<1>6. CASE WorkerFail
  BY <1>6 DEF WorkerFail, Events
<1>7. CASE ProducerStep \/ WorkerFault \/ WallClock \/ UNCHANGED vars
  <2>1. UNCHANGED queue
    BY <1>7 DEF ProducerStep, EmitReserve, EmitRefused, EmitTooLarge, EmitFiltered,
       EmitAbandon, DropPermit, TracingRefuse, WorkerFault, WorkerError, WorkerPanic, WallClock,
       vars, admission
  <2> QED
    BY <2>1
<1>8. CASE ClientStep
  <2>1. CASE \E c \in Clients : FlushRefused(c) \/ FlushWake(c) \/ ShutdownReturn(c)
    BY <2>1 DEF FlushRefused, FlushWake, ShutdownReturn, admission
  <2> QED
    BY <1>3, <1>4, <1>8, <2>1 DEF ClientStep
<1>9. CASE WorkerStep /\ ~WorkerShutdown /\ ~WorkerFail
  <2>1. UNCHANGED queue
    BY <1>9 DEF WorkerStep, WorkerTop, WorkerPeriodic, WorkerWake, WorkerMerge,
       WorkerOpenGroup, WorkerSummary, WorkerBarrier, WorkerSignal, WorkerDrained, WorkerClosed,
       WorkerBury, WorkerDropped, WorkerFinish, WorkerDropGroup, admission
  <2> QED
    BY <2>1
<1> QED
  BY <1>5, <1>6, <1>7, <1>8, <1>9 DEF Next

\* The first events of the groups after a step were live before it.
LEMMA GroupsLive ==
  ASSUME IndInv, [Next]_vars
  PROVE  \A k \in DOMAIN groups' : groups'[k].first \in LiveEvents
<1>1. \A k \in DOMAIN groups : groups[k].first \in LiveEvents
  BY DEF LiveEvents
<1>2. CASE WorkerMerge
  <2>1. \A k \in DOMAIN groups : groups[k] \in [first : EventType, last : Nat, count : Nat \ {0}]
    BY DEF IndInv, TypeOK, WorkerTypes
  <2>2. /\ DOMAIN groups' = DOMAIN groups
        /\ \A k \in DOMAIN groups : groups'[k].first = groups[k].first
    BY <1>2, <2>1 DEF WorkerMerge, CanMerge
  <2> QED
    BY <1>1, <2>2
<1>3. CASE WorkerOpenGroup
  <2>1. worker.item \in LiveEvents
    BY <1>3 DEF WorkerOpenGroup, LiveEvents
  <2>2. \A k \in DOMAIN groups' : \/ k \in DOMAIN groups /\ groups'[k] = groups[k]
                                  \/ groups'[k].first = worker.item
    BY <1>3 DEF WorkerOpenGroup, With
  <2> QED
    BY <1>1, <2>1, <2>2
<1>4. CASE \E k \in Keys : WorkerFinish(k)
  BY <1>1, <1>4 DEF WorkerFinish, Without
<1>5. CASE WorkerSummary
  BY <1>1, <1>5 DEF WorkerSummary
<1>6. CASE ~(WorkerMerge \/ WorkerOpenGroup \/ WorkerSummary \/ \E k \in Keys : WorkerFinish(k))
  BY <1>1, <1>6, OthersKeepOutput
<1> QED
  BY <1>2, <1>3, <1>4, <1>5, <1>6

\* Only an acceptance adds a live event.
LEMMA LiveKept ==
  ASSUME IndInv, IndInv', [Next]_vars, ~\E p \in Producers : EmitAccept(p)
  PROVE  LiveEvents' \subseteq LiveEvents
<1> USE DEF IndInv
<1>1. \A k \in DOMAIN groups' : groups'[k].first \in LiveEvents
  BY GroupsLive
<1>2. CASE ~WorkerTake
  <2>1. \A n \in Events(queue') : queue'[n] \in LiveEvents
    BY <1>2, NoEventQueued DEF LiveEvents
  <2>2. HandlingA("event")' => worker'.item \in LiveEvents
    BY <1>2, HandKept DEF HandlingA, LiveEvents
  <2> QED
    BY <1>1, <2>1, <2>2 DEF LiveEvents
<1>3. CASE WorkerTake
  <2>1. PICK due \in SUBSET (IF health = "open" THEN Owing ELSE {}) :
          \E order \in Ascending(due) : TakeNext(queue \o SummaryItems(order))
    BY <1>3 DEF WorkerTake
  <2>2. due \in SUBSET Instances
    BY DEF Owing
  <2>3. PICK order \in Ascending(due) : TakeNext(queue \o SummaryItems(order))
    BY <2>1
  <2> DEFINE q == queue \o SummaryItems(order)
  <2>4. q \in Seq(ItemType) /\ \A n \in Events(q) : n \in Events(queue) /\ q[n] = queue[n]
    BY <2>2, NoEventAdded
  <2> HIDE DEF q
  <2>5. \A n \in Events(q) : q[n] \in LiveEvents
    BY <2>4 DEF LiveEvents
  <2>6. CASE q # <<>> /\ worker' = Handling(Head(q)) /\ queue' = Tail(q)
    <3>1. \A n \in Events(queue') : n + 1 \in Events(q) /\ queue'[n] = q[n + 1]
      BY <2>4, <2>6 DEF Events
    <3>2. HandlingA("event")' => 1 \in Events(q) /\ worker'.item = q[1]
      BY <2>4, <2>6 DEF Events, HandlingA, Handling
    <3>3. \A n \in Events(queue') : queue'[n] \in LiveEvents
      BY <2>5, <3>1
    <3>4. HandlingA("event")' => worker'.item \in LiveEvents
      BY <2>5, <3>2
    <3> QED
      BY <1>1, <3>3, <3>4 DEF LiveEvents
  <2>7. CASE UNCHANGED queue /\ Goto("waiting")
    <3>1. ~HandlingA("event")'
      BY <2>7 DEF Goto, At, HandlingA
    <3> QED
      BY <1>1, <2>7, <3>1 DEF LiveEvents
  <2> QED
    BY <2>3, <2>6, <2>7 DEF TakeNext, q
<1> QED
  BY <1>2, <1>3
\* A refusal notes the last number given, and nothing live is current any more.
LEMMA RefusalContinuous ==
  ASSUME IndInv, IndInv', Order, Continuity, NEW i \in Instances, NEW reason \in Reasons,
         Refusal(i, reason), UNCHANGED <<queue, sequence, worker, groups, files>>
  PROVE  Continuity'
<1> TypeOK
  BY DEF IndInv
<1>1. /\ epoch \in [Instances -> Nat] /\ breaks \in [Instances -> SUBSET Nat] /\ sequence \in Nat
      /\ epoch' = [epoch EXCEPT ![i] = @ + 1]
      /\ breaks' = [breaks EXCEPT ![i] = @ \cup {sequence}]
  BY DEF TypeOK, InstanceTypes, AdmissionTypes, Refusal
<1>2. LiveEvents' = LiveEvents
  BY DEF LiveEvents, Events, HandlingA
<1>3. \A e \in LiveEvents : e \in EventType /\ e.instance \in Instances /\ e.epoch \in Nat
                            /\ e.seq \in Nat /\ e.seq <= sequence
  BY LiveTypes DEF EventType
<1>4. \A j \in Instances : \A x \in breaks'[j] : x \in breaks[j] \/ x = sequence
  BY <1>1
<1>5. BreaksBehind'
  BY <1>1, <1>4 DEF Continuity, BreaksBehind
<1>6. EpochsCurrent'
  <2>1. ASSUME NEW e \in LiveEvents
        PROVE  /\ e.epoch <= epoch'[e.instance]
               /\ e.epoch = epoch'[e.instance] => \A x \in breaks'[e.instance] : x < e.seq
    <3>1. e.epoch <= epoch[e.instance]
      BY DEF Continuity, EpochsCurrent
    <3>2. CASE e.instance = i
      <4>1. epoch'[i] = epoch[i] + 1 /\ epoch[i] \in Nat /\ e.epoch \in Nat
        BY <1>1, <1>3
      <4> QED
        BY <3>1, <3>2, <4>1
    <3>3. CASE e.instance # i
      <4>1. epoch'[e.instance] = epoch[e.instance] /\ breaks'[e.instance] = breaks[e.instance]
        BY <1>1, <1>3, <3>3
      <4> QED
        BY <3>1, <4>1 DEF Continuity, EpochsCurrent
    <3> QED
      BY <3>2, <3>3
  <2> QED
    BY <1>2, <2>1 DEF EpochsCurrent
<1>7. EventsContinuous'
  <2>1. ASSUME NEW e \in LiveEvents, NEW f \in LiveEvents, e.instance = f.instance,
               e.epoch = f.epoch, NEW x \in breaks'[e.instance], e.seq <= x, x < f.seq
        PROVE  FALSE
    <3>1. CASE x \in breaks[e.instance]
      BY <2>1, <3>1 DEF Continuity, EventsContinuous, NoBreakWithin
    <3>2. CASE x = sequence
      <4>1. f.seq <= sequence /\ f.seq \in Nat
        BY <1>3
      <4> QED
        BY <1>1, <2>1, <3>2, <4>1
    <3> QED
      BY <1>3, <1>4, <3>1, <3>2
  <2> QED
    BY <1>2, <2>1 DEF EventsContinuous, NoBreakWithin
<1>8. \A k \in DOMAIN groups : k[1] \in Instances /\ groups[k].last \in Nat /\ groups[k].last <= sequence
  BY DEF Order, OutputInOrder, GroupsBehind, Behind, TypeOK, WorkerTypes, Keys
<1>9. GroupsContinuous'
  <2>1. ASSUME NEW k \in DOMAIN groups, NEW x \in breaks'[k[1]],
               groups[k].first.seq <= x, x < groups[k].last
        PROVE  FALSE
    <3>1. CASE x \in breaks[k[1]]
      BY <2>1, <3>1 DEF Continuity, GroupsContinuous, NoBreakWithin
    <3>2. CASE x = sequence
      <4>1. groups[k].last <= sequence /\ groups[k].last \in Nat
        BY <1>8
      <4> QED
        BY <1>1, <2>1, <3>2, <4>1
    <3> QED
      BY <1>4, <1>8, <3>1, <3>2
  <2> QED
    BY <2>1 DEF GroupsContinuous, NoBreakWithin
<1>10. NoLineSpansRefusal'
  <2>1. ASSUME NEW p \in Paths, NEW n \in DOMAIN files[p], NEW x \in breaks'[p[1]],
               files[p][n].first <= x, x < files[p][n].last
        PROVE  FALSE
    <3>1. CASE x \in breaks[p[1]]
      BY <2>1, <3>1 DEF Continuity, NoLineSpansRefusal
    <3>2. CASE x = sequence
      <4>1. files[p][n].last <= sequence /\ files[p][n].last \in Nat
        BY DEF Order, OutputInOrder, LinesBehind, Behind
      <4> QED
        BY <1>1, <2>1, <3>2, <4>1
    <3>3. p[1] \in Instances
      BY DEF Paths
    <3> QED
      BY <1>4, <3>1, <3>2, <3>3
  <2> QED
    BY <2>1 DEF NoLineSpansRefusal
<1> QED
  BY <1>5, <1>6, <1>7, <1>9, <1>10 DEF Continuity

\* What is live after a step that refuses nothing was continuous before it.
LEMMA EventsStayContinuous ==
  ASSUME IndInv, IndInv', Order, Moves, Continuity, [Next]_vars, UNCHANGED <<breaks, epoch>>
  PROVE  BreaksBehind' /\ EpochsCurrent' /\ EventsContinuous'
<1> TypeOK
  BY DEF IndInv
<1>1. /\ epoch \in [Instances -> Nat] /\ breaks \in [Instances -> SUBSET Nat] /\ sequence \in Nat
      /\ sequence' \in Nat /\ sequence <= sequence'
  BY DEF TypeOK, InstanceTypes, AdmissionTypes, Moves
<1>2. BreaksBehind'
  BY <1>1 DEF Continuity, BreaksBehind
<1>3. CASE ~\E p \in Producers : EmitAccept(p)
  <2>1. LiveEvents' \subseteq LiveEvents
    BY <1>3, LiveKept
  <2> QED
    BY <1>2, <2>1 DEF Continuity, EpochsCurrent, EventsContinuous, NoBreakWithin
<1>4. ASSUME NEW p \in Producers, EmitAccept(p) PROVE EpochsCurrent' /\ EventsContinuous'
  <2> DEFINE i == producer[p].instance
             new == Event(i, producer[p].destination, producer[p].content, sequence + 1, epoch[i])
  <2>1. /\ i \in Instances /\ queue' = Append(queue, new) /\ UNCHANGED <<worker, groups>>
    BY <1>4 DEF EmitAccept, TypeOK, ThreadTypes, ProducerType
  <2>2. new.instance = i /\ new.epoch = epoch[i] /\ new.seq = sequence + 1
    BY DEF Event
  <2> HIDE DEF new
  <2>3. \A e \in LiveEvents' : e \in LiveEvents \/ e = new
    <3>1. \A n \in Events(queue') : (n \in Events(queue) /\ queue'[n] = queue[n]) \/ queue'[n] = new
      BY <2>1 DEF Events, TypeOK, AdmissionTypes
    <3> QED
      BY <2>1, <3>1 DEF LiveEvents, HandlingA
  <2>4. \A x \in breaks[i] : x \in Nat /\ x < new.seq
    BY <1>1, <2>1, <2>2 DEF Continuity, BreaksBehind
  <2>5. EpochsCurrent'
    <3>1. ASSUME NEW e \in LiveEvents'
          PROVE  /\ e.epoch <= epoch[e.instance]
                 /\ e.epoch = epoch[e.instance] => \A x \in breaks[e.instance] : x < e.seq
      <4>1. CASE e = new
        <5>1. epoch[i] \in Nat /\ epoch[i] <= epoch[i]
          BY <1>1, <2>1
        <5> QED
          BY <2>2, <2>4, <4>1, <5>1
      <4>2. CASE e \in LiveEvents
        BY <4>2 DEF Continuity, EpochsCurrent
      <4> QED
        BY <2>3, <4>1, <4>2
    <3> QED
      BY <3>1 DEF EpochsCurrent
  <2>6. ASSUME NEW e \in LiveEvents', NEW f \in LiveEvents', e.instance = f.instance,
               e.epoch = f.epoch, NEW x \in breaks[e.instance], e.seq <= x, x < f.seq
        PROVE  FALSE
    <3>1. CASE e = new
      <4>1. x \in Nat /\ x < new.seq /\ new.seq <= x /\ new.seq \in Nat
        <5>1. x \in breaks[i] /\ new.seq <= x
          BY <2>2, <2>6, <3>1
        <5>2. new.seq \in Nat
          BY <1>1, <2>2
        <5> QED
          BY <2>4, <5>1, <5>2
      <4> QED
        BY <4>1
    <3>2. CASE e \in LiveEvents /\ f \in LiveEvents
      BY <2>6, <3>2 DEF Continuity, EventsContinuous, NoBreakWithin
    <3>3. CASE e \in LiveEvents /\ f = new
      <4>1. x < e.seq /\ e.seq \in Nat /\ x \in Nat
        BY <2>1, <2>2, <2>4, <2>6, <3>3, LiveTypes DEF Continuity, EpochsCurrent
      <4> QED
        BY <2>6, <4>1
    <3> QED
      BY <2>3, <3>1, <3>2, <3>3
  <2>7. EventsContinuous'
    BY <2>6 DEF EventsContinuous, NoBreakWithin
  <2> QED
    BY <2>5, <2>7
<1> QED
  BY <1>2, <1>3, <1>4
\* Groups and lines begin and end with events of one epoch.
LEMMA LinesStayContinuous ==
  ASSUME IndInv, IndInv', Order, Continuity, [Next]_vars, UNCHANGED breaks
  PROVE  GroupsContinuous' /\ NoLineSpansRefusal'
<1> TypeOK
  BY DEF IndInv
<1> USE DEF Continuity
<1>1. breaks \in [Instances -> SUBSET Nat]
  BY DEF TypeOK, InstanceTypes
<1>2. files \in [Paths -> Seq(LineType)]
  BY DEF TypeOK, OutputTypes
<1>3. \A k \in DOMAIN groups :
         /\ groups[k] \in [first : EventType, last : Nat, count : Nat \ {0}]
         /\ KeyOf(groups[k].first) = k
  BY DEF TypeOK, WorkerTypes, Order, OutputInOrder, GroupsBehind
<1>4. ASSUME NEW k \in DOMAIN groups, WriteGroup(groups[k]) PROVE NoLineSpansRefusal'
  <2> DEFINE path == PathOf(groups[k].first)
             line == GroupLine(groups[k])
  <2>1. files' = [files EXCEPT ![path] = Append(@, line)]
    BY <1>4 DEF WriteGroup, Write
  <2>2. path[1] = k[1] /\ line.first = groups[k].first.seq /\ line.last = groups[k].last
    BY <1>3 DEF PathOf, KeyOf, GroupLine
  <2>3. path \in Paths /\ line \in LineType
    BY <1>3 DEF PathOf, Paths, GroupLine, LineType, EventType
  <2>4. \A x \in breaks[path[1]] : ~(line.first <= x /\ x < line.last)
    BY <2>2 DEF GroupsContinuous, NoBreakWithin
  <2> HIDE DEF path, line
  <2>5. \A p \in Paths : \A n \in DOMAIN files'[p] :
           \/ n \in DOMAIN files[p] /\ files'[p][n] = files[p][n]
           \/ p = path /\ files'[p][n] = line
    BY <1>2, <2>1, <2>3
  <2> QED
    BY <2>4, <2>5 DEF NoLineSpansRefusal
<1>5. CASE \E k \in Keys : WorkerFinish(k)
  <2>1. PICK k \in Keys : WorkerFinish(k)
    BY <1>5
  <2>2. k \in DOMAIN groups /\ WriteGroup(groups[k]) /\ groups' = Without(k)
    BY <2>1, MustFinishOpen DEF WorkerFinish
  <2> QED
    BY <1>4, <2>2 DEF Without, GroupsContinuous, NoBreakWithin
<1>6. CASE WorkerOpenGroup
  <2> DEFINE event == worker.item
             key == KeyOf(event)
             g == [first |-> event, last |-> event.seq, count |-> 1]
  <2>1. HandlingA("event") /\ groups' = With(key, g)
    BY <1>6 DEF WorkerOpenGroup
  <2>2. event \in EventType
    BY <2>1, InHandTypes DEF HandlingA
  <2>3. \A x \in breaks[key[1]] : ~(event.seq <= x /\ x < event.seq)
    BY <1>1, <2>2 DEF EventType, KeyOf
  <2>4. GroupsContinuous'
    <3>1. \A j \in DOMAIN groups' : \/ j \in DOMAIN groups /\ groups'[j] = groups[j]
                                    \/ j = key /\ groups'[j] = g
      BY <2>1 DEF With
    <3>2. g.first.seq = event.seq /\ g.last = event.seq
      OBVIOUS
    <3> HIDE DEF g, key
    <3> QED
      BY <2>3, <3>1, <3>2 DEF GroupsContinuous, NoBreakWithin
  <2>5. NoLineSpansRefusal'
    <3>1. CASE key \in DOMAIN groups
      BY <1>4, <1>6, <3>1 DEF WorkerOpenGroup
    <3>2. CASE key \notin DOMAIN groups
      BY <1>6, <3>2 DEF WorkerOpenGroup, output, NoLineSpansRefusal
    <3> QED
      BY <3>1, <3>2
  <2> QED
    BY <2>4, <2>5
<1>7. CASE WorkerMerge
  <2> DEFINE event == worker.item
             key == KeyOf(event)
  <2>1. /\ HandlingA("event") /\ key \in DOMAIN groups /\ UNCHANGED files
        /\ groups[key].first.epoch = event.epoch
        /\ groups' = [groups EXCEPT ![key].last = event.seq, ![key].count = @ + 1]
    BY <1>7 DEF WorkerMerge, CanMerge, output
  <2>2. event \in LiveEvents /\ groups[key].first \in LiveEvents
    BY <2>1 DEF LiveEvents
  <2>3. groups[key].first.instance = key[1] /\ event.instance = key[1]
    BY <1>3, <2>1 DEF KeyOf
  <2>4. NoBreakWithin(key[1], groups[key].first.seq, event.seq)
    BY <2>1, <2>2, <2>3 DEF EventsContinuous
  <2>5. /\ groups'[key].first = groups[key].first /\ groups'[key].last = event.seq
        /\ DOMAIN groups' = DOMAIN groups /\ \A j \in DOMAIN groups \ {key} : groups'[j] = groups[j]
    BY <1>3, <2>1
  <2> HIDE DEF key
  <2>6. GroupsContinuous'
    BY <2>4, <2>5 DEF GroupsContinuous, NoBreakWithin
  <2> QED
    BY <2>1, <2>6 DEF NoLineSpansRefusal
<1>8. CASE WorkerSummary
  <2> DEFINE path == <<worker.item.instance, MainDestination, worker.item.hour>>
             line == SummaryLine(worker.item)
  <2>1. HandlingA("summary") /\ UNCHANGED groups /\ files' = [files EXCEPT ![path] = Append(@, line)]
    BY <1>8 DEF WorkerSummary, Write
  <2>2. worker.item \in SummaryType
    BY <2>1, InHandTypes DEF HandlingA
  <2>3. path \in Paths /\ line.first = line.last /\ line.first \in Nat
    BY <2>2, RoutingAssumption DEF Paths, SummaryLine, SummaryType
  <2> HIDE DEF path, line
  <2>4. \A p \in Paths : \A n \in DOMAIN files'[p] :
           \/ n \in DOMAIN files[p] /\ files'[p][n] = files[p][n]
           \/ p = path /\ files'[p][n] = line
    BY <1>2, <2>1, <2>3
  <2>5. \A p \in Paths : \A x \in breaks[p[1]] : ~(line.first <= x /\ x < line.last)
    BY <1>1, <2>3 DEF Paths
  <2> QED
    BY <2>1, <2>4, <2>5 DEF NoLineSpansRefusal, GroupsContinuous, NoBreakWithin
<1>9. CASE ~(WorkerMerge \/ WorkerOpenGroup \/ WorkerSummary \/ \E k \in Keys : WorkerFinish(k))
  BY <1>9, OthersKeepOutput DEF GroupsContinuous, NoLineSpansRefusal, NoBreakWithin
<1> QED
  BY <1>5, <1>6, <1>7, <1>8, <1>9

\* Only a refusal notes a break, or ends an epoch.
LEMMA RefusalsOnly ==
  ASSUME IndInv, [Next]_vars
  PROVE  \/ UNCHANGED <<breaks, epoch>>
         \/ /\ \E i \in Instances, reason \in Reasons : Refusal(i, reason)
            /\ UNCHANGED <<queue, sequence, worker, groups, files>>
<1>1. CASE ProducerStep
  <2>1. ASSUME NEW p \in Producers, NEW i \in Instances, EmitRefused(p, i) \/ EmitTooLarge(p, i)
        PROVE  /\ \E reason \in Reasons : Refusal(i, reason)
               /\ UNCHANGED <<queue, sequence, worker, groups, files>>
    BY <2>1 DEF EmitRefused, EmitTooLarge, AdmissionRefusal, Reasons, admission, output
  <2>2. ASSUME NEW i \in Instances, TracingRefuse(i)
        PROVE  /\ \E reason \in Reasons : Refusal(i, reason)
               /\ UNCHANGED <<queue, sequence, worker, groups, files>>
    BY <2>2 DEF TracingRefuse, Reasons, admission, output
  <2>3. ASSUME NEW p \in Producers, EmitAbandon(p)
        PROVE  /\ \E i \in Instances, reason \in Reasons : Refusal(i, reason)
               /\ UNCHANGED <<queue, sequence, worker, groups, files>>
    <3>1. producer[p].instance \in Instances
      BY <2>3 DEF EmitAbandon, IndInv, TypeOK, ThreadTypes, ProducerType
    <3> QED
      BY <2>3, <3>1 DEF EmitAbandon, AdmissionRefusal, Reasons, admission, output
  <2>4. CASE \E p \in Producers : \/ EmitAccept(p) \/ DropPermit(p)
                                  \/ \E i \in Instances : EmitFiltered(p, i)
                                  \/ \E i \in Instances, d \in Destinations, c \in Contents :
                                      EmitReserve(p, i, d, c)
    BY <2>4 DEF EmitAccept, DropPermit, EmitFiltered, EmitReserve, perInstance
  <2> QED
    BY <1>1, <2>1, <2>2, <2>3, <2>4 DEF ProducerStep
<1>2. CASE ClientStep
  BY <1>2 DEF ClientStep, FlushBegin, FlushRefused, FlushWake, ShutdownBegin, ShutdownReturn,
              TakeBalances, perInstance
<1>3. CASE WorkerStep \/ WorkerFault
  BY <1>3 DEF WorkerStep, WorkerFault, WorkerTop, WorkerPeriodic, WorkerTake, TakeBalances,
     WorkerWake, WorkerMerge, WorkerOpenGroup, WorkerSummary, WorkerBarrier, WorkerSignal,
     WorkerShutdown, WorkerDrained, WorkerClosed, WorkerFail, WorkerBury, WorkerDropped,
     WorkerFinish, WorkerDropGroup, WorkerError, WorkerPanic, perInstance
<1>4. CASE WallClock \/ UNCHANGED vars
  BY <1>4 DEF WallClock, vars, perInstance
<1> QED
  BY <1>1, <1>2, <1>3, <1>4 DEF Next

\* Every step keeps the continuity.
LEMMA NextContinuity == IndInv /\ IndInv' /\ Order /\ Continuity /\ [Next]_vars => Continuity'
<1> SUFFICES ASSUME IndInv, IndInv', Order, Continuity, [Next]_vars PROVE Continuity'
  OBVIOUS
<1>1. CASE /\ \E i \in Instances, reason \in Reasons : Refusal(i, reason)
           /\ UNCHANGED <<queue, sequence, worker, groups, files>>
  BY <1>1, RefusalContinuous
<1>2. CASE UNCHANGED <<breaks, epoch>>
  <2>1. Moves
    BY NextMoves DEF Order
  <2> QED
    BY <1>2, <2>1, EventsStayContinuous, LinesStayContinuous DEF Continuity
<1> QED
  BY <1>1, <1>2, RefusalsOnly

\* A line never merges events of an instance around a refusal of that instance
\* (the continuity epoch of Shared::refusal and Worker::can_merge), for any number
\* of threads, instances, destinations, contents and refusals.
THEOREM LinesAreContinuous == Spec => []NoLineSpansRefusal
<1>1. Init => Continuity
  <2> SUFFICES ASSUME Init PROVE Continuity
    OBVIOUS
  <2>1. LiveEvents = {}
    BY DEF Init, LiveEvents, Events, HandlingA, At
  <2> QED
    BY <2>1 DEF Init, Continuity, BreaksBehind, EpochsCurrent, EventsContinuous, GroupsContinuous,
                NoLineSpansRefusal
<1>2. Continuity => NoLineSpansRefusal
  BY DEF Continuity
<1> QED
  BY Inductive, AlwaysOrder, NextContinuity, <1>1, <1>2, PTL DEF Spec
-----------------------------------------------------------------------------
(* Accounts *)

\* The positions of the items of a queue that are in K.
Places(q, K) == {n \in DOMAIN q : q[n] \in K}

\* The occurrences in the groups of the instances in I.
Grouped(gr, I) == SumFunction([k \in DOMAIN gr |-> IF k[1] \in I THEN gr[k].count ELSE 0])

\* The lines of all the files, weighted by W.
PositionsOf(fs) == UNION {{p} \X DOMAIN fs[p] : p \in Paths}
Weighed(fs, W) == SumFunction([n \in PositionsOf(fs) |-> W[fs[n[1]][n[2]]]])
-----------------------------------------------------------------------------
(* Queues, groups and files *)

\* The positions can be counted.
LEMMA PlacesFinite ==
  ASSUME NEW S, NEW q \in Seq(S), NEW K
  PROVE  IsFiniteSet(Places(q, K)) /\ Cardinality(Places(q, K)) \in Nat
<1>1. IsFiniteSet(1..Len(q))
  BY FS_Interval
<1>2. Places(q, K) \in SUBSET (1..Len(q))
  BY DEF Places
<1> QED
  BY <1>1, <1>2, FS_Subset, FS_CardinalityType

\* An item more.
LEMMA PlacesAppend ==
  ASSUME NEW S, NEW q \in Seq(S), NEW x \in S, NEW K
  PROVE  Cardinality(Places(Append(q, x), K))
           = Cardinality(Places(q, K)) + IF x \in K THEN 1 ELSE 0
<1> DEFINE last == Len(q) + 1
<1>1. Places(Append(q, x), K) = IF x \in K THEN Places(q, K) \cup {last} ELSE Places(q, K)
  BY DEF Places
<1>2. last \notin Places(q, K)
  BY DEF Places
<1>3. Cardinality(Places(q, K) \cup {last}) = Cardinality(Places(q, K)) + 1
  BY <1>2, PlacesFinite, FS_AddElement
<1> QED
  BY <1>1, <1>3, PlacesFinite

\* The head taken.
LEMMA PlacesTail ==
  ASSUME NEW S, NEW q \in Seq(S), q # <<>>, NEW K
  PROVE  Cardinality(Places(q, K))
           = Cardinality(Places(Tail(q), K)) + IF Head(q) \in K THEN 1 ELSE 0
<1> DEFINE others == Places(q, K) \ {1}
           shift  == [n \in others |-> n - 1]
<1>1. /\ IsFiniteSet(others)
      /\ Cardinality(others) = IF 1 \in Places(q, K) THEN Cardinality(Places(q, K)) - 1
                                                     ELSE Cardinality(Places(q, K))
  BY PlacesFinite, FS_RemoveElement
<1>2. 1 \in Places(q, K) <=> Head(q) \in K
  BY DEF Places
<1>3. shift \in Bijection(others, Places(Tail(q), K))
  <2>1. \A n \in others : n - 1 \in Places(Tail(q), K)
    BY DEF Places
  <2>2. \A n \in Places(Tail(q), K) : n + 1 \in others /\ shift[n + 1] = n
    BY DEF Places
  <2>3. \A a, b \in others : shift[a] = shift[b] => a = b
    BY DEF Places
  <2> QED
    BY <2>1, <2>2, <2>3 DEF Bijection, Injection, Surjection, IsInjective
<1>4. Cardinality(Places(Tail(q), K)) = Cardinality(others)
  BY <1>1, <1>3, FS_Bijection DEF ExistsBijection
<1> QED
  BY <1>1, <1>2, <1>4, PlacesFinite

\* Items added that are all in K, or all out of it.
LEMMA PlacesConcat ==
  ASSUME NEW S, NEW q \in Seq(S), NEW r \in Seq(S), NEW K
  PROVE  /\ (\A n \in 1..Len(r) : r[n] \notin K) => Places(q \o r, K) = Places(q, K)
         /\ (\A n \in 1..Len(r) : r[n] \in K)
              => Cardinality(Places(q \o r, K)) = Cardinality(Places(q, K)) + Len(r)
<1> DEFINE a == Len(q)
           more == (a + 1)..(a + Len(r))
<1>0. /\ q \o r \in Seq(S) /\ Len(q \o r) = a + Len(r) /\ a \in Nat /\ Len(r) \in Nat
      /\ \A n \in 1..a : (q \o r)[n] = q[n]
      /\ \A n \in more : n - a \in 1..Len(r) /\ (q \o r)[n] = r[n - a]
      /\ DOMAIN (q \o r) = 1..(a + Len(r)) /\ DOMAIN q = 1..a
  OBVIOUS
<1>1. DOMAIN (q \o r) = (1..a) \cup more
  BY <1>0
<1>2. ASSUME \A n \in 1..Len(r) : r[n] \notin K PROVE Places(q \o r, K) = Places(q, K)
  BY <1>0, <1>1, <1>2 DEF Places
<1>3. ASSUME \A n \in 1..Len(r) : r[n] \in K
      PROVE  Cardinality(Places(q \o r, K)) = Cardinality(Places(q, K)) + Len(r)
  <2>1. Places(q \o r, K) = Places(q, K) \cup more
    BY <1>0, <1>1, <1>3 DEF Places
  <2>2. IsFiniteSet(more) /\ Cardinality(more) = Len(r)
    <3> DEFINE from == a + 1
               to == a + Len(r)
    <3>1. from \in Int /\ to \in Int
      BY <1>0
    <3>2. (from > to => Len(r) = 0) /\ (~(from > to) => to - from + 1 = Len(r))
      BY <1>0
    <3> HIDE DEF from, to
    <3>3. /\ IsFiniteSet(from..to)
          /\ Cardinality(from..to) = IF from > to THEN 0 ELSE to - from + 1
      BY <3>1, FS_Interval
    <3> QED
      BY <3>2, <3>3 DEF from, to
  <2>3. Places(q, K) \cap more = {}
    BY <1>0 DEF Places
  <2>4. Cardinality(Places(q, K) \cup more) = Cardinality(Places(q, K)) + Cardinality(more) - Cardinality({})
    BY <2>2, <2>3, PlacesFinite, FS_Union
  <2> QED
    BY <2>1, <2>2, <2>4, PlacesFinite, FS_EmptySet
<1> QED
  BY <1>2, <1>3
\* Open groups, for the sums: finitely many, of at least one occurrence.
GroupsOf(gr) == DOMAIN gr \in SUBSET Keys /\ \A k \in DOMAIN gr : gr[k].count \in Nat
Share(gr, k, I) == IF k[1] \in I THEN gr[k].count ELSE 0

\* The shares can be summed.
LEMMA SharesSummable ==
  ASSUME NEW gr, GroupsOf(gr), NEW I
  PROVE  Summable([k \in DOMAIN gr |-> IF k[1] \in I THEN gr[k].count ELSE 0])
<1>1. IsFiniteSet(DOMAIN gr)
  BY GroupsFinite DEF GroupsOf
<1> QED
  BY <1>1 DEF Summable, GroupsOf

\* Sums over groups are natural; and nothing is in no group.
LEMMA GroupedNatural ==
  ASSUME NEW gr, GroupsOf(gr), NEW I
  PROVE  Grouped(gr, I) \in Nat /\ (DOMAIN gr = {} => Grouped(gr, I) = 0)
<1> DEFINE f == [k \in DOMAIN gr |-> IF k[1] \in I THEN gr[k].count ELSE 0]
<1>1. Summable(f) /\ DOMAIN f = DOMAIN gr
  BY SharesSummable
<1>2. Grouped(gr, I) = SumFunction(f)
  BY DEF Grouped
<1> HIDE DEF f
<1> QED
  BY <1>1, <1>2, SumNatural, SumOfNone

\* h is gr and one group more.
GroupAdded(gr, h, k) ==
    /\ k \notin DOMAIN gr /\ DOMAIN h = DOMAIN gr \cup {k}
    /\ h[k].count \in Nat /\ \A j \in DOMAIN gr : h[j] = gr[j]

\* A group more.
LEMMA GroupedGrows ==
  ASSUME NEW gr, GroupsOf(gr), NEW h, NEW k, GroupAdded(gr, h, k), NEW I
  PROVE  Grouped(h, I) = Grouped(gr, I) + Share(h, k, I)
<1> DEFINE f == [j \in DOMAIN gr |-> IF j[1] \in I THEN gr[j].count ELSE 0]
           g == [j \in DOMAIN h |-> IF j[1] \in I THEN h[j].count ELSE 0]
<1>1. Summable(f)
  BY SharesSummable
<1>2. /\ DOMAIN f = DOMAIN gr /\ DOMAIN g = DOMAIN f \cup {k} /\ \A j \in DOMAIN f : g[j] = f[j]
      /\ g[k] = Share(h, k, I) /\ g[k] \in Nat /\ k \notin DOMAIN f
  BY DEF Share, GroupAdded
<1>3. Grouped(gr, I) = SumFunction(f) /\ Grouped(h, I) = SumFunction(g)
  BY DEF Grouped
<1> HIDE DEF f, g
<1>4. SumFunction(g) = SumFunction(f) + g[k]
  BY <1>1, <1>2, SumGrows
<1> QED
  BY <1>2, <1>3, <1>4

\* A group less.
LEMMA GroupedWithout ==
  ASSUME NEW gr, GroupsOf(gr), NEW k \in DOMAIN gr, NEW h, DOMAIN h = DOMAIN gr \ {k},
         \A j \in DOMAIN h : h[j] = gr[j], NEW I
  PROVE  Grouped(gr, I) = Grouped(h, I) + Share(gr, k, I)
<1>1. GroupsOf(h) /\ GroupAdded(h, gr, k)
  BY DEF GroupsOf, GroupAdded
<1> QED
  BY <1>1, GroupedGrows

\* A group that changes.
LEMMA GroupedChanges ==
  ASSUME NEW gr, GroupsOf(gr), NEW k \in DOMAIN gr, NEW h, DOMAIN h = DOMAIN gr,
         \A j \in DOMAIN gr \ {k} : h[j] = gr[j], h[k].count \in Nat, NEW I
  PROVE  Grouped(h, I) + Share(gr, k, I) = Grouped(gr, I) + Share(h, k, I)
<1> DEFINE f == [j \in DOMAIN gr |-> IF j[1] \in I THEN gr[j].count ELSE 0]
           g == [j \in DOMAIN h |-> IF j[1] \in I THEN h[j].count ELSE 0]
<1>1. Summable(f)
  BY SharesSummable
<1>2. /\ DOMAIN f = DOMAIN gr /\ DOMAIN g = DOMAIN f /\ \A j \in DOMAIN f \ {k} : g[j] = f[j]
      /\ g[k] = Share(h, k, I) /\ g[k] \in Nat /\ f[k] = Share(gr, k, I)
  BY DEF Share
<1>3. Grouped(gr, I) = SumFunction(f) /\ Grouped(h, I) = SumFunction(g)
  BY DEF Grouped
<1> HIDE DEF f, g
<1>4. SumFunction(g) + f[k] = SumFunction(f) + g[k]
  BY <1>1, <1>2, SumChanges
<1> QED
  BY <1>2, <1>3, <1>4

\* A position is a file and a place in it.
LEMMA PositionsAre ==
  ASSUME NEW fs
  PROVE  /\ \A p, m : <<p, m>> \in PositionsOf(fs) <=> p \in Paths /\ m \in DOMAIN fs[p]
         /\ \A n \in PositionsOf(fs) : n = <<n[1], n[2]>>
<1>1. \A n \in PositionsOf(fs) : \E p \in Paths : n \in {p} \X DOMAIN fs[p]
  BY DEF PositionsOf
<1>2. \A p, m : p \in Paths /\ m \in DOMAIN fs[p] => <<p, m>> \in PositionsOf(fs)
  BY DEF PositionsOf
<1>3. \A p, m : <<p, m>> \in PositionsOf(fs) => p \in Paths /\ m \in DOMAIN fs[p]
  BY <1>1
<1>4. \A n \in PositionsOf(fs) : n = <<n[1], n[2]>>
  BY <1>1
<1> QED
  BY <1>2, <1>3, <1>4

FilesOf(fs) == fs \in [Paths -> Seq(LineType)]

\* The lines of the files can be summed, when there are finitely many.
LEMMA LinesSummable ==
  ASSUME NEW fs, FilesOf(fs), IsFiniteSet(PositionsOf(fs)),
         NEW W \in [LineType -> Nat]
  PROVE  /\ Summable([n \in PositionsOf(fs) |-> W[fs[n[1]][n[2]]]])
         /\ Weighed(fs, W) \in Nat
<1>1. \A n \in PositionsOf(fs) : n[1] \in Paths /\ n[2] \in DOMAIN fs[n[1]]
  BY DEF PositionsOf
<1>2. \A n \in PositionsOf(fs) : fs[n[1]][n[2]] \in LineType
  BY <1>1 DEF FilesOf
<1> DEFINE f == [n \in PositionsOf(fs) |-> W[fs[n[1]][n[2]]]]
<1>3. Summable(f)
  BY <1>2 DEF Summable
<1>4. Weighed(fs, W) = SumFunction(f)
  BY DEF Weighed
<1> HIDE DEF f
<1>5. Weighed(fs, W) \in Nat
  BY <1>3, <1>4, SumNatural
<1> QED
  BY <1>3, <1>5 DEF f

\* hs is fs and one line more.
LineAdded(fs, hs, path, line) == hs = [fs EXCEPT ![path] = Append(@, line)]
NewPosition(fs, path) == <<path, Len(fs[path]) + 1>>

\* A line more.
LEMMA PositionsGrow ==
  ASSUME NEW fs, FilesOf(fs), NEW path \in Paths, NEW line \in LineType,
         NEW hs, LineAdded(fs, hs, path, line)
  PROVE  /\ PositionsOf(hs) = PositionsOf(fs) \cup {NewPosition(fs, path)}
         /\ NewPosition(fs, path) \notin PositionsOf(fs)
         /\ \A n \in PositionsOf(fs) : hs[n[1]][n[2]] = fs[n[1]][n[2]]
         /\ hs[path][Len(fs[path]) + 1] = line
<1> DEFINE len == Len(fs[path])
           new == <<path, len + 1>>
<1>1. /\ hs[path] = Append(fs[path], line) /\ len \in Nat
      /\ \A p \in Paths : p # path => hs[p] = fs[p]
      /\ DOMAIN fs[path] = 1..len /\ DOMAIN hs[path] = 1..(len + 1)
      /\ hs[path][len + 1] = line
      /\ \A n \in 1..len : hs[path][n] = fs[path][n]
  BY DEF LineAdded, FilesOf
<1> HIDE DEF len
<1>2. PositionsOf(hs) = PositionsOf(fs) \cup {new}
  <2>1. 1..(len + 1) = (1..len) \cup {len + 1}
    BY <1>1
  <2>2. \A p \in Paths : DOMAIN hs[p] = IF p = path THEN DOMAIN fs[p] \cup {len + 1} ELSE DOMAIN fs[p]
    BY <1>1, <2>1
  <2>3. ASSUME NEW n PROVE n \in PositionsOf(hs) <=> n \in PositionsOf(fs) \cup {new}
    <3>1. ASSUME NEW p, NEW m
          PROVE  <<p, m>> \in PositionsOf(hs) <=> <<p, m>> \in PositionsOf(fs) \/ <<p, m>> = new
      <4>1. /\ <<p, m>> \in PositionsOf(hs) <=> p \in Paths /\ m \in DOMAIN hs[p]
            /\ <<p, m>> \in PositionsOf(fs) <=> p \in Paths /\ m \in DOMAIN fs[p]
        BY PositionsAre
      <4>2. <<p, m>> = new <=> p = path /\ m = len + 1
        OBVIOUS
      <4> HIDE DEF new
      <4>3. CASE p = path
        BY <2>2, <4>1, <4>2, <4>3
      <4>4. CASE p # path
        BY <2>2, <4>1, <4>2, <4>4
      <4> QED
        BY <4>3, <4>4
    <3>2. n \in PositionsOf(hs) \/ n \in PositionsOf(fs) \cup {new} => n = <<n[1], n[2]>>
      BY PositionsAre
    <3>3. <<n[1], n[2]>> \in PositionsOf(hs)
            <=> <<n[1], n[2]>> \in PositionsOf(fs) \/ <<n[1], n[2]>> = new
      BY <3>1
    <3> HIDE DEF new
    <3> QED
      BY <3>2, <3>3
  <2> QED
    BY <2>3
<1>3. new \notin PositionsOf(fs)
  <2>1. len + 1 \notin DOMAIN fs[path]
    BY <1>1
  <2> QED
    BY <2>1, PositionsAre
<1>4. ASSUME NEW n \in PositionsOf(fs) PROVE hs[n[1]][n[2]] = fs[n[1]][n[2]]
  <2>1. <<n[1], n[2]>> \in PositionsOf(fs)
    BY PositionsAre
  <2>2. n[1] \in Paths /\ n[2] \in DOMAIN fs[n[1]]
    BY <2>1, PositionsAre
  <2>3. CASE n[1] = path
    BY <1>1, <2>2, <2>3
  <2>4. CASE n[1] # path
    BY <1>1, <2>2, <2>4
  <2> QED
    BY <2>3, <2>4
<1> QED
  BY <1>1, <1>2, <1>3, <1>4 DEF new, len, NewPosition

\* ... adds its weight.
LEMMA WeighedAppends ==
  ASSUME NEW fs, FilesOf(fs), IsFiniteSet(PositionsOf(fs)),
         NEW W \in [LineType -> Nat], NEW path \in Paths, NEW line \in LineType,
         NEW hs, LineAdded(fs, hs, path, line)
  PROVE  IsFiniteSet(PositionsOf(hs)) /\ Weighed(hs, W) = Weighed(fs, W) + W[line]
<1> DEFINE len == Len(fs[path])
           new == NewPosition(fs, path)
           f == [n \in PositionsOf(fs) |-> W[fs[n[1]][n[2]]]]
           g == [n \in PositionsOf(hs) |-> W[hs[n[1]][n[2]]]]
<1>1. PositionsOf(hs) = PositionsOf(fs) \cup {new}
  BY PositionsGrow
<1>2. new \notin PositionsOf(fs)
  BY PositionsGrow
<1>3. \A n \in PositionsOf(fs) : hs[n[1]][n[2]] = fs[n[1]][n[2]]
  BY PositionsGrow
<1>4. hs[path][len + 1] = line
  BY PositionsGrow
<1>5. Summable(f) /\ DOMAIN f = PositionsOf(fs)
  BY LinesSummable
<1>6. DOMAIN g = DOMAIN f \cup {new} /\ new \notin DOMAIN f /\ \A n \in DOMAIN f : g[n] = f[n]
  <2>1. DOMAIN g = PositionsOf(hs) /\ DOMAIN f = PositionsOf(fs)
    OBVIOUS
  <2>2. ASSUME NEW n \in PositionsOf(fs) PROVE g[n] = f[n]
    <3>1. n \in PositionsOf(hs)
      BY <1>1
    <3>2. hs[n[1]][n[2]] = fs[n[1]][n[2]]
      BY <1>3
    <3>3. f[n] = W[fs[n[1]][n[2]]]
      OBVIOUS
    <3>4. g[n] = W[hs[n[1]][n[2]]]
      BY <3>1
    <3> HIDE DEF f, g
    <3> QED
      BY <3>2, <3>3, <3>4
  <2> HIDE DEF f, g
  <2> QED
    BY <2>1, <2>2, <1>1, <1>2
<1>7. g[new] = W[line] /\ g[new] \in Nat
  <2>1. new[1] = path /\ new[2] = len + 1 /\ new \in PositionsOf(hs)
    BY <1>1 DEF NewPosition
  <2>2. g[new] = W[hs[new[1]][new[2]]]
    BY <2>1
  <2>3. g[new] = W[hs[path][len + 1]]
    BY <2>1, <2>2
  <2> QED
    BY <1>4, <2>3
<1>8. Weighed(fs, W) = SumFunction(f) /\ Weighed(hs, W) = SumFunction(g)
  BY DEF Weighed
<1> HIDE DEF f, g, new
<1>9. Summable(g) /\ SumFunction(g) = SumFunction(f) + g[new]
  BY <1>5, <1>6, <1>7, SumGrows
<1>10. IsFiniteSet(PositionsOf(hs))
  BY <1>1, <1>2, FS_AddElement
<1> QED
  BY <1>7, <1>8, <1>9, <1>10
-----------------------------------------------------------------------------
(* Items in transit: queued, in the worker's hands, or in an open group *)

\* The items of K are numbered, and its events are those of the instances in I.
Tallies(K, I) ==
    /\ K \subseteq EventType \cup SummaryType
    /\ \A e \in EventType : e \in K <=> e.instance \in I
    /\ SummaryType \subseteq K \/ SummaryType \cap K = {}
HandHas(K) == IF worker.pc = "item" /\ worker.item \in K THEN 1 ELSE 0
InTransit(K, I) == Cardinality(Places(queue, K)) + HandHas(K) + Grouped(groups, I)
\* ... after a step.
NextHandHas(K) == IF worker'.pc = "item" /\ worker'.item \in K THEN 1 ELSE 0
NextInTransit(K, I) == Cardinality(Places(queue', K)) + NextHandHas(K) + Grouped(groups', I)
\* The summaries among the items of K.
Served(K, due) == IF SummaryType \subseteq K THEN Cardinality(due) ELSE 0

\* There are summaries, so a set that contains none does not contain them all.
LEMMA SomeSummary == SummaryType # {}
<1>1. PICK h \in Hours : TRUE
  BY HoursAssumption
<1>2. 1 \in Instances
  BY InstancesAssumption DEF Instances
<1>3. [kind |-> "summary", instance |-> 1, hour |-> h, seq |-> 0, count |-> 0] \in SummaryType
  BY <1>2 DEF SummaryType
<1> QED
  BY <1>3

\* The groups of a state can be summed.
LEMMA GroupsSummable == TypeOK => GroupsOf(groups)
  BY DEF TypeOK, WorkerTypes, GroupsOf

\* The three places hold a natural number of items.
LEMMA TransitNatural ==
  ASSUME TypeOK, NEW K, NEW I
  PROVE  /\ Cardinality(Places(queue, K)) \in Nat /\ HandHas(K) \in Nat
         /\ Grouped(groups, I) \in Nat /\ InTransit(K, I) \in Nat
<1>1. Cardinality(Places(queue, K)) \in Nat
  BY PlacesFinite DEF TypeOK, AdmissionTypes
<1>2. Grouped(groups, I) \in Nat
  BY GroupsSummable, GroupedNatural
<1>3. HandHas(K) \in Nat
  BY DEF HandHas
<1> QED
  BY <1>1, <1>2, <1>3 DEF InTransit

\* The summaries of a locked section, as a sequence.
LEMMA SummariesAre ==
  ASSUME TypeOK, NEW due \in SUBSET Instances, NEW order \in Ascending(due)
  PROVE  /\ SummaryItems(order) \in Seq(SummaryType)
         /\ Len(SummaryItems(order)) = Cardinality(due) /\ Cardinality(due) \in Nat
<1>1. Cardinality(due) \in Nat
  BY SummariesQueued
<1>2. order \in Seq(Instances) /\ Len(order) = Cardinality(due)
  BY <1>1 DEF Ascending
<1>3. ASSUME NEW k \in 1..Len(order)
      PROVE  [kind |-> "summary", instance |-> order[k], hour |-> hour,
              seq |-> sequence + k, count |-> overloadPending[order[k]]] \in SummaryType
  BY <1>2 DEF TypeOK, AdmissionTypes, InstanceTypes, OutputTypes, SummaryType
<1> QED
  BY <1>1, <1>2, <1>3 DEF SummaryItems

\* A locked section that queues the summaries of `due`.
LEMMA SummariesPlaced ==
  ASSUME TypeOK, NEW K, NEW I, Tallies(K, I),
         NEW due \in SUBSET Instances, NEW order \in Ascending(due)
  PROVE  /\ queue \o SummaryItems(order) \in Seq(ItemType)
         /\ Served(K, due) \in Nat
         /\ Cardinality(Places(queue \o SummaryItems(order), K))
              = Cardinality(Places(queue, K)) + Served(K, due)
<1> DEFINE items == SummaryItems(order)
<1>1. items \in Seq(SummaryType) /\ Len(items) = Cardinality(due) /\ Cardinality(due) \in Nat
  BY SummariesAre
<1>2. queue \in Seq(ItemType) /\ queue \o items \in Seq(ItemType)
  BY SummariesQueued DEF TypeOK, AdmissionTypes
<1>3. items \in Seq(ItemType)
  BY <1>1 DEF ItemType
<1> HIDE DEF items
<1>4. \A n \in 1..Len(items) : items[n] \in SummaryType
  BY <1>1
<1>5. Cardinality(Places(queue, K)) \in Nat
  BY TransitNatural
<1>6. CASE SummaryType \subseteq K
  <2>1. \A n \in 1..Len(items) : items[n] \in K
    BY <1>4, <1>6
  <2>2. Cardinality(Places(queue \o items, K)) = Cardinality(Places(queue, K)) + Len(items)
    BY <1>2, <1>3, <2>1, PlacesConcat
  <2> QED
    BY <1>1, <1>2, <1>6, <2>2 DEF Served, items
<1>7. CASE ~(SummaryType \subseteq K)
  <2>1. \A n \in 1..Len(items) : items[n] \notin K
    BY <1>4, <1>7 DEF Tallies
  <2>2. Places(queue \o items, K) = Places(queue, K)
    BY <1>2, <1>3, <2>1, PlacesConcat
  <2>3. Served(K, due) = 0
    BY <1>7 DEF Served
  <2> QED
    BY <1>2, <1>5, <2>2, <2>3 DEF items
<1> QED
  BY <1>6, <1>7

\* An acceptance queues an event of its instance.
LEMMA AcceptTransit ==
  ASSUME IndInv, NEW K, NEW I, Tallies(K, I), NEW p \in Producers, EmitAccept(p)
  PROVE  NextInTransit(K, I) = InTransit(K, I) + IF producer[p].instance \in I THEN 1 ELSE 0
<1> DEFINE e == producer[p]
           event == Event(e.instance, e.destination, e.content, sequence + 1, epoch[e.instance])
<1> TypeOK
  BY DEF IndInv
<1>1. event \in EventType /\ event.instance = e.instance
  <2>1. /\ e.pc = "formatting" /\ e.instance \in Instances
        /\ e.destination \in Destinations /\ e.content \in Contents
    BY DEF EmitAccept, TypeOK, ThreadTypes, ProducerType
  <2> QED
    BY <2>1 DEF TypeOK, Event, EventType, AdmissionTypes, InstanceTypes, OutputTypes
<1>2. queue' = Append(queue, event) /\ UNCHANGED <<worker, groups>> /\ queue \in Seq(ItemType)
  BY DEF EmitAccept, TypeOK, AdmissionTypes
<1> HIDE DEF event
<1>3. event \in ItemType /\ (event \in K <=> e.instance \in I)
  BY <1>1 DEF ItemType, Tallies
<1>4. Cardinality(Places(queue', K)) = Cardinality(Places(queue, K)) + IF event \in K THEN 1 ELSE 0
  BY <1>2, <1>3, PlacesAppend
<1>5. NextHandHas(K) = HandHas(K) /\ Grouped(groups', I) = Grouped(groups, I)
  BY <1>2 DEF NextHandHas, HandHas
<1> QED
  BY <1>3, <1>4, <1>5, TransitNatural DEF NextInTransit, InTransit

\* Control items are not tallied.
LEMMA ControlTransit ==
  ASSUME IndInv, NEW K, NEW I, Tallies(K, I), NEW due \in SUBSET Instances,
         NEW order \in Ascending(due), NEW x \in BarrierType \cup {Shutdown},
         queue' = Append(queue \o SummaryItems(order), x),
         NextHandHas(K) = HandHas(K), UNCHANGED groups
  PROVE  NextInTransit(K, I) = InTransit(K, I) + Served(K, due)
<1> TypeOK
  BY DEF IndInv
<1> DEFINE q == queue \o SummaryItems(order)
<1>1. /\ q \in Seq(ItemType) /\ Served(K, due) \in Nat
      /\ Cardinality(Places(q, K)) = Cardinality(Places(queue, K)) + Served(K, due)
  BY SummariesPlaced
<1> HIDE DEF q
<1>2. x \in ItemType /\ x \notin K
  BY DEF ItemType, Tallies, EventType, SummaryType, BarrierType, Shutdown
<1>3. Cardinality(Places(Append(q, x), K)) = Cardinality(Places(q, K))
  <2>1. Cardinality(Places(Append(q, x), K)) = Cardinality(Places(q, K)) + IF x \in K THEN 1 ELSE 0
    BY <1>1, <1>2, PlacesAppend
  <2>2. Cardinality(Places(q, K)) \in Nat
    BY <1>1, PlacesFinite
  <2> QED
    BY <1>2, <2>1, <2>2
<1>4. Cardinality(Places(queue', K)) = Cardinality(Places(queue, K)) + Served(K, due)
  BY <1>1, <1>3 DEF q
<1>5. Grouped(groups', I) = Grouped(groups, I)
  OBVIOUS
<1> QED
  BY <1>1, <1>4, <1>5, TransitNatural DEF NextInTransit, InTransit

\* Taking the next item moves it from the queue to the hands of the worker.
LEMMA TakeTransit ==
  ASSUME IndInv, NEW K, NEW I, Tallies(K, I), NEW due \in SUBSET Instances,
         NEW order \in Ascending(due), worker.pc # "item",
         TakeNext(queue \o SummaryItems(order)), UNCHANGED groups
  PROVE  NextInTransit(K, I) = InTransit(K, I) + Served(K, due)
<1> TypeOK
  BY DEF IndInv
<1> DEFINE q == queue \o SummaryItems(order)
<1>1. /\ q \in Seq(ItemType) /\ Served(K, due) \in Nat
      /\ Cardinality(Places(q, K)) = Cardinality(Places(queue, K)) + Served(K, due)
  BY SummariesPlaced
<1>2. \/ q # <<>> /\ worker' = Handling(Head(q)) /\ queue' = Tail(q)
      \/ q = <<>> /\ Goto("waiting") /\ queue' = queue
  BY DEF TakeNext
<1>3. q = <<>> => queue = q
  BY DEF TypeOK, AdmissionTypes
<1> HIDE DEF q
<1>4. HandHas(K) = 0 /\ Grouped(groups', I) = Grouped(groups, I)
  BY DEF HandHas
<1>5. Cardinality(Places(queue', K)) + NextHandHas(K) = Cardinality(Places(q, K))
  <2>1. CASE q # <<>> /\ worker' = Handling(Head(q)) /\ queue' = Tail(q)
    <3>1. Cardinality(Places(q, K)) = Cardinality(Places(queue', K)) + IF Head(q) \in K THEN 1 ELSE 0
      BY <1>1, <2>1, PlacesTail
    <3>2. NextHandHas(K) = IF Head(q) \in K THEN 1 ELSE 0
      BY <2>1 DEF NextHandHas, Handling
    <3> QED
      BY <3>1, <3>2
  <2>2. CASE q = <<>> /\ Goto("waiting") /\ queue' = queue
    <3>1. NextHandHas(K) = 0 /\ queue' = q
      BY <1>3, <2>2 DEF NextHandHas, Goto, At
    <3>2. Cardinality(Places(q, K)) \in Nat
      BY <1>1, PlacesFinite
    <3> QED
      BY <3>1, <3>2
  <2> QED
    BY <1>2, <2>1, <2>2
<1>6. /\ Cardinality(Places(queue, K)) \in Nat /\ Grouped(groups, I) \in Nat
      /\ Cardinality(Places(q, K)) \in Nat
  BY <1>1, TransitNatural, PlacesFinite
<1> QED
  BY <1>1, <1>4, <1>5, <1>6 DEF NextInTransit, InTransit

\* A group that is written leaves the transit.
LEMMA FinishTransit ==
  ASSUME IndInv, NEW K, NEW I, NEW k \in Keys, WorkerFinish(k), NextHandHas(K) = HandHas(K)
  PROVE  k \in DOMAIN groups /\ InTransit(K, I) = NextInTransit(K, I) + Share(groups, k, I)
<1> TypeOK
  BY DEF IndInv
<1>1. k \in DOMAIN groups /\ GroupsOf(groups)
  BY MustFinishOpen, GroupsSummable DEF WorkerFinish
<1>2. DOMAIN groups' = DOMAIN groups \ {k} /\ \A j \in DOMAIN groups' : groups'[j] = groups[j]
  BY DEF WorkerFinish, Without
<1>3. Grouped(groups, I) = Grouped(groups', I) + Share(groups, k, I)
  BY <1>1, <1>2, GroupedWithout
<1>4. GroupsOf(groups')
  BY <1>1, <1>2 DEF GroupsOf
<1>5. Grouped(groups', I) \in Nat /\ Share(groups, k, I) \in Nat
  BY <1>1, <1>4, GroupedNatural DEF Share, GroupsOf
<1>6. UNCHANGED queue
  BY DEF WorkerFinish
<1> QED
  BY <1>1, <1>3, <1>5, <1>6, TransitNatural DEF NextInTransit, InTransit

\* The item in hand, when it is an event of K.
LEMMA EventInHand ==
  ASSUME IndInv, NEW K, NEW I, Tallies(K, I), HandlingA("event")
  PROVE  /\ worker.item \in EventType /\ KeyOf(worker.item) \in Keys
         /\ HandHas(K) = IF worker.item.instance \in I THEN 1 ELSE 0
<1>1. worker.item \in EventType /\ worker.pc = "item"
  BY InHandTypes DEF IndInv, HandlingA
<1>2. KeyOf(worker.item) \in Keys
  BY <1>1 DEF KeyOf, Keys, EventType
<1>3. worker.item \in K <=> worker.item.instance \in I
  BY <1>1 DEF Tallies
<1> QED
  BY <1>1, <1>2, <1>3 DEF HandHas

\* A merged event moves from the hands of the worker to its group.
LEMMA MergeTransit ==
  ASSUME IndInv, NEW K, NEW I, Tallies(K, I), WorkerMerge
  PROVE  NextInTransit(K, I) = InTransit(K, I)
<1> DEFINE event == worker.item
           k == KeyOf(event)
<1> TypeOK
  BY DEF IndInv
<1>1. /\ HandHas(K) = IF event.instance \in I THEN 1 ELSE 0
      /\ k \in DOMAIN groups /\ k[1] = event.instance
      /\ NextHandHas(K) = 0 /\ UNCHANGED queue
  BY EventInHand DEF WorkerMerge, CanMerge, KeyOf, Goto, At, NextHandHas
<1>2. GroupsOf(groups) /\ groups[k].count \in Nat
  BY <1>1, GroupsSummable DEF GroupsOf
<1>3. /\ DOMAIN groups' = DOMAIN groups /\ \A j \in DOMAIN groups \ {k} : groups'[j] = groups[j]
      /\ groups'[k].count = groups[k].count + 1
  BY <1>1, <1>2 DEF WorkerMerge, TypeOK, WorkerTypes
<1>4. groups'[k].count \in Nat
  BY <1>2, <1>3
<1> HIDE DEF k
<1>5. Grouped(groups', I) + Share(groups, k, I) = Grouped(groups, I) + Share(groups', k, I)
  BY <1>1, <1>2, <1>3, <1>4, GroupedChanges
<1>6. Share(groups', k, I) = Share(groups, k, I) + HandHas(K) /\ Share(groups, k, I) \in Nat
  BY <1>1, <1>2, <1>3 DEF Share
<1>7. GroupsOf(groups') /\ Grouped(groups', I) \in Nat
  <2>1. GroupsOf(groups')
    BY <1>2, <1>3, <1>4 DEF GroupsOf
  <2> QED
    BY <2>1, GroupedNatural
<1>8. Grouped(groups', I) = Grouped(groups, I) + HandHas(K)
  <2>1. Grouped(groups', I) + Share(groups, k, I) = Grouped(groups, I) + (Share(groups, k, I) + HandHas(K))
    BY <1>5, <1>6
  <2>2. Grouped(groups, I) \in Nat /\ HandHas(K) \in Nat
    BY TransitNatural
  <2> QED
    BY <1>6, <1>7, <2>1, <2>2
<1> QED
  BY <1>1, <1>8, TransitNatural DEF NextInTransit, InTransit

\* An event that opens a group moves there; the group it replaces leaves the transit.
LEMMA OpenTransit ==
  ASSUME IndInv, NEW K, NEW I, Tallies(K, I), WorkerOpenGroup
  PROVE  InTransit(K, I) = NextInTransit(K, I)
           + IF KeyOf(worker.item) \in DOMAIN groups THEN Share(groups, KeyOf(worker.item), I) ELSE 0
<1> DEFINE event == worker.item
           k == KeyOf(event)
           g == [first |-> event, last |-> event.seq, count |-> 1]
<1> TypeOK
  BY DEF IndInv
<1>1. /\ HandHas(K) = IF event.instance \in I THEN 1 ELSE 0
      /\ k \in Keys /\ k[1] = event.instance
      /\ NextHandHas(K) = 0 /\ UNCHANGED queue /\ groups' = With(k, g)
  BY EventInHand DEF WorkerOpenGroup, KeyOf, Goto, At, NextHandHas
<1>2. GroupsOf(groups)
  BY GroupsSummable
<1>3. /\ DOMAIN groups' = DOMAIN groups \cup {k} /\ \A j \in DOMAIN groups \ {k} : groups'[j] = groups[j]
      /\ groups'[k].count = 1
  BY <1>1 DEF With
<1>4. Share(groups', k, I) = HandHas(K)
  BY <1>1, <1>3 DEF Share
<1>5. GroupsOf(groups') /\ Grouped(groups', I) \in Nat
  <2>1. GroupsOf(groups')
    BY <1>1, <1>2, <1>3 DEF GroupsOf
  <2> QED
    BY <2>1, GroupedNatural
<1> HIDE DEF k
<1>6. CASE k \in DOMAIN groups
  <2>1. Grouped(groups', I) + Share(groups, k, I) = Grouped(groups, I) + Share(groups', k, I)
    <3>1. DOMAIN groups' = DOMAIN groups /\ groups'[k].count \in Nat
      BY <1>3, <1>6
    <3> QED
      BY <1>2, <1>3, <1>6, <3>1, GroupedChanges
  <2>2. Share(groups, k, I) \in Nat
    BY <1>2, <1>6 DEF Share, GroupsOf
  <2>3. Grouped(groups', I) + Share(groups, k, I) = Grouped(groups, I) + HandHas(K)
    BY <1>4, <2>1
  <2> QED
    BY <1>1, <1>5, <1>6, <2>2, <2>3, TransitNatural DEF NextInTransit, InTransit, k
<1>7. CASE k \notin DOMAIN groups
  <2>1. GroupAdded(groups, groups', k)
    BY <1>3, <1>7 DEF GroupAdded
  <2>2. Grouped(groups', I) = Grouped(groups, I) + Share(groups', k, I)
    BY <1>2, <2>1, GroupedGrows
  <2> QED
    BY <1>1, <1>4, <1>5, <1>7, <2>2, TransitNatural DEF NextInTransit, InTransit, k
<1> QED
  BY <1>6, <1>7
-----------------------------------------------------------------------------
(* Before a failure *)

\* A worker on the way out after a failure has published it.
FailurePublished == worker.pc \in {"burying", "dying"} => health = "failed"
Lifecycle == DyingWhenFailed /\ FailurePublished

\* Every step keeps it, and a failure is for good.
LEMMA FailurePublishedStep ==
  ASSUME IndInv, Lifecycle, [Next]_vars
  PROVE  FailurePublished' /\ (Failing => Failing')
<1> USE DEF Lifecycle, DyingWhenFailed, FailurePublished, Failing
<1>1. CASE ProducerStep
  BY <1>1 DEF ProducerStep, EmitReserve, EmitRefused, EmitTooLarge, EmitFiltered, EmitAccept,
              EmitAbandon, DropPermit, TracingRefuse, admission, threads
<1>2. CASE ClientStep
  BY <1>2 DEF ClientStep, FlushBegin, FlushRefused, FlushWake, ShutdownBegin, ShutdownReturn,
              admission
<1>3. CASE WorkerStep \/ WorkerFault
  <2>1. CASE worker.pc \in {"burying", "dying", "exited"}
    <3>1. WorkerBury \/ WorkerDropped \/ \E k \in Keys : WorkerDropGroup(k)
      BY <1>3, <2>1, DyingSteps
    <3>2. CASE WorkerBury
      BY <3>2 DEF WorkerBury, Goto, At, IndInv, TypeOK, WorkerTypes, WorkerType
    <3>3. CASE WorkerDropped
      BY <3>3 DEF WorkerDropped, Goto, At, admission
    <3>4. CASE \E k \in Keys : WorkerDropGroup(k)
      BY <3>4 DEF WorkerDropGroup
    <3> QED
      BY <3>1, <3>2, <3>3, <3>4
  <2>2. CASE worker.pc \in {"unwinding", "failing"}
    <3>1. WorkerFail \/ WorkerDropped \/ \E k \in Keys : WorkerDropGroup(k)
      <4>1. MustFinish = {} /\ ~DoesOutput
        BY <2>2 DEF MustFinish, HandlingA, DoesOutput
      <4> QED
        BY <1>3, <2>2, <4>1 DEF WorkerStep, WorkerFault, WorkerTop, WorkerPeriodic, WorkerTake,
           WorkerWake, WorkerMerge, WorkerOpenGroup, WorkerSummary, WorkerBarrier, WorkerSignal,
           WorkerShutdown, WorkerDrained, WorkerClosed, WorkerFinish, WorkerBury, WorkerError,
           WorkerPanic, HandlingA
    <3>2. CASE WorkerFail
      BY <3>2 DEF WorkerFail
    <3>3. CASE WorkerDropped
      BY <2>2, <3>3 DEF WorkerDropped, Goto, At
    <3>4. CASE \E k \in Keys : WorkerDropGroup(k)
      BY <2>2, <3>4 DEF WorkerDropGroup
    <3> QED
      BY <3>1, <3>2, <3>3, <3>4
  <2>3. CASE worker.pc \notin {"burying", "dying", "exited", "unwinding", "failing"}
    <3>1. ~Failing
      BY <2>3
    <3>2. CASE \E k \in Keys : WorkerFinish(k)
      <4>1. worker.pc \in {"expire", "item", "draining"}
        BY <3>2 DEF WorkerFinish, MustFinish, HandlingA
      <4>2. worker \in WorkerAt
        BY <4>1 DEF IndInv, TypeOK, WorkerTypes, WorkerType, WorkerAt
      <4> QED
        BY <3>1, <3>2, <4>1, <4>2 DEF WorkerFinish, WorkerAt
    <3>3. CASE WorkerBarrier
      BY <3>1, <3>3 DEF WorkerBarrier, HandlingA, IndInv, TypeOK, WorkerTypes, WorkerType
    <3>4. CASE ~WorkerBarrier /\ ~\E k \in Keys : WorkerFinish(k)
      BY <1>3, <2>3, <3>1, <3>4 DEF WorkerStep, WorkerFault, WorkerTop, WorkerPeriodic, WorkerTake,
         TakeNext, Handling, WorkerWake, WorkerMerge, WorkerOpenGroup, WorkerSummary, WorkerSignal,
         WorkerShutdown, WorkerDrained, WorkerClosed, WorkerBury, WorkerDropped, WorkerDropGroup,
         WorkerFail, WorkerError, WorkerPanic, Goto, At
    <3> QED
      BY <3>2, <3>3, <3>4
  <2> QED
    BY <2>1, <2>2, <2>3
<1>4. CASE WallClock \/ UNCHANGED vars
  BY <1>4 DEF WallClock, vars, admission
<1> QED
  BY <1>1, <1>2, <1>3, <1>4 DEF Next

\* Nothing has failed at first.
LEMMA InitLifecycle == Init => Lifecycle
  BY DEF Init, Lifecycle, DyingWhenFailed, FailurePublished, At

\* A failure is published before the runtime dies of it, and never taken back.
LEMMA AlwaysLifecycle == Spec => []Lifecycle
<1>1. IndInv /\ Lifecycle /\ [Next]_vars => Lifecycle'
  BY FailurePublishedStep, DyingWhenFailedStep DEF Lifecycle
<1> QED
  BY InitLifecycle, Inductive, <1>1, PTL DEF Spec

\* The steps that move numbers, but for those of a failure.
Moving ==
    \/ \E p \in Producers : EmitAccept(p)
    \/ \E c \in Clients : FlushBegin(c) \/ (ShutdownBegin(c) /\ health = "open")
    \/ WorkerTake \/ WorkerShutdown \/ WorkerMerge \/ WorkerOpenGroup \/ WorkerSummary
    \/ \E k \in Keys : WorkerFinish(k)

\* What the other steps of a runtime that is not failing leave alone.
LEMMA OthersMoveNothing ==
  ASSUME IndInv, Lifecycle, [Next]_vars, ~Moving, ~Failing'
  PROVE  /\ UNCHANGED <<queue, groups, files, sequence>>
         /\ \A K \in SUBSET (EventType \cup SummaryType) : NextHandHas(K) = HandHas(K)
<1> USE DEF Moving
<1>1. CASE ProducerStep
  BY <1>1 DEF ProducerStep, EmitReserve, EmitRefused, EmitTooLarge, EmitFiltered, EmitAbandon,
              DropPermit, TracingRefuse, admission, threads, output, NextHandHas, HandHas
<1>2. CASE ClientStep
  <2>1. PICK c \in Clients : \/ FlushBegin(c) \/ FlushRefused(c) \/ FlushWake(c)
                             \/ ShutdownBegin(c) \/ ShutdownReturn(c)
    BY <1>2 DEF ClientStep
  <2>2. CASE FlushRefused(c) \/ FlushWake(c) \/ ShutdownReturn(c)
    BY <2>2 DEF FlushRefused, FlushWake, ShutdownReturn, admission, output, NextHandHas, HandHas
  <2>3. CASE ShutdownBegin(c)
    <3>1. health # "open"
      BY <2>3
    <3> QED
      BY <2>3, <3>1 DEF ShutdownBegin, output, NextHandHas, HandHas
  <2>4. CASE FlushBegin(c)
    BY <2>4
  <2> QED
    BY <2>1, <2>2, <2>3, <2>4
<1>3. CASE WorkerStep \/ WorkerFault
  <2>1. ~Failing
    BY FailurePublishedStep
  <2>2. CASE WorkerBarrier
    <3>1. worker.item \in BarrierType /\ worker.pc = "item" /\ worker'.pc = "signal"
      BY <2>2, InHandTypes DEF WorkerBarrier, IndInv, HandlingA, TypeOK, WorkerTypes, WorkerType
    <3>2. \A K \in SUBSET (EventType \cup SummaryType) : worker.item \notin K
      BY <3>1 DEF BarrierType, EventType, SummaryType
    <3>3. UNCHANGED <<queue, groups, files, sequence>>
      BY <2>2 DEF WorkerBarrier, FlushOutput, admission, output
    <3> QED
      BY <3>1, <3>2, <3>3 DEF NextHandHas, HandHas
  <2>3. CASE \/ WorkerTop \/ WorkerPeriodic \/ WorkerWake \/ WorkerSignal \/ WorkerDrained
             \/ WorkerClosed
    <3>1. worker.pc # "item" /\ worker'.pc # "item"
      BY <2>3 DEF WorkerTop, WorkerPeriodic, WorkerWake, WorkerSignal, WorkerDrained, WorkerClosed,
                  Goto, At
    <3>2. UNCHANGED <<queue, groups, files, sequence>>
      BY <2>3 DEF WorkerTop, WorkerPeriodic, WorkerWake, WorkerSignal, WorkerDrained, WorkerClosed,
                  FlushOutput, admission, output
    <3> QED
      BY <3>1, <3>2 DEF NextHandHas, HandHas
  <2>4. CASE \/ WorkerFail \/ WorkerBury \/ WorkerDropped \/ WorkerError \/ WorkerPanic
             \/ \E k \in Keys : WorkerDropGroup(k)
    <3>1. CASE WorkerFail \/ WorkerError \/ WorkerPanic
      BY <3>1 DEF WorkerFail, WorkerError, WorkerPanic, Goto, At, Failing
    <3>2. CASE WorkerBury \/ WorkerDropped \/ \E k \in Keys : WorkerDropGroup(k)
      BY <2>1, <3>2 DEF WorkerBury, WorkerDropped, WorkerDropGroup, Failing
    <3> QED
      BY <2>4, <3>1, <3>2
  <2> QED
    BY <1>3, <2>2, <2>3, <2>4 DEF WorkerStep, WorkerFault
<1>4. CASE WallClock \/ UNCHANGED vars
  BY <1>4 DEF WallClock, vars, admission, output, NextHandHas, HandHas
<1> QED
  BY <1>1, <1>2, <1>3, <1>4 DEF Next
-----------------------------------------------------------------------------
(* What is written, and what is confirmed *)

\* A line is written to a file of its instance and awaits its confirmation.
LineOut(path, line) ==
    /\ LineAdded(files, files', path, line)
    /\ DOMAIN unconfirmed' = Instances
    /\ unconfirmed'[path[1]].lines = unconfirmed[path[1]].lines + 1
    /\ unconfirmed'[path[1]].occurrences = unconfirmed[path[1]].occurrences + Occurrences(line)
    /\ \A i \in Instances \ {path[1]} : unconfirmed'[i] = unconfirmed[i]
    /\ UNCHANGED <<durable, counters>>

\* The files and what is confirmed of them stay.
QuietOutput ==
    /\ UNCHANGED <<files, durable, unconfirmed>>
    /\ \A i \in Instances : /\ counters'[i].written = counters[i].written
                            /\ counters'[i].lines = counters[i].lines
                            /\ counters'[i].reported = counters[i].reported

\* The line of a group.
LEMMA GroupOut ==
  ASSUME IndInv, NEW k \in DOMAIN groups, WriteGroup(groups[k]), UNCHANGED counters
  PROVE  /\ PathOf(groups[k].first) \in Paths /\ GroupLine(groups[k]) \in LineType
         /\ LineOut(PathOf(groups[k].first), GroupLine(groups[k]))
<1> DEFINE g == groups[k]
           path == PathOf(g.first)
           line == GroupLine(g)
           i == g.first.instance
<1>1. /\ g \in [first : EventType, last : Nat, count : Nat \ {0}]
      /\ unconfirmed \in [Instances -> [occurrences : Nat, lines : Nat, overload : Nat]]
  BY DEF IndInv, TypeOK, WorkerTypes, OutputTypes
<1>2. /\ path \in Paths /\ line \in LineType /\ path[1] = i /\ i \in Instances
      /\ Occurrences(line) = g.count
  BY <1>1 DEF PathOf, Paths, GroupLine, LineType, EventType, Occurrences
<1>3. LineAdded(files, files', path, line)
  BY DEF WriteGroup, Write, LineAdded
<1>4. unconfirmed' = [unconfirmed EXCEPT ![i].occurrences = @ + g.count, ![i].lines = @ + 1]
  BY DEF WriteGroup
<1> HIDE DEF path, line, i, g
<1>5. /\ DOMAIN unconfirmed' = Instances
      /\ unconfirmed'[i].lines = unconfirmed[i].lines + 1
      /\ unconfirmed'[i].occurrences = unconfirmed[i].occurrences + g.count
      /\ \A j \in Instances \ {i} : unconfirmed'[j] = unconfirmed[j]
  BY <1>1, <1>2, <1>4
<1>6. UNCHANGED <<durable, counters>>
  BY DEF WriteGroup
<1>7. LineOut(path, line)
  BY <1>2, <1>3, <1>5, <1>6 DEF LineOut
<1> QED
  BY <1>2, <1>7 DEF path, line, g

\* The line of a summary.
LEMMA SummaryOut ==
  ASSUME IndInv, WorkerSummary
  PROVE  LET s == worker.item
             path == <<s.instance, MainDestination, s.hour>> IN
         s \in SummaryType /\ path \in Paths /\ SummaryLine(s) \in LineType /\ LineOut(path, SummaryLine(s))
<1> DEFINE s == worker.item
           path == <<s.instance, MainDestination, s.hour>>
           line == SummaryLine(s)
           i == s.instance
<1>1. /\ s \in SummaryType
      /\ unconfirmed \in [Instances -> [occurrences : Nat, lines : Nat, overload : Nat]]
  BY InHandTypes DEF WorkerSummary, HandlingA, IndInv, TypeOK, OutputTypes
<1>2. /\ path \in Paths /\ line \in LineType /\ path[1] = i /\ i \in Instances
      /\ Occurrences(line) = 0
  BY <1>1, RoutingAssumption DEF Paths, SummaryLine, LineType, SummaryType, Occurrences
<1>3. LineAdded(files, files', path, line)
  BY DEF WorkerSummary, Write, LineAdded
<1>4. unconfirmed' = [unconfirmed EXCEPT ![i].lines = @ + 1, ![i].overload = @ + s.count]
  BY DEF WorkerSummary
<1>5. UNCHANGED <<durable, counters>>
  BY DEF WorkerSummary
<1> HIDE DEF path, line, i, s
<1>6. /\ DOMAIN unconfirmed' = Instances
      /\ unconfirmed'[i].lines = unconfirmed[i].lines + 1
      /\ unconfirmed'[i].occurrences = unconfirmed[i].occurrences + 0
      /\ \A j \in Instances \ {i} : unconfirmed'[j] = unconfirmed[j]
  BY <1>1, <1>2, <1>4
<1>7. LineOut(path, line)
  BY <1>2, <1>3, <1>5, <1>6 DEF LineOut
<1> QED
  BY <1>1, <1>2, <1>7 DEF path, line, s

\* A refusal confirms nothing.
LEMMA RefusalQuiet ==
  ASSUME IndInv, NEW i \in Instances, NEW reason \in Reasons, Refusal(i, reason), UNCHANGED output
  PROVE  QuietOutput
<1>1. counters \in [Instances -> CounterType]
  BY DEF IndInv, TypeOK, InstanceTypes
<1>2. counters' = [counters EXCEPT ![i].refused[reason] = @ + 1]
  BY DEF Refusal
<1>3. \A j \in Instances : /\ counters'[j].written = counters[j].written
                           /\ counters'[j].lines = counters[j].lines
                           /\ counters'[j].reported = counters[j].reported
  BY <1>1, <1>2 DEF CounterType
<1> QED
  BY <1>3 DEF QuietOutput, output

\* The threads that call the engine, and the clock, leave the output alone.
LEMMA CallersQuiet ==
  ASSUME IndInv, ProducerStep \/ ClientStep \/ WallClock \/ UNCHANGED vars
  PROVE  QuietOutput
<1>1. CASE ProducerStep
  <2>1. CASE \/ \E p \in Producers, i \in Instances : EmitRefused(p, i) \/ EmitTooLarge(p, i)
             \/ \E i \in Instances : TracingRefuse(i)
    <3>1. PICK i \in Instances, reason \in Reasons : Refusal(i, reason)
      BY <2>1 DEF EmitRefused, EmitTooLarge, TracingRefuse, AdmissionRefusal, Reasons
    <3>2. UNCHANGED output
      BY <2>1 DEF EmitRefused, EmitTooLarge, TracingRefuse
    <3> QED
      BY <3>1, <3>2, RefusalQuiet
  <2>2. CASE \E p \in Producers : EmitAbandon(p)
    <3>1. PICK p \in Producers : EmitAbandon(p)
      BY <2>2
    <3>2. producer[p].instance \in Instances
      BY <3>1 DEF EmitAbandon, IndInv, TypeOK, ThreadTypes, ProducerType
    <3>3. \E reason \in Reasons : Refusal(producer[p].instance, reason)
      BY <3>1 DEF EmitAbandon, AdmissionRefusal, Reasons
    <3>4. UNCHANGED output
      BY <3>1 DEF EmitAbandon
    <3> QED
      BY <3>2, <3>3, <3>4, RefusalQuiet
  <2>3. CASE \E p \in Producers, i \in Instances : EmitFiltered(p, i)
    <3>1. PICK i \in Instances : counters' = [counters EXCEPT ![i].filtered = @ + 1]
      BY <2>3 DEF EmitFiltered
    <3>2. UNCHANGED output /\ counters \in [Instances -> CounterType]
      BY <2>3 DEF EmitFiltered, IndInv, TypeOK, InstanceTypes
    <3> QED
      BY <3>1, <3>2 DEF QuietOutput, CounterType, output
  <2>4. CASE \E p \in Producers : EmitAccept(p)
    <3>1. PICK p \in Producers : EmitAccept(p)
      BY <2>4
    <3>2. counters' = [counters EXCEPT ![producer[p].instance].accepted = @ + 1]
      BY <3>1 DEF EmitAccept
    <3>3. UNCHANGED output /\ counters \in [Instances -> CounterType]
      BY <3>1 DEF EmitAccept, IndInv, TypeOK, InstanceTypes
    <3> QED
      BY <3>2, <3>3 DEF QuietOutput, CounterType, output
  <2>5. CASE \/ \E p \in Producers : DropPermit(p)
             \/ \E p \in Producers, i \in Instances, d \in Destinations, c \in Contents :
                    EmitReserve(p, i, d, c)
    BY <2>5 DEF DropPermit, EmitReserve, QuietOutput, output, perInstance
  <2> QED
    BY <1>1, <2>1, <2>2, <2>3, <2>4, <2>5 DEF ProducerStep
<1>2. CASE ClientStep \/ WallClock \/ UNCHANGED vars
  <2>1. UNCHANGED output /\ counters' = counters
    BY <1>2 DEF ClientStep, FlushBegin, FlushRefused, FlushWake, ShutdownBegin, ShutdownReturn,
                WallClock, vars, perInstance, TakeBalances
  <2> QED
    BY <2>1 DEF QuietOutput, output
<1> QED
  BY <1>1, <1>2

\* Lines are written of open groups, and of the summary in hand.
LineOf(line) == \/ \E k \in DOMAIN groups : line = GroupLine(groups[k])
                \/ HandlingA("summary") /\ line = SummaryLine(worker.item)

\* Every step writes one line, or flushes, or leaves the output alone.
LEMMA OutputMoves ==
  ASSUME IndInv, [Next]_vars
  PROVE  \/ \E path \in Paths, line \in LineType : LineOut(path, line) /\ LineOf(line)
         \/ FlushOutput
         \/ QuietOutput
<1>1. CASE ProducerStep \/ ClientStep \/ WallClock \/ UNCHANGED vars
  BY <1>1, CallersQuiet
<1>3. CASE \E k \in Keys : WorkerFinish(k)
  <2>1. PICK k \in Keys : WorkerFinish(k)
    BY <1>3
  <2>2. k \in DOMAIN groups /\ WriteGroup(groups[k]) /\ UNCHANGED counters
    BY <2>1, MustFinishOpen DEF WorkerFinish, perInstance
  <2> QED
    BY <2>2, GroupOut DEF LineOf
<1>4. CASE WorkerOpenGroup
  <2>1. UNCHANGED counters
    BY <1>4 DEF WorkerOpenGroup, perInstance
  <2>2. CASE KeyOf(worker.item) \in DOMAIN groups
    <3>1. WriteGroup(groups[KeyOf(worker.item)])
      BY <1>4, <2>2 DEF WorkerOpenGroup
    <3> QED
      BY <2>1, <2>2, <3>1, GroupOut DEF LineOf
  <2>3. CASE KeyOf(worker.item) \notin DOMAIN groups
    <3>1. UNCHANGED output
      BY <1>4, <2>3 DEF WorkerOpenGroup
    <3> QED
      BY <2>1, <3>1 DEF QuietOutput, output
  <2> QED
    BY <2>2, <2>3
<1>5. CASE WorkerSummary
  BY <1>5, SummaryOut DEF LineOf, WorkerSummary
<1>6. CASE WorkerPeriodic \/ WorkerBarrier \/ WorkerDrained
  BY <1>6 DEF WorkerPeriodic, WorkerBarrier, WorkerDrained, QuietOutput, output
<1>7. CASE \/ WorkerTop \/ WorkerTake \/ WorkerWake \/ WorkerMerge \/ WorkerSignal
           \/ WorkerShutdown \/ WorkerClosed \/ WorkerFail \/ WorkerBury \/ WorkerDropped
           \/ WorkerFault \/ \E k \in Keys : WorkerDropGroup(k)
  <2>1. UNCHANGED output /\ counters' = counters
    BY <1>7 DEF WorkerTop, WorkerTake, WorkerWake, WorkerMerge, WorkerSignal, WorkerShutdown,
                WorkerClosed, WorkerFail, WorkerBury, WorkerDropped, WorkerFault, WorkerError,
                WorkerPanic, WorkerDropGroup, DiscardedByDrop, perInstance, TakeBalances
  <2> QED
    BY <2>1 DEF QuietOutput, output
<1> QED
  BY <1>1, <1>3, <1>4, <1>5, <1>6, <1>7 DEF Next, WorkerStep
-----------------------------------------------------------------------------
(* Numbers and events, each in one place *)

\* A locked section that queues summaries (`flush`, `shutdown`, the worker's two).
Requesting ==
    \/ \E c \in Clients : FlushBegin(c) \/ (ShutdownBegin(c) /\ health = "open")
    \/ WorkerTake \/ WorkerShutdown

\* It adds to what is on its way one summary of each instance that is due, and nothing else.
LEMMA RequestTransit ==
  ASSUME IndInv, NEW K, NEW I, Tallies(K, I), Requesting
  PROVE  \E due \in SUBSET Instances :
            /\ TakeBalances(due) /\ Cardinality(due) \in Nat /\ UNCHANGED output
            /\ NextInTransit(K, I) = InTransit(K, I) + Served(K, due)
<1> USE DEF IndInv
<1> DEFINE Goal(due) == /\ TakeBalances(due) /\ Cardinality(due) \in Nat /\ UNCHANGED output
                        /\ NextInTransit(K, I) = InTransit(K, I) + Served(K, due)
<1>1. ASSUME NEW c \in Clients, FlushBegin(c) PROVE Goal(Owing)
  <2>1. PICK order \in Ascending(Owing) :
          queue' = Append(queue \o SummaryItems(order), Barrier(nextBarrier'))
    BY <1>1 DEF FlushBegin
  <2>2. Barrier(nextBarrier') \in BarrierType
    BY <1>1 DEF FlushBegin, Barrier, BarrierType, TypeOK, AdmissionTypes
  <2>3. UNCHANGED <<worker, groups>> /\ UNCHANGED output /\ TakeBalances(Owing)
    BY <1>1 DEF FlushBegin
  <2>4. NextHandHas(K) = HandHas(K)
    BY <2>3 DEF NextHandHas, HandHas
  <2>5. Cardinality(Owing) \in Nat
    BY <2>1, OwingInstances, SummariesAre
  <2>6. NextInTransit(K, I) = InTransit(K, I) + Served(K, Owing)
    BY <2>1, <2>2, <2>3, <2>4, OwingInstances, ControlTransit
  <2> QED
    BY <2>3, <2>5, <2>6
<1>2. ASSUME NEW c \in Clients, ShutdownBegin(c), health = "open" PROVE Goal(Owing)
  <2>1. PICK order \in Ascending(Owing) : queue' = Append(queue \o SummaryItems(order), Shutdown)
    BY <1>2 DEF ShutdownBegin
  <2>2. UNCHANGED <<worker, groups>> /\ UNCHANGED output /\ TakeBalances(Owing)
    BY <1>2 DEF ShutdownBegin
  <2>3. NextHandHas(K) = HandHas(K)
    BY <2>2 DEF NextHandHas, HandHas
  <2>4. Cardinality(Owing) \in Nat
    BY <2>1, OwingInstances, SummariesAre
  <2>5. NextInTransit(K, I) = InTransit(K, I) + Served(K, Owing)
    BY <2>1, <2>2, <2>3, OwingInstances, ControlTransit
  <2> QED
    BY <2>2, <2>4, <2>5
<1>3. ASSUME WorkerTake PROVE \E due \in SUBSET Instances : Goal(due)
  <2>1. PICK due \in SUBSET (IF health = "open" THEN Owing ELSE {}) :
          /\ TakeBalances(due)
          /\ \E order \in Ascending(due) : TakeNext(queue \o SummaryItems(order))
    BY <1>3 DEF WorkerTake
  <2>2. due \in SUBSET Instances
    BY DEF Owing
  <2>3. PICK order \in Ascending(due) : TakeNext(queue \o SummaryItems(order))
    BY <2>1
  <2>4. worker.pc # "item" /\ UNCHANGED groups /\ UNCHANGED output
    BY <1>3 DEF WorkerTake
  <2>5. Cardinality(due) \in Nat
    BY <2>2, <2>3, SummariesAre
  <2>6. NextInTransit(K, I) = InTransit(K, I) + Served(K, due)
    BY <2>2, <2>3, <2>4, TakeTransit
  <2> QED
    BY <2>1, <2>2, <2>4, <2>5, <2>6
<1>4. ASSUME WorkerShutdown PROVE Goal(Owing)
  <2>1. PICK order \in Ascending(Owing) :
          LET items == queue \o SummaryItems(order) IN
          \/ queue' = Append(items, Shutdown) /\ Goto("top")
          \/ items = <<>> /\ UNCHANGED queue /\ Goto("draining")
    BY <1>4 DEF WorkerShutdown, FinalBalances, Remains
  <2>2. UNCHANGED groups /\ UNCHANGED output /\ TakeBalances(Owing)
    BY <1>4 DEF WorkerShutdown, FinalBalances
  <2>3. HandHas(K) = 0
    <3>1. worker.pc = "item" => worker.item.kind = "shutdown"
      BY <1>4 DEF WorkerShutdown, HandlingA
    <3> QED
      BY <3>1 DEF HandHas, Tallies, EventType, SummaryType
  <2>4. NextHandHas(K) = 0
    BY <2>1 DEF Goto, At, NextHandHas
  <2>5. Cardinality(Owing) \in Nat
    BY OwingInstances, SummariesAre
  <2>6. CASE queue' = Append(queue \o SummaryItems(order), Shutdown)
    <3>1. NextInTransit(K, I) = InTransit(K, I) + Served(K, Owing)
      BY <2>2, <2>3, <2>4, <2>6, OwingInstances, ControlTransit
    <3> QED
      BY <2>2, <2>5, <3>1
  <2>7. CASE queue \o SummaryItems(order) = <<>> /\ UNCHANGED queue
    <3>1. queue = queue \o SummaryItems(order)
      BY <2>7 DEF TypeOK, AdmissionTypes
    <3>2. /\ Served(K, Owing) \in Nat
          /\ Cardinality(Places(queue \o SummaryItems(order), K))
               = Cardinality(Places(queue, K)) + Served(K, Owing)
      BY OwingInstances, SummariesPlaced
    <3>3. Cardinality(Places(queue, K)) = Cardinality(Places(queue, K)) + Served(K, Owing)
      BY <3>1, <3>2
    <3>4. /\ Cardinality(Places(queue, K)) \in Nat /\ Grouped(groups, I) \in Nat
      BY TransitNatural
    <3>5. Served(K, Owing) = 0
      BY <3>2, <3>3, <3>4
    <3>6. NextInTransit(K, I) = InTransit(K, I) + Served(K, Owing)
      BY <2>2, <2>3, <2>4, <2>7, <3>4, <3>5 DEF NextInTransit, InTransit
    <3> QED
      BY <2>2, <2>5, <3>6
  <2> QED
    BY <2>1, <2>6, <2>7
<1> HIDE DEF Goal
<1>5. \E due \in SUBSET Instances : Goal(due)
  BY <1>1, <1>2, <1>3, <1>4, OwingInstances DEF Requesting
<1> QED
  BY <1>5 DEF Goal

\* A summary that is written leaves the hands of the worker.
LEMMA SummaryTransit ==
  ASSUME IndInv, NEW K, NEW I, Tallies(K, I), WorkerSummary
  PROVE  /\ worker.item \in SummaryType
         /\ InTransit(K, I) = NextInTransit(K, I) + IF worker.item \in K THEN 1 ELSE 0
<1>1. worker.item \in SummaryType /\ worker.pc = "item" /\ UNCHANGED <<queue, groups>>
  BY InHandTypes DEF WorkerSummary, HandlingA, IndInv, admission
<1>2. NextHandHas(K) = 0 /\ HandHas(K) = IF worker.item \in K THEN 1 ELSE 0
  BY <1>1 DEF WorkerSummary, Goto, At, NextHandHas, HandHas
<1>3. Cardinality(Places(queue, K)) \in Nat /\ Grouped(groups, I) \in Nat
  BY TransitNatural DEF IndInv
<1> QED
  BY <1>1, <1>2, <1>3 DEF NextInTransit, InTransit

\* The worker's hand after `finish`: what it was, which is not the group's event.
LEMMA FinishHand ==
  ASSUME IndInv, NEW k \in Keys, WorkerFinish(k), NEW K
  PROVE  NextHandHas(K) = HandHas(K)
<1>1. worker.pc \in {"expire", "item", "draining"}
  BY DEF WorkerFinish, MustFinish, HandlingA
<1>2. worker \in WorkerAt
  BY <1>1 DEF IndInv, TypeOK, WorkerTypes, WorkerType, WorkerAt
<1> QED
  BY <1>2 DEF WorkerFinish, WorkerAt, NextHandHas, HandHas

\* The numbered items, and the weights of lines: the numbers, or the events, they stand for.
NumberedItems == EventType \cup SummaryType
EventsOf(i) == {e \in EventType : e.instance = i}
NumbersOf == [line \in LineType |-> Numbers(line)]
EventsIn  == [line \in LineType |-> Occurrences(line)]

\* All the numbered items are tallied: events of any instance, and summaries.
LEMMA AllTallies == Tallies(NumberedItems, Instances) /\ SummaryType \subseteq NumberedItems
  BY DEF Tallies, NumberedItems, EventType

\* The accepted events of an instance are tallied, and no summary among them.
LEMMA InstanceTallies ==
  ASSUME NEW i \in Instances
  PROVE  Tallies(EventsOf(i), {i}) /\ ~(SummaryType \subseteq EventsOf(i))
<1>1. SummaryType \cap EventsOf(i) = {}
  BY DEF EventsOf, EventType, SummaryType
<1> QED
  BY <1>1, SomeSummary DEF Tallies, EventsOf

\* The weights are functions to natural numbers.
LEMMA WeightTypes == NumbersOf \in [LineType -> Nat] /\ EventsIn \in [LineType -> Nat]
  BY DEF NumbersOf, EventsIn, Numbers, Occurrences, LineType

\* There are finitely many lines, as each step writes at most one.
FilesFinite == IsFiniteSet(PositionsOf(files))
\* Until a failure, a number is queued, in hand, in a group or in a line.
NumbersPlaced ==
    ~Failing => sequence = InTransit(NumberedItems, Instances) + Weighed(files, NumbersOf)
\* ... and an accepted event is queued, in hand, in a group, written or confirmed.
EventsPlaced ==
    ~Failing => \A i \in Instances :
        counters[i].accepted = counters[i].written + unconfirmed[i].occurrences
                               + InTransit(EventsOf(i), {i})

\* A line adds its weight.
LEMMA LineWeighs ==
  ASSUME IndInv, FilesFinite, NEW path \in Paths, NEW line \in LineType,
         LineAdded(files, files', path, line), NEW W \in [LineType -> Nat]
  PROVE  /\ Weighed(files', W) = Weighed(files, W) + W[line]
         /\ Weighed(files, W) \in Nat /\ W[line] \in Nat /\ IsFiniteSet(PositionsOf(files'))
<1>1. FilesOf(files) /\ IsFiniteSet(PositionsOf(files))
  BY DEF IndInv, TypeOK, OutputTypes, FilesFinite, FilesOf
<1>2. Weighed(files', W) = Weighed(files, W) + W[line] /\ IsFiniteSet(PositionsOf(files'))
  BY <1>1, WeighedAppends
<1>3. Weighed(files, W) \in Nat
  BY <1>1, LinesSummable
<1> QED
  BY <1>2, <1>3

\* The weight of all the lines is a natural number.
LEMMA WeighedNatural ==
  ASSUME IndInv, FilesFinite, NEW W \in [LineType -> Nat]
  PROVE  Weighed(files, W) \in Nat
  BY LinesSummable DEF IndInv, TypeOK, OutputTypes, FilesFinite, FilesOf

\* A step writes one line at most, so there are finitely many lines.
LEMMA FilesFiniteStep == IndInv /\ FilesFinite /\ [Next]_vars => FilesFinite'
<1> SUFFICES ASSUME IndInv, FilesFinite, [Next]_vars PROVE FilesFinite'
  OBVIOUS
<1>1. CASE \E path \in Paths, line \in LineType : LineOut(path, line)
  BY <1>1, LineWeighs, WeightTypes DEF LineOut, FilesFinite
<1>2. CASE FlushOutput \/ QuietOutput
  <2>1. UNCHANGED files
    BY <1>2 DEF FlushOutput, QuietOutput, output
  <2> QED
    BY <2>1 DEF FilesFinite
<1> QED
  BY <1>1, <1>2, OutputMoves

\* What is in transit after a step is a natural number too.
LEMMA NextTransitNatural ==
  ASSUME IndInv', NEW K, NEW I
  PROVE  NextInTransit(K, I) \in Nat
<1>1. queue' \in Seq(ItemType) /\ GroupsOf(groups')
  BY DEF IndInv, TypeOK, AdmissionTypes, WorkerTypes, GroupsOf
<1>2. Cardinality(Places(queue', K)) \in Nat /\ Grouped(groups', I) \in Nat
  BY <1>1, PlacesFinite, GroupedNatural
<1> QED
  BY <1>2 DEF NextInTransit, NextHandHas

\* Every step that is not a failure keeps the account of the numbers.
LEMMA NumbersPlacedStep ==
  ASSUME IndInv, IndInv', Lifecycle, FilesFinite, NumbersPlaced, [Next]_vars, ~Failing'
  PROVE  sequence' = NextInTransit(NumberedItems, Instances) + Weighed(files', NumbersOf)
<1> DEFINE K == NumberedItems
           I == Instances
           W == NumbersOf
           Placed == sequence' = NextInTransit(K, I) + Weighed(files', W)
<1>1. sequence = InTransit(K, I) + Weighed(files, W)
  BY FailurePublishedStep DEF NumbersPlaced
<1>2. /\ InTransit(K, I) \in Nat /\ Weighed(files, W) \in Nat /\ sequence \in Nat
      /\ NextInTransit(K, I) \in Nat
  BY TransitNatural, NextTransitNatural, WeighedNatural, WeightTypes DEF IndInv, TypeOK, AdmissionTypes
<1>3. ASSUME ~Moving PROVE Placed
  <2>1. UNCHANGED <<queue, groups, files, sequence>> /\ NextHandHas(K) = HandHas(K)
    BY <1>3, OthersMoveNothing DEF NumberedItems
  <2> QED
    BY <1>1, <2>1 DEF NextInTransit, InTransit
<1>4. ASSUME NEW p \in Producers, EmitAccept(p) PROVE Placed
  <2>1. producer[p].instance \in Instances /\ UNCHANGED files /\ sequence' = sequence + 1
    BY <1>4 DEF EmitAccept, IndInv, TypeOK, ThreadTypes, ProducerType, output
  <2>2. NextInTransit(K, I) = InTransit(K, I) + 1
    BY <1>4, <2>1, AcceptTransit, AllTallies
  <2> HIDE DEF K, I, W
  <2> QED
    BY <1>1, <1>2, <2>1, <2>2
<1>5. ASSUME Requesting PROVE Placed
  <2>1. PICK due \in SUBSET Instances :
            /\ TakeBalances(due) /\ Cardinality(due) \in Nat /\ UNCHANGED output
            /\ NextInTransit(K, I) = InTransit(K, I) + Served(K, due)
    BY <1>5, RequestTransit, AllTallies
  <2>2. Served(K, due) = Cardinality(due)
    BY AllTallies DEF Served
  <2>3. sequence' = sequence + Cardinality(due) /\ UNCHANGED files
    BY <2>1 DEF TakeBalances, output
  <2> HIDE DEF K, I, W
  <2> QED
    BY <1>1, <1>2, <2>1, <2>2, <2>3
<1>6. ASSUME NEW k \in DOMAIN groups, WriteGroup(groups[k]), UNCHANGED <<sequence, counters>>,
             InTransit(K, I) = NextInTransit(K, I) + Share(groups, k, I)
      PROVE  Placed
  <2> DEFINE line == GroupLine(groups[k])
             path == PathOf(groups[k].first)
  <2>1. path \in Paths /\ line \in LineType /\ LineAdded(files, files', path, line)
    BY <1>6, GroupOut DEF LineOut
  <2>2. W[line] = Share(groups, k, I) /\ k \in Keys
    BY <2>1 DEF NumbersOf, Numbers, GroupLine, Share, Keys, IndInv, TypeOK, WorkerTypes
  <2> HIDE DEF line, path
  <2>3. Weighed(files', W) = Weighed(files, W) + W[line] /\ W[line] \in Nat
    BY <2>1, LineWeighs, WeightTypes
  <2> HIDE DEF K, I, W
  <2> QED
    BY <1>1, <1>2, <1>6, <2>2, <2>3
<1>7. ASSUME NEW k \in Keys, WorkerFinish(k) PROVE Placed
  <2>1. k \in DOMAIN groups /\ InTransit(K, I) = NextInTransit(K, I) + Share(groups, k, I)
    BY <1>7, FinishHand, FinishTransit
  <2>2. WriteGroup(groups[k]) /\ UNCHANGED <<sequence, counters>>
    BY <1>7 DEF WorkerFinish, perInstance
  <2> QED
    BY <1>6, <2>1, <2>2
<1>8. ASSUME WorkerOpenGroup PROVE Placed
  <2> DEFINE k == KeyOf(worker.item)
  <2>1. UNCHANGED <<sequence, counters>>
    BY <1>8 DEF WorkerOpenGroup, perInstance
  <2>2. InTransit(K, I) = NextInTransit(K, I) + IF k \in DOMAIN groups THEN Share(groups, k, I) ELSE 0
    BY <1>8, OpenTransit, AllTallies
  <2> HIDE DEF K, I, W
  <2>3. CASE k \in DOMAIN groups
    <3>1. WriteGroup(groups[k])
      BY <1>8, <2>3 DEF WorkerOpenGroup
    <3> QED
      BY <1>6, <2>1, <2>2, <2>3, <3>1
  <2>4. CASE k \notin DOMAIN groups
    <3>1. UNCHANGED files
      BY <1>8, <2>4 DEF WorkerOpenGroup, output
    <3> QED
      BY <1>1, <1>2, <2>1, <2>2, <2>4, <3>1
  <2> QED
    BY <2>3, <2>4
<1>9. ASSUME WorkerMerge PROVE Placed
  <2>1. NextInTransit(K, I) = InTransit(K, I)
    BY <1>9, MergeTransit, AllTallies
  <2>2. UNCHANGED <<sequence, files>>
    BY <1>9 DEF WorkerMerge, output
  <2> QED
    BY <1>1, <2>1, <2>2
<1>10. ASSUME WorkerSummary PROVE Placed
  <2> DEFINE s == worker.item
             path == <<s.instance, MainDestination, s.hour>>
             line == SummaryLine(s)
  <2>1. s \in SummaryType /\ path \in Paths /\ line \in LineType /\ LineAdded(files, files', path, line)
    BY <1>10, SummaryOut DEF LineOut
  <2>2. InTransit(K, I) = NextInTransit(K, I) + 1
    BY <1>10, <2>1, SummaryTransit, AllTallies
  <2>3. W[line] = 1
    BY <2>1 DEF NumbersOf, Numbers, SummaryLine
  <2>4. UNCHANGED sequence
    BY <1>10 DEF WorkerSummary, admission
  <2> HIDE DEF line, path
  <2>5. Weighed(files', W) = Weighed(files, W) + W[line]
    BY <2>1, LineWeighs, WeightTypes
  <2> HIDE DEF K, I, W
  <2> QED
    BY <1>1, <1>2, <2>2, <2>3, <2>4, <2>5
<1>11. Placed
  BY <1>3, <1>4, <1>5, <1>7, <1>8, <1>9, <1>10 DEF Moving, Requesting
<1> QED
  BY <1>11

\* Every step that is not a failure keeps the account of the events: the counters of
\* what is accepted and confirmed move with them.
LEMMA EventsPlacedStep ==
  ASSUME IndInv, IndInv', Order, Lifecycle, EventsPlaced, [Next]_vars, ~Failing', NEW i \in Instances
  PROVE  counters'[i].accepted = counters'[i].written + unconfirmed'[i].occurrences
                                 + NextInTransit(EventsOf(i), {i})
<1> DEFINE K == EventsOf(i)
           I == {i}
           Placed == counters'[i].accepted
                       = counters'[i].written + unconfirmed'[i].occurrences + NextInTransit(K, I)
<1>0. Tallies(K, I)
  BY InstanceTallies
<1>1. counters[i].accepted = counters[i].written + unconfirmed[i].occurrences + InTransit(K, I)
  BY FailurePublishedStep DEF EventsPlaced
<1>2. /\ InTransit(K, I) \in Nat /\ NextInTransit(K, I) \in Nat
      /\ counters[i].accepted \in Nat /\ counters[i].written \in Nat
      /\ unconfirmed[i].occurrences \in Nat
      /\ counters \in [Instances -> CounterType]
      /\ unconfirmed \in [Instances -> [occurrences : Nat, lines : Nat, overload : Nat]]
  BY TransitNatural, NextTransitNatural DEF IndInv, TypeOK, InstanceTypes, OutputTypes, CounterType
<1>3. ASSUME UNCHANGED <<counters, unconfirmed>>, NextInTransit(K, I) = InTransit(K, I) PROVE Placed
  BY <1>1, <1>3
<1>4. ASSUME ~Moving PROVE Placed
  <2>1. NextInTransit(K, I) = InTransit(K, I)
    <3>1. UNCHANGED <<queue, groups>> /\ NextHandHas(K) = HandHas(K)
      BY <1>4, OthersMoveNothing DEF EventsOf
    <3> QED
      BY <3>1 DEF NextInTransit, InTransit
  <2>2. /\ counters'[i].accepted = counters[i].accepted
        /\ counters'[i].written + unconfirmed'[i].occurrences
             = counters[i].written + unconfirmed[i].occurrences
    <3>1. CASE ProducerStep
      <4>1. PICK j \in Instances :
              \/ \E reason \in Reasons : counters' = [counters EXCEPT ![j].refused[reason] = @ + 1]
              \/ counters' = [counters EXCEPT ![j].filtered = @ + 1]
              \/ counters' = counters
        <5>1. ASSUME NEW j \in Instances, NEW reason \in Reasons, Refusal(j, reason)
              PROVE  counters' = [counters EXCEPT ![j].refused[reason] = @ + 1]
          BY <5>1 DEF Refusal
        <5>2. CASE \/ \E p \in Producers, j \in Instances : EmitRefused(p, j) \/ EmitTooLarge(p, j)
                   \/ \E j \in Instances : TracingRefuse(j)
          <6>1. \E j \in Instances, reason \in Reasons : Refusal(j, reason)
            BY <5>2 DEF EmitRefused, EmitTooLarge, TracingRefuse, AdmissionRefusal, Reasons
          <6> QED
            BY <5>1, <6>1
        <5>3. CASE \E p \in Producers : EmitAbandon(p)
          <6>1. \E j \in Instances, reason \in Reasons : Refusal(j, reason)
            BY <5>3 DEF EmitAbandon, AdmissionRefusal, Reasons, IndInv, TypeOK, ThreadTypes, ProducerType
          <6> QED
            BY <5>1, <6>1
        <5>4. CASE \E p \in Producers, j \in Instances : EmitFiltered(p, j)
          BY <5>4 DEF EmitFiltered
        <5>5. CASE \/ \E p \in Producers : DropPermit(p)
                   \/ \E p \in Producers, j \in Instances, d \in Destinations, c \in Contents :
                          EmitReserve(p, j, d, c)
          BY <5>5 DEF DropPermit, EmitReserve, perInstance
        <5> QED
          BY <1>4, <3>1, <5>2, <5>3, <5>4, <5>5 DEF ProducerStep, Moving
      <4>2. counters'[i].accepted = counters[i].accepted /\ counters'[i].written = counters[i].written
        <5>1. ASSUME NEW reason \in Reasons, counters' = [counters EXCEPT ![j].refused[reason] = @ + 1]
              PROVE  counters'[i].accepted = counters[i].accepted /\ counters'[i].written = counters[i].written
          BY <1>2, <5>1 DEF CounterType
        <5>2. ASSUME counters' = [counters EXCEPT ![j].filtered = @ + 1]
              PROVE  counters'[i].accepted = counters[i].accepted /\ counters'[i].written = counters[i].written
          BY <1>2, <5>2 DEF CounterType
        <5> QED
          BY <4>1, <5>1, <5>2
      <4>3. UNCHANGED unconfirmed
        BY <1>4, <3>1 DEF ProducerStep, Moving, EmitReserve, EmitRefused, EmitTooLarge, EmitFiltered,
           EmitAbandon, DropPermit, TracingRefuse, output
      <4> QED
        BY <4>2, <4>3
    <3>2. CASE ~ProducerStep
      <4>1. FlushOutput \/ UNCHANGED <<counters, unconfirmed>>
        BY <1>4, <3>2 DEF Moving, Next, ClientStep, FlushRefused, FlushWake, ShutdownBegin,
           ShutdownReturn, WallClock, vars, output, perInstance, WorkerStep, WorkerTop,
           WorkerPeriodic, WorkerWake, WorkerBarrier, WorkerSignal, WorkerDrained, WorkerClosed,
           WorkerFail, WorkerBury, WorkerDropped, WorkerDropGroup, DiscardedByDrop, WorkerFault,
           WorkerError, WorkerPanic
      <4>2. CASE FlushOutput
        <5>1. CASE unconfirmed = [j \in Instances |-> NothingUnconfirmed]
          BY <4>2, <5>1 DEF FlushOutput, output
        <5>2. CASE unconfirmed # [j \in Instances |-> NothingUnconfirmed]
          <6>1. /\ counters'[i] = [counters[i] EXCEPT !.written = @ + unconfirmed[i].occurrences,
                                                      !.lines = @ + unconfirmed[i].lines,
                                                      !.reported = @ + unconfirmed[i].overload]
                /\ unconfirmed'[i] = NothingUnconfirmed
            BY <4>2, <5>2 DEF FlushOutput
          <6>2. counters[i] \in CounterType
            BY <1>2
          <6>3. /\ counters'[i].accepted = counters[i].accepted
                /\ counters'[i].written = counters[i].written + unconfirmed[i].occurrences
                /\ unconfirmed'[i].occurrences = 0
            BY <6>1, <6>2 DEF CounterType, NothingUnconfirmed
          <6> QED
            BY <1>2, <6>3
        <5> QED
          BY <5>1, <5>2
      <4> QED
        BY <4>1, <4>2
    <3> QED
      BY <3>1, <3>2
  <2> HIDE DEF K, I
  <2> QED
    BY <1>1, <2>1, <2>2
<1>5. ASSUME NEW p \in Producers, EmitAccept(p) PROVE Placed
  <2> DEFINE j == producer[p].instance
  <2>1. j \in Instances /\ counters' = [counters EXCEPT ![j].accepted = @ + 1] /\ UNCHANGED unconfirmed
    BY <1>5 DEF EmitAccept, IndInv, TypeOK, ThreadTypes, ProducerType, output
  <2>2. NextInTransit(K, I) = InTransit(K, I) + IF j \in I THEN 1 ELSE 0
    BY <1>0, <1>5, AcceptTransit
  <2>3. /\ counters'[i].accepted = counters[i].accepted + IF j = i THEN 1 ELSE 0
        /\ counters'[i].written = counters[i].written
    BY <1>2, <2>1 DEF CounterType
  <2>4. j \in I <=> j = i
    OBVIOUS
  <2> HIDE DEF K, I, j
  <2> QED
    BY SMTT(30), <1>1, <1>2, <2>1, <2>2, <2>3, <2>4
<1>6. ASSUME Requesting PROVE Placed
  <2>1. PICK due \in SUBSET Instances :
            /\ TakeBalances(due) /\ Cardinality(due) \in Nat /\ UNCHANGED output
            /\ NextInTransit(K, I) = InTransit(K, I) + Served(K, due)
    BY <1>0, <1>6, RequestTransit
  <2>2. Served(K, due) = 0
    BY InstanceTallies DEF Served
  <2>3. UNCHANGED <<counters, unconfirmed>>
    BY <2>1 DEF TakeBalances, output
  <2> HIDE DEF K, I
  <2>4. NextInTransit(K, I) = InTransit(K, I)
    BY <1>2, <2>1, <2>2
  <2> QED
    BY <1>3, <2>3, <2>4
<1>7. ASSUME NEW k \in DOMAIN groups, WriteGroup(groups[k]), UNCHANGED counters,
             KeyOf(groups[k].first) = k,
             InTransit(K, I) = NextInTransit(K, I) + Share(groups, k, I)
      PROVE  Placed
  <2>1. k[1] = groups[k].first.instance /\ groups[k].count \in Nat
    BY <1>7 DEF KeyOf, IndInv, TypeOK, WorkerTypes
  <2>2. unconfirmed'[i].occurrences = unconfirmed[i].occurrences + IF k[1] = i THEN groups[k].count ELSE 0
    <3>1. unconfirmed' = [unconfirmed EXCEPT ![k[1]].occurrences = @ + groups[k].count,
                                             ![k[1]].lines = @ + 1]
      BY <1>7, <2>1 DEF WriteGroup
    <3>2. k[1] \in Instances
      BY DEF Keys, IndInv, TypeOK, WorkerTypes
    <3> QED
      BY <1>2, <2>1, <3>1, <3>2
  <2>3. Share(groups, k, I) = IF k[1] = i THEN groups[k].count ELSE 0
    BY DEF Share
  <2> HIDE DEF K, I
  <2> QED
    BY <1>1, <1>2, <1>7, <2>1, <2>2, <2>3
<1>8. ASSUME NEW k \in Keys, WorkerFinish(k) PROVE Placed
  <2>1. k \in DOMAIN groups /\ InTransit(K, I) = NextInTransit(K, I) + Share(groups, k, I)
    BY <1>8, FinishHand, FinishTransit
  <2>2. WriteGroup(groups[k]) /\ UNCHANGED counters
    BY <1>8 DEF WorkerFinish, perInstance
  <2>3. KeyOf(groups[k].first) = k
    BY <2>1 DEF Order, OutputInOrder, GroupsBehind
  <2> QED
    BY <1>7, <2>1, <2>2, <2>3
<1>9. ASSUME WorkerOpenGroup PROVE Placed
  <2> DEFINE k == KeyOf(worker.item)
  <2>1. UNCHANGED counters
    BY <1>9 DEF WorkerOpenGroup, perInstance
  <2>2. InTransit(K, I) = NextInTransit(K, I) + IF k \in DOMAIN groups THEN Share(groups, k, I) ELSE 0
    BY <1>0, <1>9, OpenTransit
  <2> HIDE DEF K, I
  <2>3. CASE k \in DOMAIN groups
    <3>1. WriteGroup(groups[k])
      BY <1>9, <2>3 DEF WorkerOpenGroup
    <3>2. KeyOf(groups[k].first) = k
      BY <2>3 DEF Order, OutputInOrder, GroupsBehind
    <3> HIDE DEF k
    <3> QED
      BY <1>7, <2>1, <2>2, <2>3, <3>1, <3>2
  <2>4. CASE k \notin DOMAIN groups
    <3>1. UNCHANGED unconfirmed
      BY <1>9, <2>4 DEF WorkerOpenGroup, output
    <3> QED
      BY <1>2, <1>3, <2>1, <2>2, <2>4, <3>1
  <2> QED
    BY <2>3, <2>4
<1>10. ASSUME WorkerMerge PROVE Placed
  <2>1. NextInTransit(K, I) = InTransit(K, I)
    BY <1>0, <1>10, MergeTransit
  <2>2. UNCHANGED <<counters, unconfirmed>>
    BY <1>10 DEF WorkerMerge, output, perInstance
  <2> QED
    BY <1>3, <2>1, <2>2
<1>11. ASSUME WorkerSummary PROVE Placed
  <2>1. /\ worker.item \in SummaryType
        /\ InTransit(K, I) = NextInTransit(K, I) + IF worker.item \in K THEN 1 ELSE 0
    BY <1>0, <1>11, SummaryTransit
  <2>2. worker.item \notin K
    BY <2>1 DEF EventsOf, SummaryType, EventType
  <2>3. UNCHANGED counters /\ unconfirmed'[i].occurrences = unconfirmed[i].occurrences
    <3>1. worker.item.instance \in Instances
      BY <2>1 DEF SummaryType
    <3>2. unconfirmed' = [unconfirmed EXCEPT ![worker.item.instance].lines = @ + 1,
                                             ![worker.item.instance].overload = @ + worker.item.count]
      BY <1>11 DEF WorkerSummary
    <3> QED
      BY <1>2, <1>11, <3>1, <3>2 DEF WorkerSummary
  <2> HIDE DEF K, I
  <2> QED
    BY <1>1, <1>2, <2>1, <2>2, <2>3
<1>12. Placed
  BY <1>4, <1>5, <1>6, <1>8, <1>9, <1>10, <1>11 DEF Moving, Requesting
<1> QED
  BY <1>12
-----------------------------------------------------------------------------
(* Confirmations *)

\* The lines flushed, and their weight.
FlushedOf(fs, du) == {n \in PositionsOf(fs) : n[2] <= du[n[1]]}
Durably(fs, du, W) == SumFunction([n \in FlushedOf(fs, du) |-> W[fs[n[1]][n[2]]]])

\* No file has more lines flushed than written, and one with fewer has work to confirm.
FlushedWithin ==
    /\ \A p \in Paths : durable[p] <= Len(files[p])
    /\ \A p \in Paths : durable[p] < Len(files[p]) => unconfirmed[p[1]].lines > 0

\* What is confirmed (C) and unconfirmed (U) of each instance is what the lines weigh,
\* and what is confirmed is flushed.
Confirms(C, U, fs, du, W) ==
    /\ SumFunction(C) + SumFunction(U) = Weighed(fs, W)
    /\ SumFunction(C) = Durably(fs, du, W)

AnyLine           == [line \in LineType |-> 1]
ConfirmedLines    == [i \in Instances |-> counters[i].lines]
UnconfirmedLines  == [i \in Instances |-> unconfirmed[i].lines]
ConfirmedEvents   == [i \in Instances |-> counters[i].written]
UnconfirmedEvents == [i \in Instances |-> unconfirmed[i].occurrences]
Confirmations ==
    /\ FlushedWithin
    /\ Confirms(ConfirmedLines, UnconfirmedLines, files, durable, AnyLine)
    /\ Confirms(ConfirmedEvents, UnconfirmedEvents, files, durable, EventsIn)

\* A number per instance can be summed.
Tally(C) == C \in [Instances -> Nat]

\* Such a tally has a sum, a natural number.
LEMMA TallySummable ==
  ASSUME NEW C, Tally(C)
  PROVE  Summable(C) /\ SumFunction(C) \in Nat /\ DOMAIN C = Instances
<1>1. IsFiniteSet(Instances)
  BY FS_Interval, InstancesAssumption DEF Instances
<1>2. Summable(C) /\ DOMAIN C = Instances
  BY <1>1 DEF Tally, Summable
<1> QED
  BY <1>2, SumNatural

\* A line that is written is unconfirmed.
LEMMA LineUnconfirmed ==
  ASSUME IndInv, FilesFinite, NEW path \in Paths, NEW line \in LineType,
         LineAdded(files, files', path, line), durable[path] <= Len(files[path]),
         NEW W \in [LineType -> Nat], NEW C, NEW U, NEW V, Tally(C), Tally(U), Tally(V),
         V[path[1]] = U[path[1]] + W[line], \A j \in Instances \ {path[1]} : V[j] = U[j],
         Confirms(C, U, files, durable, W)
  PROVE  Confirms(C, V, files', durable, W)
<1>1. path[1] \in Instances
  BY DEF Paths
<1>2. SumFunction(V) + U[path[1]] = SumFunction(U) + V[path[1]]
  <2> DEFINE i == path[1]
  <2>1. i \in DOMAIN U /\ DOMAIN V = DOMAIN U /\ V[i] \in Nat /\ \A j \in DOMAIN U \ {i} : V[j] = U[j]
    BY <1>1 DEF Tally
  <2>2. Summable(U)
    BY TallySummable
  <2> HIDE DEF i
  <2>3. SumFunction(V) + U[i] = SumFunction(U) + V[i]
    BY <2>1, <2>2, SumChanges
  <2> QED
    BY <2>3 DEF i
<1>3. Weighed(files', W) = Weighed(files, W) + W[line] /\ W[line] \in Nat /\ Weighed(files, W) \in Nat
  BY LineWeighs
<1>4. /\ SumFunction(C) \in Nat /\ SumFunction(U) \in Nat /\ SumFunction(V) \in Nat
      /\ U[path[1]] \in Nat
  BY <1>1, TallySummable DEF Tally
<1>5. SumFunction(C) + SumFunction(V) = Weighed(files', W)
  <2>1. SumFunction(V) + U[path[1]] = SumFunction(U) + (U[path[1]] + W[line])
    BY <1>2
  <2>2. SumFunction(V) = SumFunction(U) + W[line]
    BY SMTT(30), <1>3, <1>4, <2>1
  <2>3. SumFunction(C) + SumFunction(U) = Weighed(files, W)
    BY DEF Confirms
  <2> QED
    BY <1>3, <1>4, <2>2, <2>3
<1>6. Durably(files', durable, W) = Durably(files, durable, W)
  <2>1. FilesOf(files)
    BY DEF IndInv, TypeOK, OutputTypes, FilesOf
  <2>2. /\ PositionsOf(files') = PositionsOf(files) \cup {NewPosition(files, path)}
        /\ \A n \in PositionsOf(files) : files'[n[1]][n[2]] = files[n[1]][n[2]]
    BY <2>1, PositionsGrow
  <2>3. ~(NewPosition(files, path)[2] <= durable[NewPosition(files, path)[1]])
    <3>1. Len(files[path]) \in Nat /\ durable[path] \in Nat
      BY DEF IndInv, TypeOK, OutputTypes
    <3> QED
      BY <3>1 DEF NewPosition
  <2>4. FlushedOf(files', durable) = FlushedOf(files, durable)
    BY <2>2, <2>3 DEF FlushedOf
  <2>5. \A n \in FlushedOf(files, durable) : files'[n[1]][n[2]] = files[n[1]][n[2]]
    BY <2>2 DEF FlushedOf
  <2> QED
    BY <2>4, <2>5 DEF Durably
<1> QED
  BY <1>5, <1>6 DEF Confirms

\* A flush confirms all the lines.
LEMMA FlushConfirms ==
  ASSUME NEW fs, NEW du, NEW eu, \A n \in PositionsOf(fs) : n[2] <= eu[n[1]], NEW W,
         NEW C, NEW U, NEW D, NEW V, Tally(C), Tally(U), Tally(D), Tally(V),
         \A i \in Instances : D[i] = C[i] + U[i] /\ V[i] = 0,
         Confirms(C, U, fs, du, W)
  PROVE  Confirms(D, V, fs, eu, W)
<1>1. SumFunction(D) = SumFunction(C) + SumFunction(U)
  BY TallySummable, SumAdded
<1>2. SumFunction(V) = 0
  BY TallySummable, SumOfZeros
<1>3. FlushedOf(fs, eu) = PositionsOf(fs)
  BY DEF FlushedOf
<1>4. Durably(fs, eu, W) = Weighed(fs, W)
  BY <1>3 DEF Durably, Weighed
<1>5. SumFunction(D) \in Nat
  BY TallySummable
<1> QED
  BY <1>1, <1>2, <1>4, <1>5 DEF Confirms

\* The tallies of a state are natural numbers.
LEMMA Tallied ==
  ASSUME IndInv
  PROVE  /\ Tally(ConfirmedLines) /\ Tally(UnconfirmedLines)
         /\ Tally(ConfirmedEvents) /\ Tally(UnconfirmedEvents)
  BY DEF IndInv, TypeOK, InstanceTypes, OutputTypes, CounterType, Tally, ConfirmedLines,
         UnconfirmedLines, ConfirmedEvents, UnconfirmedEvents

\* No file has more lines flushed than written after a step either.
LEMMA FlushedWithinStep ==
  ASSUME IndInv, IndInv', FlushedWithin, [Next]_vars
  PROVE  FlushedWithin'
<1>0. /\ durable \in [Paths -> Nat] /\ files \in [Paths -> Seq(LineType)]
      /\ unconfirmed \in [Instances -> [occurrences : Nat, lines : Nat, overload : Nat]]
  BY DEF IndInv, TypeOK, OutputTypes
<1>1. CASE \E path \in Paths, line \in LineType : LineOut(path, line)
  <2>1. PICK path \in Paths, line \in LineType : LineOut(path, line)
    BY <1>1
  <2>2. ASSUME NEW p \in Paths
        PROVE  durable'[p] <= Len(files'[p]) /\ (durable'[p] < Len(files'[p]) => unconfirmed'[p[1]].lines > 0)
    <3>1. durable'[p] = durable[p] /\ durable[p] \in Nat /\ durable[p] <= Len(files[p])
      <4>1. durable' = durable
        BY <2>1 DEF LineOut
      <4> QED
        BY <1>0, <4>1 DEF FlushedWithin
    <3>2. Len(files[p]) \in Nat /\ p[1] \in Instances /\ path[1] \in Instances
      BY <1>0 DEF Paths
    <3>3. /\ unconfirmed[p[1]].lines \in Nat /\ unconfirmed[path[1]].lines \in Nat
          /\ durable[p] < Len(files[p]) => unconfirmed[p[1]].lines > 0
      <4>1. durable[p] < Len(files[p]) => unconfirmed[p[1]].lines > 0
        BY DEF FlushedWithin
      <4> QED
        BY <1>0, <3>2, <4>1
    <3>4. unconfirmed'[path[1]].lines = unconfirmed[path[1]].lines + 1
      BY <2>1 DEF LineOut
    <3>5. CASE p[1] = path[1]
      <4>1. Len(files'[p]) \in {Len(files[p]), Len(files[p]) + 1}
        BY <1>0, <2>1 DEF LineOut, LineAdded
      <4>2. unconfirmed'[p[1]].lines > 0
        BY <3>3, <3>4, <3>5
      <4> QED
        BY <3>1, <3>2, <4>1, <4>2
    <3>6. CASE p[1] # path[1]
      <4>1. files'[p] = files[p] /\ unconfirmed'[p[1]] = unconfirmed[p[1]]
        BY <1>0, <2>1, <3>2, <3>6 DEF LineOut, LineAdded
      <4> QED
        BY <3>1, <3>3, <4>1
    <3> QED
      BY <3>5, <3>6
  <2> QED
    BY <2>2 DEF FlushedWithin
<1>2. CASE FlushOutput
  <2>1. CASE unconfirmed = [i \in Instances |-> NothingUnconfirmed]
    BY <1>2, <2>1 DEF FlushOutput, output, FlushedWithin
  <2>2. CASE unconfirmed # [i \in Instances |-> NothingUnconfirmed]
    <3>1. files' = files /\ durable' = [p \in Paths |-> Len(files[p])]
      BY <1>2, <2>2 DEF FlushOutput
    <3>2. \A p \in Paths : Len(files[p]) \in Nat
      BY <1>0
    <3>3. \A p \in Paths : durable'[p] = Len(files[p])
      BY <3>1
    <3>4. \A p \in Paths : durable'[p] <= Len(files'[p]) /\ ~(durable'[p] < Len(files'[p]))
      BY <3>1, <3>2, <3>3
    <3> QED
      BY <3>4 DEF FlushedWithin
  <2> QED
    BY <2>1, <2>2
<1>3. CASE QuietOutput
  BY <1>3 DEF QuietOutput, FlushedWithin
<1> QED
  BY <1>1, <1>2, <1>3, OutputMoves

\* Every step keeps the confirmations exact, even after a failure.
LEMMA ConfirmationsStep ==
  ASSUME IndInv, IndInv', FilesFinite, Confirmations, [Next]_vars
  PROVE  Confirmations'
<1> DEFINE cl == ConfirmedLines
           ul == UnconfirmedLines
           ce == ConfirmedEvents
           ue == UnconfirmedEvents
           cl2 == ConfirmedLines'
           ul2 == UnconfirmedLines'
           ce2 == ConfirmedEvents'
           ue2 == UnconfirmedEvents'
           Done == /\ Confirms(cl2, ul2, files', durable', AnyLine)
                   /\ Confirms(ce2, ue2, files', durable', EventsIn)
<1>1. /\ Tally(cl) /\ Tally(ul) /\ Tally(ce) /\ Tally(ue)
  BY Tallied
<1>2. /\ Tally(cl2) /\ Tally(ul2) /\ Tally(ce2) /\ Tally(ue2)
  BY DEF IndInv, TypeOK, InstanceTypes, OutputTypes, CounterType, Tally, ConfirmedLines,
         UnconfirmedLines, ConfirmedEvents, UnconfirmedEvents
<1>3. /\ Confirms(cl, ul, files, durable, AnyLine) /\ Confirms(ce, ue, files, durable, EventsIn)
      /\ FlushedWithin
  BY DEF Confirmations
<1>4. AnyLine \in [LineType -> Nat] /\ EventsIn \in [LineType -> Nat]
  BY WeightTypes DEF AnyLine
<1>5. ASSUME NEW path \in Paths, NEW line \in LineType, LineOut(path, line) PROVE Done
  <2>1. /\ LineAdded(files, files', path, line) /\ UNCHANGED <<durable, counters>>
        /\ durable[path] <= Len(files[path]) /\ path[1] \in Instances
    <3>1. path[1] \in Instances
      BY DEF Paths
    <3>2. durable[path] <= Len(files[path])
      BY <1>3 DEF FlushedWithin
    <3> QED
      BY <1>5, <3>1, <3>2 DEF LineOut
  <2>2. cl2 = cl /\ ce2 = ce
    BY <2>1 DEF ConfirmedLines, ConfirmedEvents
  <2>3. /\ ul2[path[1]] = ul[path[1]] + AnyLine[line]
        /\ \A j \in Instances \ {path[1]} : ul2[j] = ul[j]
    BY <1>5, <2>1 DEF LineOut, UnconfirmedLines, AnyLine
  <2>4. /\ ue2[path[1]] = ue[path[1]] + EventsIn[line]
        /\ \A j \in Instances \ {path[1]} : ue2[j] = ue[j]
    BY <1>5, <2>1 DEF LineOut, UnconfirmedEvents, EventsIn
  <2> HIDE DEF cl, ul, ce, ue, cl2, ul2, ce2, ue2
  <2>5. Confirms(cl, ul2, files', durable, AnyLine)
    BY <1>1, <1>2, <1>3, <1>4, <2>1, <2>3, LineUnconfirmed
  <2>6. Confirms(ce, ue2, files', durable, EventsIn)
    BY <1>1, <1>2, <1>3, <1>4, <2>1, <2>4, LineUnconfirmed
  <2> QED
    BY <2>1, <2>2, <2>5, <2>6
<1>6. ASSUME UNCHANGED <<files, durable, unconfirmed>>,
             \A i \in Instances : counters'[i].written = counters[i].written
                                 /\ counters'[i].lines = counters[i].lines
      PROVE  Done
  <2>1. cl2 = cl /\ ul2 = ul /\ ce2 = ce /\ ue2 = ue
    BY <1>6 DEF ConfirmedLines, UnconfirmedLines, ConfirmedEvents, UnconfirmedEvents
  <2> HIDE DEF cl, ul, ce, ue, cl2, ul2, ce2, ue2
  <2> QED
    BY <1>3, <1>6, <2>1
<1>7. ASSUME FlushOutput, unconfirmed # [i \in Instances |-> NothingUnconfirmed] PROVE Done
  <2>1. /\ UNCHANGED files /\ durable' = [p \in Paths |-> Len(files[p])]
        /\ unconfirmed' = [i \in Instances |-> NothingUnconfirmed]
    BY <1>7 DEF FlushOutput
  <2>2. ASSUME NEW i \in Instances
        PROVE  /\ counters'[i].lines = counters[i].lines + unconfirmed[i].lines
               /\ counters'[i].written = counters[i].written + unconfirmed[i].occurrences
    <3>1. counters'[i] = [counters[i] EXCEPT !.written = @ + unconfirmed[i].occurrences,
                                             !.lines = @ + unconfirmed[i].lines,
                                             !.reported = @ + unconfirmed[i].overload]
      BY <1>7 DEF FlushOutput
    <3>2. counters[i] \in CounterType
      BY DEF IndInv, TypeOK, InstanceTypes
    <3> QED
      BY <3>1, <3>2 DEF CounterType
  <2>3. ASSUME NEW n \in PositionsOf(files) PROVE n[2] <= durable'[n[1]]
    <3>1. <<n[1], n[2]>> \in PositionsOf(files)
      BY PositionsAre
    <3>2. n[1] \in Paths /\ n[2] \in DOMAIN files[n[1]]
      BY <3>1, PositionsAre
    <3>3. DOMAIN files[n[1]] = 1..Len(files[n[1]])
      BY <3>2 DEF IndInv, TypeOK, OutputTypes
    <3> QED
      BY <2>1, <3>2, <3>3
  <2>4. \A i \in Instances : cl2[i] = cl[i] + ul[i] /\ ul2[i] = 0
    BY <2>1, <2>2 DEF ConfirmedLines, UnconfirmedLines, NothingUnconfirmed
  <2>5. \A i \in Instances : ce2[i] = ce[i] + ue[i] /\ ue2[i] = 0
    BY <2>1, <2>2 DEF ConfirmedEvents, UnconfirmedEvents, NothingUnconfirmed
  <2> HIDE DEF cl, ul, ce, ue, cl2, ul2, ce2, ue2
  <2>6. Confirms(cl2, ul2, files, durable', AnyLine)
    BY <1>1, <1>2, <1>3, <2>3, <2>4, FlushConfirms
  <2>7. Confirms(ce2, ue2, files, durable', EventsIn)
    BY <1>1, <1>2, <1>3, <2>3, <2>5, FlushConfirms
  <2> QED
    BY <2>1, <2>6, <2>7
<1>8. Done
  <2>1. CASE FlushOutput /\ unconfirmed = [i \in Instances |-> NothingUnconfirmed]
    <3>1. UNCHANGED <<files, durable, unconfirmed>> /\ UNCHANGED counters
      BY <2>1 DEF FlushOutput, output
    <3> QED
      BY <1>6, <3>1
  <2>2. CASE QuietOutput
    BY <1>6, <2>2 DEF QuietOutput
  <2> HIDE DEF Done
  <2> QED
    BY <1>5, <1>7, <2>1, <2>2, OutputMoves
<1> QED
  BY <1>3, <1>8, FlushedWithinStep DEF Confirmations
-----------------------------------------------------------------------------
(* The accounts hold in every reachable state *)

\* The number of accepted events never decreases.
LEMMA AcceptedGrows ==
  ASSUME IndInv, [Next]_vars, NEW i \in Instances
  PROVE  counters'[i].accepted >= counters[i].accepted
<1> DEFINE Grows == counters'[i].accepted >= counters[i].accepted
<1>0. counters \in [Instances -> CounterType] /\ counters[i].accepted \in Nat
  BY DEF IndInv, TypeOK, InstanceTypes, CounterType
<1>1. ASSUME NEW j \in Instances, NEW reason \in Reasons, Refusal(j, reason) PROVE Grows
  <2>1. counters' = [counters EXCEPT ![j].refused[reason] = @ + 1]
    BY <1>1 DEF Refusal
  <2>2. counters'[i].accepted = counters[i].accepted
    BY <1>0, <2>1 DEF CounterType
  <2> QED
    BY <1>0, <2>2
<1>2. ASSUME NEW j \in Instances, NEW p \in Producers, EmitFiltered(p, j)
      PROVE  Grows
  <2>1. counters' = [counters EXCEPT ![j].filtered = @ + 1]
    BY <1>2 DEF EmitFiltered
  <2>2. counters'[i].accepted = counters[i].accepted
    BY <1>0, <2>1 DEF CounterType
  <2> QED
    BY <1>0, <2>2
<1>3. ASSUME NEW p \in Producers, EmitAccept(p) PROVE Grows
  <2>1. counters' = [counters EXCEPT ![producer[p].instance].accepted = @ + 1]
    BY <1>3 DEF EmitAccept
  <2>2. counters'[i].accepted \in {counters[i].accepted, counters[i].accepted + 1}
    BY <1>0, <2>1 DEF CounterType
  <2> QED
    BY <1>0, <2>2
<1>4. ASSUME FlushOutput PROVE Grows
  <2>1. CASE UNCHANGED counters
    BY <1>0, <2>1
  <2>2. CASE counters' = [j \in Instances |->
                [counters[j] EXCEPT !.written = @ + unconfirmed[j].occurrences,
                                    !.lines = @ + unconfirmed[j].lines,
                                    !.reported = @ + unconfirmed[j].overload]]
    <3>1. counters'[i].accepted = counters[i].accepted
      BY <1>0, <2>2 DEF CounterType
    <3> QED
      BY <1>0, <3>1
  <2> QED
    BY <1>4, <2>1, <2>2 DEF FlushOutput
<1>5. ASSUME UNCHANGED counters PROVE Grows
  BY <1>0, <1>5
<1> HIDE DEF Grows
<1>6. ASSUME ProducerStep PROVE Grows
  <2>1. CASE \/ \E p \in Producers, j \in Instances : EmitRefused(p, j) \/ EmitTooLarge(p, j)
             \/ \E j \in Instances : TracingRefuse(j)
    <3>1. \E j \in Instances, reason \in Reasons : Refusal(j, reason)
      BY <2>1 DEF EmitRefused, EmitTooLarge, TracingRefuse, AdmissionRefusal, Reasons
    <3> QED
      BY <1>1, <3>1
  <2>2. CASE \E p \in Producers : EmitAbandon(p)
    <3>1. \E j \in Instances, reason \in Reasons : Refusal(j, reason)
      BY <2>2 DEF EmitAbandon, AdmissionRefusal, Reasons, IndInv, TypeOK, ThreadTypes, ProducerType
    <3> QED
      BY <1>1, <3>1
  <2>3. CASE \/ \E p \in Producers : DropPermit(p)
             \/ \E p \in Producers, j \in Instances, d \in Destinations, c \in Contents :
                    EmitReserve(p, j, d, c)
    BY <1>5, <2>3 DEF DropPermit, EmitReserve, perInstance
  <2> QED
    BY <1>2, <1>3, <1>6, <2>1, <2>2, <2>3 DEF ProducerStep
<1>7. ASSUME ClientStep \/ WallClock \/ UNCHANGED vars PROVE Grows
  BY <1>5, <1>7 DEF ClientStep, FlushBegin, FlushRefused, FlushWake, ShutdownBegin, ShutdownReturn,
     WallClock, vars, perInstance, TakeBalances
<1>8. ASSUME WorkerStep \/ WorkerFault PROVE Grows
  <2>1. FlushOutput \/ UNCHANGED counters
    BY <1>8 DEF WorkerStep, WorkerFault, WorkerTop, WorkerPeriodic, WorkerTake, WorkerWake,
       WorkerMerge, WorkerOpenGroup, WorkerSummary, WorkerBarrier, WorkerSignal, WorkerShutdown,
       WorkerDrained, WorkerClosed, WorkerFail, WorkerBury, WorkerDropped, WorkerFinish,
       WorkerDropGroup, WorkerError, WorkerPanic, TakeBalances, perInstance
  <2> QED
    BY <1>4, <1>5, <2>1
<1>9. Grows
  BY <1>6, <1>7, <1>8 DEF Next
<1> QED
  BY <1>9 DEF Grows

\* A step of the worker after which it is failing is one of those that fail, bury and drop.
LEMMA FailingSteps ==
  ASSUME IndInv, Lifecycle, WorkerStep \/ WorkerFault, Failing'
  PROVE  \/ WorkerFault \/ WorkerFail \/ WorkerBury \/ WorkerDropped
         \/ \E k \in Keys : WorkerDropGroup(k)
<1>1. CASE worker.pc \in {"burying", "dying", "exited"}
  BY <1>1, DyingSteps
<1>2. CASE worker.pc \in {"unwinding", "failing"}
  <2>1. MustFinish = {}
    BY <1>2 DEF MustFinish, HandlingA
  <2> QED
    BY <1>2, <2>1 DEF WorkerStep, WorkerTop, WorkerPeriodic, WorkerTake, WorkerWake, WorkerMerge,
       WorkerOpenGroup, WorkerSummary, WorkerBarrier, WorkerSignal, WorkerShutdown, WorkerDrained,
       WorkerClosed, WorkerFinish, HandlingA
<1>3. CASE worker.pc \notin {"burying", "dying", "exited", "unwinding", "failing"}
  <2>1. health # "failed"
    BY <1>3 DEF Lifecycle, DyingWhenFailed
  <2>2. ASSUME NEW k \in Keys, WorkerFinish(k) PROVE FALSE
    <3>1. worker.pc \in {"expire", "item", "draining"}
      BY <2>2 DEF WorkerFinish, MustFinish, HandlingA
    <3>2. worker \in WorkerAt
      BY <3>1 DEF IndInv, TypeOK, WorkerTypes, WorkerType, WorkerAt
    <3> QED
      BY <2>1, <2>2, <3>1, <3>2 DEF WorkerFinish, WorkerAt, Failing
  <2>3. ~WorkerBarrier
    BY <2>1 DEF WorkerBarrier, HandlingA, IndInv, TypeOK, WorkerTypes, WorkerType, Failing, admission
  <2> QED
    BY <1>3, <2>1, <2>2, <2>3 DEF WorkerStep, WorkerTop, WorkerPeriodic, WorkerTake, TakeNext,
       Handling, WorkerWake, WorkerMerge, WorkerOpenGroup, WorkerSummary, WorkerSignal,
       WorkerShutdown, WorkerDrained, WorkerClosed, Goto, At, Failing, admission
<1> QED
  BY <1>1, <1>2, <1>3

\* Once the worker is failing nothing is written or confirmed any more.
LEMMA FailingQuiet ==
  ASSUME IndInv, Lifecycle, [Next]_vars, Failing'
  PROVE  QuietOutput
<1>1. CASE ProducerStep \/ ClientStep \/ WallClock \/ UNCHANGED vars
  BY <1>1, CallersQuiet
<1>2. CASE WorkerStep \/ WorkerFault
  <2>1. UNCHANGED output /\ counters' = counters
    BY <1>2, FailingSteps DEF WorkerFault, WorkerError, WorkerPanic, WorkerFail, WorkerBury,
       WorkerDropped, WorkerDropGroup, DiscardedByDrop, perInstance
  <2> QED
    BY <2>1 DEF QuietOutput, output
<1> QED
  BY <1>1, <1>2 DEF Next

\* Also after a failure, no more events are written than were accepted.
WrittenWithin ==
    \A i \in Instances : counters[i].written + unconfirmed[i].occurrences <= counters[i].accepted

\* Until a failure this follows from where the events are; then nothing is written.
LEMMA WrittenWithinStep ==
  ASSUME IndInv, IndInv', Order, Lifecycle, EventsPlaced, WrittenWithin, [Next]_vars
  PROVE  WrittenWithin'
<1> SUFFICES ASSUME NEW i \in Instances
             PROVE  counters'[i].written + unconfirmed'[i].occurrences <= counters'[i].accepted
  BY DEF WrittenWithin
<1>1. /\ counters[i].written \in Nat /\ counters[i].accepted \in Nat
      /\ unconfirmed[i].occurrences \in Nat
      /\ counters'[i].written \in Nat /\ counters'[i].accepted \in Nat
      /\ unconfirmed'[i].occurrences \in Nat
  BY DEF IndInv, TypeOK, InstanceTypes, OutputTypes, CounterType
<1>2. CASE ~Failing'
  <2>1. counters'[i].accepted = counters'[i].written + unconfirmed'[i].occurrences
                                + NextInTransit(EventsOf(i), {i})
    BY <1>2, EventsPlacedStep
  <2>2. NextInTransit(EventsOf(i), {i}) \in Nat
    BY NextTransitNatural
  <2> QED
    BY <1>1, <2>1, <2>2
<1>3. CASE Failing'
  <2>1. counters'[i].written = counters[i].written /\ unconfirmed' = unconfirmed
    BY <1>3, FailingQuiet DEF QuietOutput
  <2>2. counters[i].written + unconfirmed[i].occurrences <= counters[i].accepted
    BY DEF WrittenWithin
  <2>3. counters'[i].accepted >= counters[i].accepted
    BY AcceptedGrows
  <2> QED
    BY <1>1, <2>1, <2>2, <2>3
<1> QED
  BY <1>2, <1>3

\* The accounts, which need the order of the groups and the steps of a failure.
Accounts == FilesFinite /\ NumbersPlaced /\ EventsPlaced /\ Confirmations /\ WrittenWithin

\* At the start there is nothing to account for.
LEMMA InitAccounts == Init => Accounts
<1> SUFFICES ASSUME Init PROVE Accounts
  OBVIOUS
<1>0. IndInv
  BY InitIndInv
<1>1. PositionsOf(files) = {}
  BY DEF Init, PositionsOf
<1>2. FilesFinite
  BY <1>1, FS_EmptySet DEF FilesFinite
<1>3. ASSUME NEW W PROVE Weighed(files, W) = 0 /\ Durably(files, durable, W) = 0
  <2>1. FlushedOf(files, durable) = {}
    BY <1>1 DEF FlushedOf
  <2> QED
    BY <1>1, <2>1, SumOfNone DEF Weighed, Durably
<1>4. ASSUME NEW K, NEW I PROVE InTransit(K, I) = 0
  <2>1. Places(queue, K) = {} /\ HandHas(K) = 0
    BY DEF Init, Places, HandHas, At
  <2>2. GroupsOf(groups) /\ DOMAIN groups = {}
    BY DEF Init, GroupsOf
  <2>3. Grouped(groups, I) = 0 /\ Cardinality({}) = 0
    BY <2>2, GroupedNatural, FS_EmptySet
  <2> QED
    BY <2>1, <2>3 DEF InTransit
<1>5. NumbersPlaced /\ EventsPlaced /\ WrittenWithin
  BY <1>3, <1>4 DEF Init, NumbersPlaced, EventsPlaced, WrittenWithin, NothingUnconfirmed
<1>6. Confirmations
  <2>1. FlushedWithin
    BY DEF Init, FlushedWithin
  <2>2. /\ \A i \in Instances : ConfirmedLines[i] = 0 /\ UnconfirmedLines[i] = 0
        /\ \A i \in Instances : ConfirmedEvents[i] = 0 /\ UnconfirmedEvents[i] = 0
    BY DEF Init, ConfirmedLines, UnconfirmedLines, ConfirmedEvents, UnconfirmedEvents,
           NothingUnconfirmed
  <2>3. ASSUME NEW C, Tally(C), \A i \in Instances : C[i] = 0 PROVE SumFunction(C) = 0
    BY <2>3, TallySummable, SumOfZeros
  <2>4. /\ SumFunction(ConfirmedLines) = 0 /\ SumFunction(UnconfirmedLines) = 0
        /\ SumFunction(ConfirmedEvents) = 0 /\ SumFunction(UnconfirmedEvents) = 0
    BY <1>0, <2>2, <2>3, Tallied
  <2> QED
    BY <1>3, <2>1, <2>4 DEF Confirmations, Confirms
<1> QED
  BY <1>2, <1>5, <1>6 DEF Accounts

\* Every step keeps the accounts.
LEMMA NextAccounts ==
  IndInv /\ IndInv' /\ Order /\ Lifecycle /\ Accounts /\ [Next]_vars => Accounts'
<1> SUFFICES ASSUME IndInv, IndInv', Order, Lifecycle, Accounts, [Next]_vars PROVE Accounts'
  OBVIOUS
<1>1. FilesFinite' /\ Confirmations' /\ WrittenWithin'
  BY FilesFiniteStep, ConfirmationsStep, WrittenWithinStep DEF Accounts
<1>2. NumbersPlaced'
  <2>1. ~Failing' => sequence' = NextInTransit(NumberedItems, Instances) + Weighed(files', NumbersOf)
    BY NumbersPlacedStep DEF Accounts
  <2> QED
    BY <2>1 DEF NumbersPlaced, NextInTransit, InTransit, NextHandHas, HandHas, Places, Grouped,
       Weighed, PositionsOf
<1>3. EventsPlaced'
  <2>1. ~Failing' => \A i \in Instances :
            counters'[i].accepted = counters'[i].written + unconfirmed'[i].occurrences
                                    + NextInTransit(EventsOf(i), {i})
    BY EventsPlacedStep DEF Accounts
  <2> QED
    BY <2>1 DEF EventsPlaced, NextInTransit, InTransit, NextHandHas, HandHas, Places, Grouped
<1> QED
  BY <1>1, <1>2, <1>3 DEF Accounts

\* The accounts hold in every reachable state.
LEMMA AlwaysAccounts == Spec => []Accounts
  BY Inductive, AlwaysOrder, AlwaysLifecycle, InitAccounts, NextAccounts, PTL DEF Spec

\* The lines at the positions are lines.
LEMMA LinesAtPositions ==
  ASSUME IndInv
  PROVE  /\ Positions = PositionsOf(files)
         /\ \A n \in Positions : files[n[1]][n[2]] \in LineType
<1>1. Positions = PositionsOf(files)
  BY DEF Positions, PositionsOf
<1>2. ASSUME NEW n \in PositionsOf(files) PROVE files[n[1]][n[2]] \in LineType
  <2>1. n[1] \in Paths /\ n[2] \in DOMAIN files[n[1]]
    BY PositionsAre
  <2>2. files[n[1]] \in Seq(LineType)
    BY <2>1 DEF IndInv, TypeOK, OutputTypes
  <2> QED
    BY <2>1, <2>2
<1> QED
  BY <1>1, <1>2

\* Until a failure every sequence number the engine gave (emit_args, Shared::summaries) is
\* queued, in the worker's hands, in an open group or in exactly one written line, for any
\* number of threads, instances and destinations.
THEOREM NumbersKept == Spec => []NothingLost
<1>1. IndInv /\ Accounts => NothingLost
  <2> SUFFICES ASSUME IndInv, Accounts
               PROVE  NothingLost
    OBVIOUS
  <2>0. TypeOK
    BY DEF IndInv
  <2>1. Numbered(queue) = Places(queue, NumberedItems)
    <3>1. \A item \in ItemType : item.kind \in {"event", "summary"} <=> item \in NumberedItems
      BY DEF ItemType, NumberedItems, EventType, SummaryType, BarrierType, Shutdown
    <3>2. \A n \in DOMAIN queue : queue[n] \in ItemType
      BY <2>0 DEF TypeOK, AdmissionTypes
    <3> QED
      BY <3>1, <3>2 DEF Numbered, Places
  <2>2. InHand = HandHas(NumberedItems)
    <3>1. worker.pc = "item" => worker.item \in ItemType \cup {NoItem}
      BY <2>0 DEF TypeOK, WorkerTypes, WorkerType
    <3>2. \A item \in ItemType \cup {NoItem} :
              item.kind \in {"event", "summary"} <=> item \in NumberedItems
      BY DEF ItemType, NumberedItems, EventType, SummaryType, BarrierType, Shutdown, NoItem
    <3> QED
      BY <3>1, <3>2 DEF InHand, HandHas, HandlingA
  <2>3. InGroups = Grouped(groups, Instances)
    <3>1. \A k \in DOMAIN groups : k[1] \in Instances
      BY <2>0 DEF TypeOK, WorkerTypes, Keys
    <3>2. [k \in DOMAIN groups |-> groups[k].count]
            = [k \in DOMAIN groups |-> IF k[1] \in Instances THEN groups[k].count ELSE 0]
      BY <3>1
    <3> QED
      BY <3>2 DEF InGroups, Grouped
  <2>4. InFiles(Numbers) = Weighed(files, NumbersOf)
    <3>1. \A n \in Positions : Numbers(LineAt(n)) = NumbersOf[files[n[1]][n[2]]]
      BY LinesAtPositions DEF LineAt, NumbersOf
    <3>2. [n \in Positions |-> Numbers(LineAt(n))]
            = [n \in PositionsOf(files) |-> NumbersOf[files[n[1]][n[2]]]]
      BY <3>1, LinesAtPositions
    <3> QED
      BY <3>2 DEF InFiles, Weighed
  <2>5. InTransit(NumberedItems, Instances)
          = Cardinality(Numbered(queue)) + InHand + InGroups
    BY <2>1, <2>2, <2>3 DEF InTransit
  <2> QED
    BY <2>4, <2>5 DEF Accounts, NumbersPlaced, NothingLost
<1> QED
  BY Inductive, AlwaysAccounts, <1>1, PTL

\* `written` and `lines` only confirm lines whose flush succeeded (flush_output), and no
\* more events are confirmed than were accepted, after a failure too.
THEOREM OnlyDurableConfirmed == Spec => []ConfirmedIsDurable
<1>1. IndInv /\ Accounts => ConfirmedIsDurable
  <2> SUFFICES ASSUME IndInv, Accounts PROVE ConfirmedIsDurable
    OBVIOUS
  <2>1. ASSUME NEW i \in Instances PROVE counters[i].written <= counters[i].accepted
    <3>1. counters[i].written + unconfirmed[i].occurrences <= counters[i].accepted
      BY DEF Accounts, WrittenWithin
    <3>2. /\ counters[i].written \in Nat /\ counters[i].accepted \in Nat
          /\ unconfirmed[i].occurrences \in Nat
      BY DEF IndInv, TypeOK, InstanceTypes, OutputTypes, CounterType
    <3> QED
      BY <3>1, <3>2
  <2>2. /\ Flushed = FlushedOf(files, durable)
        /\ \A n \in Flushed : LineAt(n) \in LineType
        /\ \A n \in Flushed : LineAt(n) = files[n[1]][n[2]]
    BY LinesAtPositions DEF Flushed, FlushedOf, LineAt
  <2>3. InDurable(LAMBDA line : 1) = Durably(files, durable, AnyLine)
    <3>1. [n \in Flushed |-> 1] = [n \in FlushedOf(files, durable) |-> AnyLine[files[n[1]][n[2]]]]
      BY <2>2 DEF AnyLine
    <3> QED
      BY <3>1 DEF InDurable, Durably
  <2>4. InDurable(Occurrences) = Durably(files, durable, EventsIn)
    <3>1. \A n \in Flushed : Occurrences(LineAt(n)) = EventsIn[files[n[1]][n[2]]]
      BY <2>2 DEF EventsIn
    <3>2. [n \in Flushed |-> Occurrences(LineAt(n))]
            = [n \in FlushedOf(files, durable) |-> EventsIn[files[n[1]][n[2]]]]
      BY <2>2, <3>1
    <3> QED
      BY <3>2 DEF InDurable, Durably
  <2>5. /\ SumFunction(ConfirmedLines) = Durably(files, durable, AnyLine)
        /\ SumFunction(ConfirmedEvents) = Durably(files, durable, EventsIn)
    BY DEF Accounts, Confirmations, Confirms
  <2>6. SumFunction(ConfirmedLines) \in Nat /\ SumFunction(ConfirmedEvents) \in Nat
    BY Tallied, TallySummable
  <2>7. /\ SumFunction(ConfirmedLines) <= Durably(files, durable, AnyLine)
        /\ SumFunction(ConfirmedEvents) <= Durably(files, durable, EventsIn)
    <3> DEFINE cl == SumFunction(ConfirmedLines)
               ce == SumFunction(ConfirmedEvents)
    <3>1. cl \in Nat /\ ce \in Nat
      BY <2>6
    <3> HIDE DEF cl, ce
    <3>2. cl <= cl /\ ce <= ce
      BY <3>1
    <3> QED
      BY <2>5, <3>2 DEF cl, ce
  <2> QED
    BY <2>1, <2>3, <2>4, <2>7 DEF ConfirmedIsDurable, ConfirmedLines, ConfirmedEvents
<1> QED
  BY Inductive, AlwaysAccounts, <1>1, PTL
-----------------------------------------------------------------------------
(* Overloads, flushes and the contract *)

\* The summaries of an instance that are on their way, in a queue or in the worker's hands.
Owed(q, w, i) ==
    {s \in SummaryType :
        /\ s.instance = i
        /\ (\E n \in DOMAIN q : q[n] = s) \/ (w.pc = "item" /\ w.item = s)}
\* An instance has a summary on its way exactly when it says so, for the overloads that
\* are not settled: neither pending, nor written, nor reported.
Balanced(owed, queued, full, settled) ==
    \/ ~queued /\ owed = {} /\ full = settled
    \/ queued /\ \E s \in SummaryType : owed = {s} /\ full = settled + s.count
BalanceOf(i) ==
    Balanced(Owed(queue, worker, i), summaryQueued[i], counters[i].refused["full"],
             overloadPending[i] + unconfirmed[i].overload + counters[i].reported)
NextBalanceOf(i) ==
    Balanced(Owed(queue', worker', i), summaryQueued'[i], counters'[i].refused["full"],
             overloadPending'[i] + unconfirmed'[i].overload + counters'[i].reported)
Balances == ~Failing => \A i \in Instances : BalanceOf(i)
-----------------------------------------------------------------------------
(* Summaries on their way *)

\* An ascending enumeration of a set of instances reaches each of them once.
LEMMA AscendingOnto ==
  ASSUME NEW due \in SUBSET Instances, NEW order \in Ascending(due)
  PROVE  /\ Cardinality(due) \in Nat
         /\ \A i \in due : \E k \in 1..Cardinality(due) : order[k] = i
         /\ \A a, b \in 1..Cardinality(due) : order[a] = order[b] => a = b
<1>1. IsFiniteSet(due) /\ Cardinality(due) \in Nat
  <2>1. IsFiniteSet(Instances)
    BY FS_Interval, InstancesAssumption DEF Instances
  <2> QED
    BY <2>1, FS_Subset, FS_CardinalityType
<1> DEFINE n == Cardinality(due)
           image == {order[k] : k \in 1..n}
<1>2. order \in [1..n -> due] /\ \A a, b \in 1..n : a < b => order[a] < order[b]
  BY DEF Ascending
<1>3. n \in Nat
  BY <1>1
<1> HIDE DEF n
<1>4. ASSUME NEW a \in 1..n, NEW b \in 1..n, order[a] = order[b] PROVE a = b
  <2>1. order[a] \in Nat /\ order[b] \in Nat
    <3>1. \A x \in due : x \in Nat
      BY InstancesAssumption DEF Instances
    <3>2. order[a] \in due /\ order[b] \in due
      BY <1>2
    <3> QED
      BY <3>1, <3>2
  <2>2. ~(order[a] < order[b]) /\ ~(order[b] < order[a])
    BY <1>4, <2>1
  <2>3. ~(a < b) /\ ~(b < a)
    BY <1>2, <2>2
  <2> QED
    BY <1>3, <2>3
<1>5. image \subseteq due
  BY <1>2
<1>6. order \in Bijection(1..n, image)
  BY <1>2, <1>4 DEF Bijection, Injection, Surjection, IsInjective
<1>7. IsFiniteSet(1..n) /\ Cardinality(1..n) = n
  BY <1>3, FS_Interval
<1>8. Cardinality(image) = n
  BY <1>6, <1>7, FS_Bijection DEF ExistsBijection
<1>9. image = due
  BY <1>1, <1>5, <1>8, FS_Subset DEF n
<1> QED
  BY <1>1, <1>4, <1>9 DEF n

\* What is not a summary of the instance does not count when it is queued.
LEMMA OwedAppend ==
  ASSUME NEW q \in Seq(ItemType), NEW x \in ItemType, x \notin SummaryType, NEW w, NEW i
  PROVE  Owed(Append(q, x), w, i) = Owed(q, w, i)
<1>1. DOMAIN Append(q, x) = DOMAIN q \cup {Len(q) + 1}
  OBVIOUS
<1>2. \A n \in DOMAIN q : Append(q, x)[n] = q[n]
  OBVIOUS
<1>3. Append(q, x)[Len(q) + 1] = x
  OBVIOUS
<1> QED
  BY <1>1, <1>2, <1>3 DEF Owed

\* The summaries of a locked section (Shared::summaries): one for each instance it serves,
\* for all that is pending there.
LEMMA OwedServed ==
  ASSUME TypeOK, NEW due \in SUBSET Instances, NEW order \in Ascending(due), NEW w,
         NEW i \in Instances
  PROVE  /\ i \notin due => Owed(queue \o SummaryItems(order), w, i) = Owed(queue, w, i)
         /\ i \in due => \E s \in SummaryType :
                /\ s.count = overloadPending[i]
                /\ Owed(queue \o SummaryItems(order), w, i) = Owed(queue, w, i) \cup {s}
<1> DEFINE items == SummaryItems(order)
           q == queue \o items
<1>1. /\ items \in Seq(SummaryType) /\ Len(items) = Cardinality(due) /\ Cardinality(due) \in Nat
  BY SummariesAre
<1>2. \A k \in 1..Len(items) :
        items[k].instance = order[k] /\ items[k].count = overloadPending[order[k]]
  <2>1. order \in Seq(Instances) /\ Len(order) = Cardinality(due)
    BY <1>1 DEF Ascending
  <2> QED
    BY <1>1, <2>1 DEF SummaryItems
<1>3. queue \in Seq(ItemType)
  BY DEF TypeOK, AdmissionTypes
<1> HIDE DEF items
<1>4. ASSUME NEW s
      PROVE  (\E n \in DOMAIN q : q[n] = s)
                <=> (\E n \in DOMAIN queue : queue[n] = s) \/ (\E k \in 1..Len(items) : items[k] = s)
  <2>1. /\ DOMAIN queue = 1..Len(queue) /\ DOMAIN q = 1..Len(queue) + Len(items)
        /\ Len(queue) \in Nat /\ Len(items) \in Nat
    BY <1>1, <1>3
  <2>2. \A n \in 1..Len(queue) : n \in DOMAIN q /\ q[n] = queue[n]
    BY <1>1, <1>3
  <2>3. \A k \in 1..Len(items) : Len(queue) + k \in DOMAIN q /\ q[Len(queue) + k] = items[k]
    BY <1>1, <1>3
  <2>4. \A n \in DOMAIN q : n \in 1..Len(queue) \/ \E k \in 1..Len(items) : n = Len(queue) + k
    <3> TAKE n \in DOMAIN q
    <3>1. n \in 1..Len(queue) \/ n - Len(queue) \in 1..Len(items)
      BY <2>1
    <3>2. n = Len(queue) + (n - Len(queue))
      BY <2>1
    <3> QED
      BY <3>1, <3>2
  <2> HIDE DEF q
  <2> QED
    BY <2>1, <2>2, <2>3, <2>4
<1>5. Owed(q, w, i) = Owed(queue, w, i) \cup {s \in SummaryType : s.instance = i /\ \E k \in 1..Len(items) : items[k] = s}
  BY <1>4 DEF Owed
<1> HIDE DEF q
<1>6. CASE i \notin due
  <2>1. \A k \in 1..Len(items) : items[k].instance # i
    BY <1>1, <1>2, <1>6 DEF Ascending
  <2>2. Owed(q, w, i) = Owed(queue, w, i)
    BY <1>5, <2>1
  <2> QED
    BY <1>6, <2>2 DEF q, items
<1>7. CASE i \in due
  <2>1. PICK k \in 1..Len(items) : order[k] = i
    BY <1>1, <1>7, AscendingOnto
  <2>2. items[k] \in SummaryType /\ items[k].instance = i /\ items[k].count = overloadPending[i]
    BY <1>1, <1>2, <2>1
  <2>3. \A l \in 1..Len(items) : items[l].instance = i => l = k
    BY <1>1, <1>2, <2>1, AscendingOnto
  <2>4. Owed(q, w, i) = Owed(queue, w, i) \cup {items[k]}
    BY <1>5, <2>2, <2>3
  <2> QED
    BY <1>7, <2>2, <2>4 DEF q, items
<1> QED
  BY <1>6, <1>7

\* The worker takes the head: it stays on its way.
LEMMA OwedTaken ==
  ASSUME NEW q \in Seq(ItemType), q # <<>>, NEW w, w.pc # "item", NEW i
  PROVE  Owed(Tail(q), Handling(Head(q)), i) = Owed(q, w, i)
<1>1. \A n \in DOMAIN Tail(q) : n + 1 \in DOMAIN q /\ Tail(q)[n] = q[n + 1]
  OBVIOUS
<1>2. \A n \in DOMAIN q : n = 1 \/ (n - 1 \in DOMAIN Tail(q) /\ Tail(q)[n - 1] = q[n])
  OBVIOUS
<1>3. Head(q) = q[1] /\ 1 \in DOMAIN q
  OBVIOUS
<1>4. Handling(Head(q)).pc = "item" /\ Handling(Head(q)).item = Head(q)
  BY DEF Handling
<1>5. ASSUME NEW s
      PROVE  (\E n \in DOMAIN q : q[n] = s) <=> (\E n \in DOMAIN Tail(q) : Tail(q)[n] = s) \/ Head(q) = s
  <2> DEFINE r == Tail(q)
  <2>1. ASSUME NEW n \in DOMAIN q, q[n] = s PROVE (\E m \in DOMAIN r : r[m] = s) \/ Head(q) = s
    BY <1>2, <1>3, <2>1
  <2>2. ASSUME NEW m \in DOMAIN r, r[m] = s PROVE \E n \in DOMAIN q : q[n] = s
    BY <1>1, <2>2
  <2>3. Head(q) = s => \E n \in DOMAIN q : q[n] = s
    BY <1>3
  <2> QED
    BY <2>1, <2>2, <2>3
<1> QED
  BY <1>4, <1>5 DEF Owed

\* The queue and the summary in hand, if any, stay.
LEMMA OwedStays ==
  ASSUME UNCHANGED queue, \A s \in SummaryType : NextHandHas({s}) = HandHas({s}), NEW i
  PROVE  Owed(queue', worker', i) = Owed(queue, worker, i)
<1>1. ASSUME NEW s \in SummaryType
      PROVE  (worker'.pc = "item" /\ worker'.item = s) <=> (worker.pc = "item" /\ worker.item = s)
  <2>1. NextHandHas({s}) = HandHas({s})
    OBVIOUS
  <2> QED
    BY <2>1 DEF NextHandHas, HandHas
<1> QED
  BY <1>1 DEF Owed
-----------------------------------------------------------------------------
(* Balances *)

\* One more overload, counted and pending.
LEMMA BalanceShifts ==
  ASSUME NEW owed, NEW queued, NEW full \in Nat, NEW settled \in Nat,
         Balanced(owed, queued, full, settled)
  PROVE  Balanced(owed, queued, full + 1, settled + 1)
<1>1. \A s \in SummaryType : s.count \in Nat
  BY DEF SummaryType
<1>2. \A c \in Nat : full = settled + c => full + 1 = (settled + 1) + c
  OBVIOUS
<1>3. full = settled => full + 1 = settled + 1
  OBVIOUS
<1> QED
  BY <1>1, <1>2, <1>3 DEF Balanced

\* The numbers of an instance's balance.
LEMMA BalanceTypes ==
  ASSUME IndInv, NEW i \in Instances
  PROVE  /\ counters \in [Instances -> CounterType] /\ overloadPending \in [Instances -> Nat]
         /\ unconfirmed \in [Instances -> [occurrences : Nat, lines : Nat, overload : Nat]]
         /\ summaryQueued \in [Instances -> BOOLEAN]
         /\ counters[i].refused["full"] \in Nat /\ counters[i].reported \in Nat
         /\ overloadPending[i] \in Nat /\ unconfirmed[i].overload \in Nat
<1>1. /\ counters \in [Instances -> CounterType] /\ overloadPending \in [Instances -> Nat]
      /\ unconfirmed \in [Instances -> [occurrences : Nat, lines : Nat, overload : Nat]]
      /\ summaryQueued \in [Instances -> BOOLEAN]
  BY DEF IndInv, TypeOK, InstanceTypes, OutputTypes
<1>2. counters[i] \in CounterType
  BY <1>1
<1> QED
  BY <1>1, <1>2 DEF CounterType, Reasons

\* A refusal for lack of room is pending; the other refusals do not count.
LEMMA RefusalBalance ==
  ASSUME IndInv, NEW i \in Instances, BalanceOf(i), NEW j \in Instances, NEW reason \in Reasons,
         Refusal(j, reason), UNCHANGED <<queue, worker>>, UNCHANGED output
  PROVE  NextBalanceOf(i)
<1> USE BalanceTypes
<1>1. summaryQueued' = summaryQueued /\ unconfirmed' = unconfirmed /\ queue' = queue /\ worker' = worker
  BY DEF Refusal, output
<1>2. counters' = [counters EXCEPT ![j].refused[reason] = @ + 1]
  BY DEF Refusal
<1>3. counters'[i].reported = counters[i].reported
  BY <1>2 DEF CounterType
<1>4. overloadPending' = IF reason = "full" THEN [overloadPending EXCEPT ![j] = @ + 1]
                                            ELSE overloadPending
  BY DEF Refusal
<1> DEFINE full == counters[i].refused["full"]
           p == overloadPending[i]
           rest == unconfirmed[i].overload + counters[i].reported
<1>5. CASE i = j /\ reason = "full"
  <2>1. counters'[i].refused["full"] = full + 1 /\ overloadPending'[i] = p + 1
    BY <1>2, <1>4, <1>5 DEF CounterType
  <2>2. overloadPending'[i] + unconfirmed[i].overload + counters[i].reported
          = (overloadPending[i] + unconfirmed[i].overload + counters[i].reported) + 1
    BY <2>1
  <2>3. /\ overloadPending[i] + unconfirmed[i].overload + counters[i].reported \in Nat
        /\ full \in Nat
    OBVIOUS
  <2>4. Balanced(Owed(queue, worker, i), summaryQueued[i], full + 1,
                 (overloadPending[i] + unconfirmed[i].overload + counters[i].reported) + 1)
    BY <2>3, BalanceShifts DEF BalanceOf
  <2> QED
    BY <1>1, <1>3, <2>1, <2>2, <2>4 DEF NextBalanceOf
<1>6. CASE ~(i = j /\ reason = "full")
  <2>1. counters'[i].refused["full"] = full /\ overloadPending'[i] = p
    BY <1>2, <1>4, <1>6 DEF CounterType, Reasons
  <2> QED
    BY <1>1, <1>3, <2>1 DEF NextBalanceOf, BalanceOf
<1> QED
  BY <1>5, <1>6

\* A flush reports what was written.
LEMMA FlushBalance ==
  ASSUME IndInv, NEW i \in Instances, BalanceOf(i), FlushOutput,
         Owed(queue', worker', i) = Owed(queue, worker, i),
         UNCHANGED <<overloadPending, summaryQueued>>
  PROVE  NextBalanceOf(i)
<1> USE BalanceTypes
<1>1. CASE UNCHANGED <<counters, unconfirmed>>
  BY <1>1 DEF NextBalanceOf, BalanceOf
<1>2. CASE /\ counters' = [j \in Instances |->
                [counters[j] EXCEPT !.written = @ + unconfirmed[j].occurrences,
                                    !.lines = @ + unconfirmed[j].lines,
                                    !.reported = @ + unconfirmed[j].overload]]
           /\ unconfirmed' = [j \in Instances |-> NothingUnconfirmed]
  <2>1. /\ counters'[i] = [counters[i] EXCEPT !.written = @ + unconfirmed[i].occurrences,
                                              !.lines = @ + unconfirmed[i].lines,
                                              !.reported = @ + unconfirmed[i].overload]
        /\ unconfirmed'[i] = NothingUnconfirmed
    BY <1>2
  <2>2. counters[i] \in CounterType
    OBVIOUS
  <2>3. /\ counters'[i].refused["full"] = counters[i].refused["full"]
        /\ counters'[i].reported = counters[i].reported + unconfirmed[i].overload
        /\ unconfirmed'[i].overload = 0
    BY <2>1, <2>2 DEF CounterType, NothingUnconfirmed
  <2>4. overloadPending'[i] + unconfirmed'[i].overload + counters'[i].reported
          = overloadPending[i] + unconfirmed[i].overload + counters[i].reported
    BY <2>3
  <2> QED
    BY <2>3, <2>4 DEF NextBalanceOf, BalanceOf
<1> QED
  BY <1>1, <1>2 DEF FlushOutput, output

\* A locked section that serves `due` turns what is pending there into a summary.
LEMMA ServedBalance ==
  ASSUME IndInv, NEW i \in Instances, BalanceOf(i), NEW due \in SUBSET Owing,
         TakeBalances(due), UNCHANGED output,
         i \notin due => Owed(queue', worker', i) = Owed(queue, worker, i),
         i \in due => \E s \in SummaryType :
                /\ s.count = overloadPending[i]
                /\ Owed(queue', worker', i) = Owed(queue, worker, i) \cup {s}
  PROVE  NextBalanceOf(i)
<1> USE BalanceTypes
<1>1. counters' = counters /\ unconfirmed' = unconfirmed
  BY DEF TakeBalances, output
<1>2. CASE i \notin due
  <2>1. overloadPending'[i] = overloadPending[i] /\ summaryQueued'[i] = summaryQueued[i]
    BY <1>2 DEF TakeBalances
  <2> QED
    BY <1>1, <1>2, <2>1 DEF NextBalanceOf, BalanceOf
<1>3. CASE i \in due
  <2>1. overloadPending'[i] = 0 /\ summaryQueued'[i] = TRUE /\ ~summaryQueued[i]
    BY <1>3 DEF TakeBalances, Owing
  <2>2. /\ Owed(queue, worker, i) = {}
        /\ counters[i].refused["full"]
             = overloadPending[i] + unconfirmed[i].overload + counters[i].reported
    BY <2>1 DEF BalanceOf, Balanced
  <2>3. PICK s \in SummaryType : s.count = overloadPending[i] /\ Owed(queue', worker', i) = {s}
    BY <1>3, <2>2
  <2>4. counters'[i].refused["full"]
          = (overloadPending'[i] + unconfirmed'[i].overload + counters'[i].reported) + s.count
    BY <1>1, <2>1, <2>2, <2>3
  <2> QED
    BY <2>1, <2>3, <2>4 DEF NextBalanceOf, Balanced
<1> QED
  BY <1>2, <1>3

\* A summary that is written is no longer on its way, and its overloads are unconfirmed.
LEMMA SummaryBalance ==
  ASSUME IndInv, Order, NEW i \in Instances, BalanceOf(i), WorkerSummary
  PROVE  NextBalanceOf(i)
<1> USE BalanceTypes
<1> DEFINE s == worker.item
<1>1. s \in SummaryType /\ worker.pc = "item" /\ s.instance \in Instances /\ s.count \in Nat
  BY InHandTypes DEF WorkerSummary, HandlingA, IndInv, SummaryType
<1>2. /\ queue' = queue /\ worker'.pc = "top" /\ counters' = counters
      /\ overloadPending' = overloadPending
      /\ summaryQueued' = [summaryQueued EXCEPT ![s.instance] = FALSE]
      /\ unconfirmed' = [unconfirmed EXCEPT ![s.instance].lines = @ + 1,
                                            ![s.instance].overload = @ + s.count]
  BY DEF WorkerSummary, SummaryWritten, Goto, At, admission
<1>3. ASSUME NEW n \in DOMAIN queue PROVE queue[n] # s
  <2>1. SUFFICES ASSUME queue[n] = s PROVE FALSE
    OBVIOUS
  <2>2. n \in Numbered(queue) /\ HoldsNumber
    BY <1>1, <2>1 DEF Numbered, HoldsNumber, IsNumbered, SummaryType
  <2>3. s.seq < queue[n].seq /\ s.seq \in Nat
    BY <1>1, <2>2 DEF Order, QueueInOrder, SummaryType
  <2> QED
    BY <2>1, <2>3
<1> HIDE DEF s
<1>4. Owed(queue', worker', i) = Owed(queue, worker, i) \ {s}
  BY <1>1, <1>2, <1>3 DEF Owed, s
<1>5. CASE s.instance = i
  <2>1. s \in Owed(queue, worker, i)
    BY <1>1, <1>5 DEF Owed, s
  <2>2. /\ Owed(queue, worker, i) = {s}
        /\ counters[i].refused["full"]
             = (overloadPending[i] + unconfirmed[i].overload + counters[i].reported) + s.count
    BY <2>1 DEF BalanceOf, Balanced
  <2>3. summaryQueued'[i] = FALSE /\ unconfirmed'[i].overload = unconfirmed[i].overload + s.count
    BY <1>1, <1>2, <1>5
  <2>4. Owed(queue', worker', i) = {}
    BY <1>4, <2>2
  <2>5. counters'[i].refused["full"]
          = overloadPending'[i] + unconfirmed'[i].overload + counters'[i].reported
    BY <1>1, <1>2, <2>2, <2>3
  <2> QED
    BY <2>3, <2>4, <2>5 DEF NextBalanceOf, Balanced
<1>6. CASE s.instance # i
  <2>1. summaryQueued'[i] = summaryQueued[i] /\ unconfirmed'[i].overload = unconfirmed[i].overload
    BY <1>1, <1>2, <1>6
  <2>2. Owed(queue', worker', i) = Owed(queue, worker, i)
    BY <1>4, <1>6 DEF Owed
  <2> QED
    BY <1>2, <2>1, <2>2 DEF NextBalanceOf, BalanceOf
<1> QED
  BY <1>5, <1>6

\* The line of a group reports nothing.
LEMMA GroupBalance ==
  ASSUME IndInv, NEW i \in Instances, BalanceOf(i), NEW k \in DOMAIN groups,
         WriteGroup(groups[k]) \/ UNCHANGED unconfirmed,
         Owed(queue', worker', i) = Owed(queue, worker, i),
         UNCHANGED perInstance
  PROVE  NextBalanceOf(i)
<1> USE BalanceTypes
<1>1. unconfirmed'[i].overload = unconfirmed[i].overload
  <2>1. groups[k].first.instance \in Instances /\ groups[k].count \in Nat
    BY DEF IndInv, TypeOK, WorkerTypes, EventType
  <2>2. CASE WriteGroup(groups[k])
    <3>1. unconfirmed' = [unconfirmed EXCEPT
                            ![groups[k].first.instance].occurrences = @ + groups[k].count,
                            ![groups[k].first.instance].lines = @ + 1]
      BY <2>2 DEF WriteGroup
    <3> QED
      BY <2>1, <3>1
  <2> QED
    BY <2>2
<1> QED
  BY <1>1 DEF NextBalanceOf, BalanceOf, perInstance

\* The locked sections that queue summaries keep the balances.
LEMMA RequestBalance ==
  ASSUME IndInv, NEW i \in Instances, BalanceOf(i), Requesting
  PROVE  NextBalanceOf(i)
<1> USE DEF IndInv
<1>1. Barrier(nextBarrier') \notin SummaryType /\ Shutdown \notin SummaryType /\ Shutdown \in ItemType
  BY DEF Barrier, Shutdown, SummaryType, ItemType
<1> DEFINE Kept(due) ==
             /\ i \notin due => Owed(queue', worker', i) = Owed(queue, worker, i)
             /\ i \in due => \E s \in SummaryType :
                    /\ s.count = overloadPending[i]
                    /\ Owed(queue', worker', i) = Owed(queue, worker, i) \cup {s}
<1>2. ASSUME NEW due \in SUBSET Owing, NEW order \in Ascending(due), NEW x \in ItemType,
             x \notin SummaryType, queue' = Append(queue \o SummaryItems(order), x),
             \A q : Owed(q, worker', i) = Owed(q, worker, i)
      PROVE  Kept(due)
  <2>1. due \in SUBSET Instances
    BY OwingInstances
  <2>2. queue \o SummaryItems(order) \in Seq(ItemType)
    BY <2>1, SummariesQueued
  <2>3. Owed(queue', worker', i) = Owed(queue \o SummaryItems(order), worker, i)
    <3> DEFINE q == queue \o SummaryItems(order)
    <3>1. q \in Seq(ItemType) /\ queue' = Append(q, x)
      BY <1>2, <2>2
    <3> HIDE DEF q
    <3>2. Owed(Append(q, x), worker', i) = Owed(q, worker', i)
      BY <1>2, <3>1, OwedAppend
    <3>3. Owed(q, worker', i) = Owed(q, worker, i)
      BY <1>2
    <3> QED
      BY <3>1, <3>2, <3>3 DEF q
  <2> QED
    BY <2>1, <2>3, OwedServed
<1> HIDE DEF Kept
<1>3. ASSUME NEW c \in Clients, FlushBegin(c)
      PROVE  \E due \in SUBSET Owing : TakeBalances(due) /\ UNCHANGED output /\ Kept(due)
  <2>1. PICK order \in Ascending(Owing) :
          queue' = Append(queue \o SummaryItems(order), Barrier(nextBarrier'))
    BY <1>3 DEF FlushBegin
  <2>2. Barrier(nextBarrier') \in ItemType
    BY <1>3 DEF FlushBegin, Barrier, BarrierType, TypeOK, AdmissionTypes, ItemType
  <2>3. worker' = worker /\ UNCHANGED output /\ TakeBalances(Owing)
    BY <1>3 DEF FlushBegin
  <2>4. Kept(Owing)
    BY <1>1, <1>2, <2>1, <2>2, <2>3
  <2> QED
    BY <2>3, <2>4
<1>4. ASSUME NEW c \in Clients, ShutdownBegin(c), health = "open"
      PROVE  \E due \in SUBSET Owing : TakeBalances(due) /\ UNCHANGED output /\ Kept(due)
  <2>1. PICK order \in Ascending(Owing) : queue' = Append(queue \o SummaryItems(order), Shutdown)
    BY <1>4 DEF ShutdownBegin
  <2>2. worker' = worker /\ UNCHANGED output /\ TakeBalances(Owing)
    BY <1>4 DEF ShutdownBegin
  <2>3. Kept(Owing)
    BY <1>1, <1>2, <2>1, <2>2
  <2> QED
    BY <2>2, <2>3
<1>5. ASSUME WorkerTake
      PROVE  \E due \in SUBSET Owing : TakeBalances(due) /\ UNCHANGED output /\ Kept(due)
  <2>1. PICK due \in SUBSET (IF health = "open" THEN Owing ELSE {}) :
          /\ TakeBalances(due)
          /\ \E order \in Ascending(due) : TakeNext(queue \o SummaryItems(order))
    BY <1>5 DEF WorkerTake
  <2>2. due \in SUBSET Owing /\ due \in SUBSET Instances
    BY OwingInstances
  <2>3. PICK order \in Ascending(due) : TakeNext(queue \o SummaryItems(order))
    BY <2>1
  <2>4. worker.pc # "item" /\ UNCHANGED output
    BY <1>5 DEF WorkerTake
  <2> DEFINE q == queue \o SummaryItems(order)
  <2>5. q \in Seq(ItemType)
    BY <2>2, SummariesQueued
  <2>6. Owed(queue', worker', i) = Owed(q, worker, i)
    <3>1. CASE q # <<>> /\ worker' = Handling(Head(q)) /\ queue' = Tail(q)
      BY <2>4, <2>5, <3>1, OwedTaken
    <3>2. CASE q = <<>> /\ Goto("waiting") /\ queue' = queue
      <4>1. queue = q
        <5>1. Len(queue) = 0
          <6>1. SummaryItems(order) \in Seq(SummaryType)
            BY <2>2, SummariesAre
          <6>2. Len(q) = Len(queue) + Len(SummaryItems(order)) /\ Len(q) = 0
            BY <3>2, <6>1 DEF TypeOK, AdmissionTypes
          <6> QED
            BY <6>1, <6>2 DEF TypeOK, AdmissionTypes
        <5> QED
          BY <3>2, <5>1 DEF TypeOK, AdmissionTypes
      <4>2. worker'.pc # "item"
        BY <3>2 DEF Goto, At
      <4> HIDE DEF q
      <4> QED
        BY <2>4, <3>2, <4>1, <4>2 DEF Owed
    <3> QED
      BY <2>3, <3>1, <3>2 DEF TakeNext
  <2>7. Kept(due)
    BY <2>2, <2>6, OwedServed DEF Kept
  <2> QED
    BY <2>1, <2>2, <2>4, <2>7
<1>6. ASSUME WorkerShutdown
      PROVE  \E due \in SUBSET Owing : TakeBalances(due) /\ UNCHANGED output /\ Kept(due)
  <2>1. PICK order \in Ascending(Owing) :
          LET items == queue \o SummaryItems(order) IN
          \/ queue' = Append(items, Shutdown) /\ Goto("top")
          \/ items = <<>> /\ UNCHANGED queue /\ Goto("draining")
    BY <1>6 DEF WorkerShutdown, FinalBalances, Remains
  <2>2. UNCHANGED output /\ TakeBalances(Owing)
    BY <1>6 DEF WorkerShutdown, FinalBalances
  <2>3. \A q : Owed(q, worker', i) = Owed(q, worker, i)
    <3>1. /\ worker.pc = "item" => worker.item \notin SummaryType
          /\ worker'.pc # "item"
      BY <1>6, <2>1 DEF WorkerShutdown, HandlingA, SummaryType, Goto, At
    <3> QED
      BY <3>1 DEF Owed
  <2>4. CASE queue' = Append(queue \o SummaryItems(order), Shutdown)
    BY <1>1, <1>2, <2>2, <2>3, <2>4
  <2>5. CASE queue \o SummaryItems(order) = <<>> /\ UNCHANGED queue
    <3>1. SummaryItems(order) \in Seq(SummaryType) /\ queue \in Seq(ItemType)
      BY OwingInstances, SummariesAre DEF TypeOK, AdmissionTypes
    <3>2. queue = queue \o SummaryItems(order)
      BY <2>5, <3>1
    <3>3. Owed(queue', worker', i) = Owed(queue \o SummaryItems(order), worker, i)
      BY <2>3, <2>5, <3>2
    <3>4. Kept(Owing)
      BY <3>3, OwingInstances, OwedServed DEF Kept
    <3> QED
      BY <2>2, <3>4
  <2> QED
    BY <2>1, <2>4, <2>5
<1>7. \E due \in SUBSET Owing : TakeBalances(due) /\ UNCHANGED output /\ Kept(due)
  BY <1>3, <1>4, <1>5, <1>6 DEF Requesting
<1> QED
  BY <1>7, ServedBalance DEF Kept

\* Every step that is not a failure keeps the balances.
LEMMA BalancesStep ==
  ASSUME IndInv, Order, Lifecycle, Balances, [Next]_vars, ~Failing', NEW i \in Instances
  PROVE  NextBalanceOf(i)
<1>1. BalanceOf(i)
  BY FailurePublishedStep DEF Balances
<1>2. ASSUME Owed(queue', worker', i) = Owed(queue, worker, i),
             counters'[i].refused["full"] = counters[i].refused["full"],
             counters'[i].reported = counters[i].reported,
             UNCHANGED <<overloadPending, summaryQueued, unconfirmed>>
      PROVE  NextBalanceOf(i)
  BY <1>1, <1>2 DEF NextBalanceOf, BalanceOf
<1>3. ASSUME ~Moving PROVE NextBalanceOf(i)
  <2>1. UNCHANGED queue /\ Owed(queue', worker', i) = Owed(queue, worker, i)
    <3>1. UNCHANGED queue /\ \A s \in SummaryType : NextHandHas({s}) = HandHas({s})
      BY <1>3, OthersMoveNothing
    <3> QED
      BY <3>1, OwedStays
  <2>2. CASE \/ \E p \in Producers, j \in Instances : EmitRefused(p, j) \/ EmitTooLarge(p, j)
             \/ \E j \in Instances : TracingRefuse(j)
    <3>1. PICK j \in Instances, reason \in Reasons : Refusal(j, reason)
      BY <2>2 DEF EmitRefused, EmitTooLarge, TracingRefuse, AdmissionRefusal, Reasons
    <3>2. UNCHANGED output /\ UNCHANGED <<queue, worker>>
      BY <2>2 DEF EmitRefused, EmitTooLarge, TracingRefuse, admission
    <3> QED
      BY <1>1, <3>1, <3>2, RefusalBalance
  <2>3. CASE \E p \in Producers : EmitAbandon(p)
    <3>1. PICK j \in Instances, reason \in Reasons : Refusal(j, reason)
      BY <2>3 DEF EmitAbandon, AdmissionRefusal, Reasons, IndInv, TypeOK, ThreadTypes, ProducerType
    <3>2. UNCHANGED output /\ UNCHANGED <<queue, worker>>
      BY <2>3 DEF EmitAbandon, admission
    <3> QED
      BY <1>1, <3>1, <3>2, RefusalBalance
  <2>4. CASE \E p \in Producers, j \in Instances : EmitFiltered(p, j)
    <3>1. PICK j \in Instances : counters' = [counters EXCEPT ![j].filtered = @ + 1]
      BY <2>4 DEF EmitFiltered
    <3>2. UNCHANGED <<overloadPending, summaryQueued, unconfirmed>>
      BY <2>4 DEF EmitFiltered, output
    <3>3. /\ counters'[i].refused["full"] = counters[i].refused["full"]
          /\ counters'[i].reported = counters[i].reported
      BY <3>1, BalanceTypes DEF CounterType
    <3> QED
      BY <1>2, <2>1, <3>2, <3>3
  <2>5. CASE \/ \E p \in Producers : DropPermit(p)
             \/ \E p \in Producers, j \in Instances, d \in Destinations, c \in Contents :
                    EmitReserve(p, j, d, c)
    <3>1. UNCHANGED perInstance /\ UNCHANGED output
      BY <2>5 DEF DropPermit, EmitReserve
    <3> QED
      BY <1>2, <2>1, <3>1 DEF perInstance, output
  <2>6. CASE ~ProducerStep
    <3>1. /\ UNCHANGED <<overloadPending, summaryQueued>>
          /\ FlushOutput \/ UNCHANGED <<counters, unconfirmed>>
      BY <1>3, <2>6 DEF Moving, Next, ClientStep, FlushRefused, FlushWake, ShutdownBegin,
         ShutdownReturn, WallClock, vars, output, perInstance, WorkerStep, WorkerTop,
         WorkerPeriodic, WorkerWake, WorkerBarrier, WorkerSignal, WorkerDrained, WorkerClosed,
         WorkerFail, WorkerBury, WorkerDropped, WorkerDropGroup, DiscardedByDrop, WorkerFault,
         WorkerError, WorkerPanic
    <3>2. CASE FlushOutput
      BY <1>1, <2>1, <3>1, <3>2, FlushBalance
    <3>3. CASE UNCHANGED <<counters, unconfirmed>>
      BY <1>2, <2>1, <3>1, <3>3
    <3> QED
      BY <3>1, <3>2, <3>3
  <2> QED
    BY <1>3, <2>2, <2>3, <2>4, <2>5, <2>6 DEF ProducerStep, Moving
<1>4. ASSUME NEW p \in Producers, EmitAccept(p) PROVE NextBalanceOf(i)
  <2> DEFINE e == producer[p]
             event == Event(e.instance, e.destination, e.content, sequence + 1, epoch[e.instance])
  <2>1. queue' = Append(queue, event) /\ worker' = worker
    BY <1>4 DEF EmitAccept
  <2>2. event \in ItemType /\ event \notin SummaryType
    <3>1. e.instance \in Instances /\ e.destination \in Destinations /\ e.content \in Contents
      BY <1>4 DEF EmitAccept, IndInv, TypeOK, ThreadTypes, ProducerType
    <3>2. event \in EventType
      BY <3>1 DEF Event, EventType, IndInv, TypeOK, AdmissionTypes, InstanceTypes, OutputTypes
    <3> QED
      BY <3>2 DEF ItemType, EventType, SummaryType
  <2>3. counters' = [counters EXCEPT ![e.instance].accepted = @ + 1]
    BY <1>4 DEF EmitAccept
  <2>4. /\ counters'[i].refused["full"] = counters[i].refused["full"]
        /\ counters'[i].reported = counters[i].reported
    BY <2>3, BalanceTypes DEF CounterType
  <2>5. UNCHANGED <<overloadPending, summaryQueued, unconfirmed>>
    BY <1>4 DEF EmitAccept, output
  <2> HIDE DEF event
  <2>6. Owed(queue', worker', i) = Owed(queue, worker, i)
    BY <2>1, <2>2, OwedAppend DEF IndInv, TypeOK, AdmissionTypes
  <2> QED
    BY <1>2, <2>4, <2>5, <2>6
<1>5. ASSUME Requesting PROVE NextBalanceOf(i)
  BY <1>1, <1>5, RequestBalance
<1>6. ASSUME WorkerMerge \/ WorkerOpenGroup PROVE NextBalanceOf(i)
  <2>1. UNCHANGED queue /\ UNCHANGED perInstance /\ worker'.pc = "top"
    BY <1>6 DEF WorkerMerge, WorkerOpenGroup, Goto, At
  <2>2. worker.pc = "item" /\ worker.item.kind = "event"
    BY <1>6 DEF WorkerMerge, WorkerOpenGroup, HandlingA
  <2>3. Owed(queue', worker', i) = Owed(queue, worker, i)
    <3>1. worker.item \notin SummaryType
      BY <2>2 DEF SummaryType
    <3> QED
      BY <2>1, <2>2, <3>1 DEF Owed
  <2>4. UNCHANGED unconfirmed \/ \E k \in DOMAIN groups : WriteGroup(groups[k])
    BY <1>6 DEF WorkerMerge, WorkerOpenGroup, output
  <2>5. CASE UNCHANGED unconfirmed
    BY <1>2, <2>1, <2>3, <2>5 DEF perInstance
  <2>6. CASE \E k \in DOMAIN groups : WriteGroup(groups[k])
    BY <1>1, <2>1, <2>3, <2>6, GroupBalance
  <2> QED
    BY <2>4, <2>5, <2>6
<1>7. ASSUME WorkerSummary PROVE NextBalanceOf(i)
  BY <1>1, <1>7, SummaryBalance
<1>8. ASSUME NEW k \in Keys, WorkerFinish(k) PROVE NextBalanceOf(i)
  <2>1. k \in DOMAIN groups /\ WriteGroup(groups[k]) /\ UNCHANGED perInstance /\ UNCHANGED queue
    BY <1>8, MustFinishOpen DEF WorkerFinish
  <2>2. Owed(queue', worker', i) = Owed(queue, worker, i)
    BY <1>8, <2>1, FinishHand, OwedStays
  <2> QED
    BY <1>1, <2>1, <2>2, GroupBalance
<1> QED
  BY <1>3, <1>4, <1>5, <1>6, <1>7, <1>8 DEF Moving, Requesting

\* The balances hold in every reachable state.
LEMMA AlwaysBalances == Spec => []Balances
<1>1. Init => Balances
  <2> SUFFICES ASSUME Init, NEW i \in Instances PROVE BalanceOf(i)
    BY DEF Balances
  <2>1. Owed(queue, worker, i) = {}
    BY DEF Init, Owed, At
  <2> QED
    BY <2>1 DEF Init, BalanceOf, Balanced, NothingUnconfirmed, Reasons
<1>2. IndInv /\ Order /\ Lifecycle /\ Balances /\ [Next]_vars => Balances'
  <2> SUFFICES ASSUME IndInv, Order, Lifecycle, Balances, [Next]_vars PROVE Balances'
    OBVIOUS
  <2>1. ~Failing' => \A i \in Instances : NextBalanceOf(i)
    BY BalancesStep
  <2> QED
    BY <2>1 DEF Balances, BalanceOf, NextBalanceOf, Owed
<1> QED
  BY Inductive, AlwaysOrder, AlwaysLifecycle, <1>1, <1>2, PTL DEF Spec

\* Until a failure the overloads counted for an instance (Shared::refusal) are those still
\* pending, in its one summary on its way (Shared::summaries), written but unconfirmed, or
\* reported (flush_output), for any number of threads and instances.
THEOREM OverloadsKept == Spec => []OverloadsAccounted
<1>1. IndInv /\ Order /\ Balances => OverloadsAccounted
  <2> SUFFICES ASSUME IndInv, Order, Balances, ~Failing, NEW i \in Instances
               PROVE  counters[i].refused["full"]
                        = overloadPending[i] + QueuedBalance(i) + unconfirmed[i].overload
                          + counters[i].reported
    BY DEF OverloadsAccounted
  <2> USE BalanceTypes
  <2> DEFINE owed == Owed(queue, worker, i)
             held == IF HandlingA("summary") /\ worker.item.instance = i THEN worker.item.count ELSE 0
             counted == [n \in QueuedSummaries(i) |-> queue[n].count]
  <2>1. queue \in Seq(ItemType) /\ \A n \in DOMAIN queue : queue[n] \in ItemType
    BY DEF IndInv, TypeOK, AdmissionTypes
  <2>2. \A n \in QueuedSummaries(i) : queue[n] \in SummaryType /\ n \in Numbered(queue) /\ n \in Nat
    BY <2>1 DEF QueuedSummaries, ItemType, EventType, BarrierType, Shutdown, SummaryType, Numbered
  <2>3. HandlingA("summary") => worker.item \in SummaryType
    BY InHandTypes DEF HandlingA, IndInv
  <2>4. /\ \A n \in QueuedSummaries(i) : queue[n] \in owed
        /\ HandlingA("summary") /\ worker.item.instance = i => worker.item \in owed
    BY <2>2, <2>3 DEF Owed, QueuedSummaries, HandlingA
  <2>5. \A m, n \in QueuedSummaries(i) : queue[m] = queue[n] => m = n
    <3>1. ASSUME NEW m \in QueuedSummaries(i), NEW n \in QueuedSummaries(i), m < n
          PROVE  queue[m] # queue[n]
      <4>1. queue[m].seq < queue[n].seq /\ queue[m].seq \in Nat
        BY <2>2, <3>1 DEF Order, QueueInOrder, Sorted, SummaryType
      <4> QED
        BY <4>1
    <3>2. \A m, n \in Nat : m < n \/ n < m \/ m = n
      OBVIOUS
    <3>3. QueuedSummaries(i) \subseteq Nat
      BY <2>2
    <3> QED
      BY <3>1, <3>2, <3>3
  <2>6. HandlingA("summary") => \A n \in QueuedSummaries(i) : queue[n] # worker.item
    <3> SUFFICES ASSUME HandlingA("summary"), NEW n \in QueuedSummaries(i), queue[n] = worker.item
                 PROVE  FALSE
      OBVIOUS
    <3>1. HoldsNumber
      BY DEF HandlingA, HoldsNumber, IsNumbered
    <3>2. worker.item.seq < queue[n].seq /\ worker.item.seq \in Nat
      BY <2>2, <2>3, <3>1 DEF Order, QueueInOrder, SummaryType
    <3> QED
      BY <3>2
  <2>7. BalanceOf(i)
    BY DEF Balances
  <2>8. QueuedBalance(i) = SumFunction(counted) + held
    BY DEF QueuedBalance
  <2>9. CASE QueuedSummaries(i) = {}
    <3>1. SumFunction(counted) = 0
      BY <2>9, SumOfNone
    <3>2. CASE HandlingA("summary") /\ worker.item.instance = i
      <4>1. /\ worker.item.count \in Nat
            /\ counters[i].refused["full"]
                 = (overloadPending[i] + unconfirmed[i].overload + counters[i].reported)
                   + worker.item.count
        BY <2>3, <2>4, <2>7, <3>2 DEF BalanceOf, Balanced, SummaryType
      <4>2. QueuedBalance(i) = worker.item.count
        BY <2>8, <3>1, <3>2, <4>1
      <4> QED
        BY <4>1, <4>2
    <3>3. CASE ~(HandlingA("summary") /\ worker.item.instance = i)
      <4>1. owed = {}
        BY <2>1, <2>9, <3>3 DEF Owed, QueuedSummaries, HandlingA, SummaryType
      <4>2. counters[i].refused["full"]
               = overloadPending[i] + unconfirmed[i].overload + counters[i].reported
        BY <2>7, <4>1 DEF BalanceOf, Balanced
      <4>3. QueuedBalance(i) = 0
        BY <2>8, <3>1, <3>3
      <4> QED
        BY <4>2, <4>3
    <3> QED
      BY <3>2, <3>3
  <2>10. CASE QueuedSummaries(i) # {}
    <3>1. PICK n \in QueuedSummaries(i) : TRUE
      BY <2>10
    <3>2. /\ owed = {queue[n]} /\ queue[n].count \in Nat
          /\ counters[i].refused["full"]
               = (overloadPending[i] + unconfirmed[i].overload + counters[i].reported)
                 + queue[n].count
      BY <2>2, <2>4, <2>7, <3>1 DEF BalanceOf, Balanced, SummaryType
    <3>3. QueuedSummaries(i) = {n} /\ held = 0
      BY <2>4, <2>5, <2>6, <3>1, <3>2
    <3>4. SumFunction(counted) = queue[n].count
      <4> DEFINE none == [m \in {} |-> 0]
      <4>1. Summable(none) /\ SumFunction(none) = 0
        BY FS_EmptySet, SumOfNone DEF Summable
      <4>2. n \notin DOMAIN none /\ DOMAIN counted = DOMAIN none \cup {n} /\ counted[n] = queue[n].count
        BY <3>3
      <4>3. \A m \in DOMAIN none : counted[m] = none[m]
        OBVIOUS
      <4> HIDE DEF none, counted
      <4>4. SumFunction(counted) = SumFunction(none) + counted[n]
        BY <3>2, <4>1, <4>2, <4>3, SumGrows
      <4> QED
        BY <3>2, <4>1, <4>2, <4>4
    <3> HIDE DEF counted, held
    <3> QED
      BY <2>8, <3>2, <3>3, <3>4
  <2> QED
    BY <2>9, <2>10
<1> QED
  BY Inductive, AlwaysOrder, AlwaysBalances, <1>1, PTL
-----------------------------------------------------------------------------
(* The end of the engine *)

NoShutdown(q) == \A n \in DOMAIN q : q[n].kind # "shutdown"
\* While the runtime is open nobody has asked for its end.
NotAskedYet == health = "open" => NoShutdown(queue) /\ ~HandlingA("shutdown")
\* The end of the drain: nothing is queued, pending, grouped or unconfirmed any more.
Ending ==
    /\ health = "closed" => worker.pc = "exited"
    /\ worker.pc \in {"draining", "closing"} =>
          /\ health = "closing" /\ queue = <<>>
          /\ \A i \in Instances : overloadPending[i] = 0
    /\ worker.pc = "closing" =>
          /\ DOMAIN groups = {}
          /\ unconfirmed = [i \in Instances |-> NothingUnconfirmed]

\* Queues without a shutdown item.
LEMMA NoShutdownQueues ==
  ASSUME TypeOK, NoShutdown(queue)
  PROVE  /\ \A x \in ItemType : x.kind # "shutdown" => NoShutdown(Append(queue, x))
         /\ \A due \in SUBSET Instances : \A order \in Ascending(due) :
                /\ NoShutdown(queue \o SummaryItems(order))
                /\ \A x \in ItemType :
                      x.kind # "shutdown" => NoShutdown(Append(queue \o SummaryItems(order), x))
<1>1. ASSUME NEW q \in Seq(ItemType), NoShutdown(q), NEW x \in ItemType, x.kind # "shutdown"
      PROVE  NoShutdown(Append(q, x))
  BY <1>1 DEF NoShutdown
<1>2. queue \in Seq(ItemType)
  BY DEF TypeOK, AdmissionTypes
<1>3. ASSUME NEW due \in SUBSET Instances, NEW order \in Ascending(due)
      PROVE  NoShutdown(queue \o SummaryItems(order)) /\ queue \o SummaryItems(order) \in Seq(ItemType)
  <2> DEFINE items == SummaryItems(order)
  <2>1. items \in Seq(SummaryType)
    BY SummariesAre
  <2>3. queue \o items \in Seq(ItemType)
    BY SummariesQueued
  <2> HIDE DEF items
  <2>2. \A n \in 1..Len(items) : items[n].kind # "shutdown"
    <3>1. \A n \in 1..Len(items) : items[n] \in SummaryType
      BY <2>1
    <3> QED
      BY <3>1 DEF SummaryType
  <2>4. NoShutdown(queue \o items)
    BY <1>2, <2>1, <2>2 DEF NoShutdown
  <2> QED
    BY <2>3, <2>4 DEF items
<1> QED
  BY <1>1, <1>2, <1>3

\* A runtime is never opened again.
LEMMA OpenBefore == ASSUME [Next]_vars, health' = "open" PROVE health = "open"
<1>1. CASE ProducerStep
  BY <1>1 DEF ProducerStep, EmitReserve, EmitRefused, EmitTooLarge, EmitFiltered, EmitAccept,
              EmitAbandon, DropPermit, TracingRefuse, admission
<1>2. CASE ClientStep \/ WallClock \/ UNCHANGED vars
  BY <1>2 DEF ClientStep, FlushBegin, FlushRefused, FlushWake, ShutdownBegin, ShutdownReturn,
              WallClock, vars, admission
<1>3. CASE WorkerStep \/ WorkerFault
  BY <1>3 DEF WorkerStep, WorkerFault, WorkerTop, WorkerPeriodic, WorkerTake, WorkerWake,
     WorkerMerge, WorkerOpenGroup, WorkerSummary, WorkerBarrier, WorkerSignal, WorkerShutdown,
     WorkerDrained, WorkerClosed, WorkerFail, WorkerBury, WorkerDropped, WorkerFinish,
     WorkerDropGroup, WorkerError, WorkerPanic, admission
<1> QED
  BY <1>1, <1>2, <1>3 DEF Next

\* Only a call of `shutdown` queues the shutdown item, and closes admission with it.
LEMMA NotAskedStep ==
  ASSUME IndInv, NotAskedYet, [Next]_vars
  PROVE  NotAskedYet'
<1> SUFFICES ASSUME health' = "open" PROVE NoShutdown(queue') /\ ~(worker'.pc = "item" /\ worker'.item.kind = "shutdown")
  BY DEF NotAskedYet, HandlingA, NoShutdown
<1>1. health = "open" /\ NoShutdown(queue) /\ ~HandlingA("shutdown") /\ TypeOK
  BY OpenBefore DEF NotAskedYet, IndInv
<1>2. ASSUME UNCHANGED queue, worker' = worker \/ worker'.pc # "item"
      PROVE  NoShutdown(queue') /\ ~(worker'.pc = "item" /\ worker'.item.kind = "shutdown")
  BY <1>1, <1>2 DEF HandlingA
<1>3. CASE ProducerStep
  <2>1. CASE \E p \in Producers : EmitAccept(p)
    <3>1. PICK p \in Producers : EmitAccept(p)
      BY <2>1
    <3> DEFINE e == producer[p]
               event == Event(e.instance, e.destination, e.content, sequence + 1, epoch[e.instance])
    <3>2. queue' = Append(queue, event) /\ worker' = worker
      BY <3>1 DEF EmitAccept
    <3>3. event \in ItemType /\ event.kind # "shutdown"
      <4>1. e.instance \in Instances /\ e.destination \in Destinations /\ e.content \in Contents
        BY <3>1 DEF EmitAccept, IndInv, TypeOK, ThreadTypes, ProducerType
      <4>2. event \in EventType
        BY <4>1 DEF Event, EventType, IndInv, TypeOK, AdmissionTypes, InstanceTypes, OutputTypes
      <4> QED
        BY <4>2 DEF ItemType, EventType
    <3> HIDE DEF event
    <3>4. NoShutdown(queue')
      BY <1>1, <3>2, <3>3, NoShutdownQueues
    <3> QED
      BY <1>1, <3>2, <3>4 DEF HandlingA
  <2>2. CASE ~\E p \in Producers : EmitAccept(p)
    BY <1>2, <1>3, <2>2 DEF ProducerStep, EmitReserve, EmitRefused, EmitTooLarge, EmitFiltered,
       EmitAbandon, DropPermit, TracingRefuse, admission
  <2> QED
    BY <2>1, <2>2
<1>4. CASE \E c \in Clients : FlushBegin(c)
  <2>1. PICK order \in Ascending(Owing) :
          queue' = Append(queue \o SummaryItems(order), Barrier(nextBarrier'))
    BY <1>4 DEF FlushBegin
  <2>2. Barrier(nextBarrier') \in ItemType /\ Barrier(nextBarrier').kind # "shutdown"
    BY <1>4 DEF FlushBegin, Barrier, BarrierType, IndInv, TypeOK, AdmissionTypes, ItemType
  <2>3. NoShutdown(queue') /\ worker' = worker
    BY <1>1, <1>4, <2>1, <2>2, OwingInstances, NoShutdownQueues DEF FlushBegin
  <2> QED
    BY <1>1, <2>3 DEF HandlingA
<1>5. CASE \/ ClientStep /\ ~\E c \in Clients : FlushBegin(c)
           \/ WallClock \/ UNCHANGED vars
  BY <1>1, <1>2, <1>5 DEF ClientStep, FlushRefused, FlushWake, ShutdownBegin, ShutdownReturn,
     WallClock, vars, admission
<1>6. CASE WorkerTake
  <2>1. PICK due \in SUBSET Instances :
          \E order \in Ascending(due) : TakeNext(queue \o SummaryItems(order))
    BY <1>6, OwingInstances DEF WorkerTake
  <2>2. PICK order \in Ascending(due) : TakeNext(queue \o SummaryItems(order))
    BY <2>1
  <2> DEFINE q == queue \o SummaryItems(order)
  <2>3. q \in Seq(ItemType) /\ NoShutdown(q)
    BY <1>1, SummariesQueued, NoShutdownQueues
  <2>4. CASE q # <<>> /\ worker' = Handling(Head(q)) /\ queue' = Tail(q)
    <3> HIDE DEF q
    <3>1. Head(q).kind # "shutdown" /\ NoShutdown(Tail(q))
      BY <2>3, <2>4 DEF NoShutdown
    <3> QED
      BY <2>4, <3>1 DEF Handling
  <2>5. CASE Goto("waiting") /\ queue' = queue
    BY <1>2, <2>5 DEF Goto, At
  <2> QED
    BY <2>2, <2>4, <2>5 DEF TakeNext
<1>7. CASE WorkerShutdown
  BY <1>1, <1>7 DEF WorkerShutdown
<1>8. CASE \E k \in Keys : WorkerFinish(k)
  <2>1. worker.pc \in {"expire", "item", "draining"} /\ UNCHANGED queue
    BY <1>8 DEF WorkerFinish, MustFinish, HandlingA
  <2>2. worker \in WorkerAt
    BY <2>1 DEF IndInv, TypeOK, WorkerTypes, WorkerType, WorkerAt
  <2>3. worker'.pc = worker.pc /\ worker'.item = worker.item
    BY <1>8, <2>2 DEF WorkerFinish, WorkerAt
  <2> QED
    BY <1>1, <2>1, <2>3 DEF HandlingA
<1>9. CASE WorkerBarrier
  <2>1. worker'.pc # "item" /\ UNCHANGED queue
    BY <1>9 DEF WorkerBarrier, HandlingA, IndInv, TypeOK, WorkerTypes, WorkerType, admission
  <2> QED
    BY <1>2, <2>1
<1>10. CASE /\ WorkerStep \/ WorkerFault
            /\ ~WorkerTake /\ ~WorkerShutdown /\ ~WorkerBarrier /\ ~\E k \in Keys : WorkerFinish(k)
  <2>1. CASE WorkerFail
    BY <2>1 DEF WorkerFail
  <2>2. CASE WorkerBury
    <3>1. worker'.pc # "item"
      BY <2>2 DEF WorkerBury, Goto, At, IndInv, TypeOK, WorkerTypes, WorkerType
    <3> QED
      BY <1>2, <2>2, <3>1 DEF WorkerBury
  <2>3. CASE ~WorkerFail /\ ~WorkerBury
    BY <1>2, <1>10, <2>3 DEF WorkerStep, WorkerFault, WorkerTop, WorkerPeriodic, WorkerWake,
       WorkerMerge, WorkerOpenGroup, WorkerSummary, WorkerSignal, WorkerDrained, WorkerClosed,
       WorkerDropped, WorkerDropGroup, WorkerError, WorkerPanic, admission, Goto, At
  <2> QED
    BY <2>1, <2>2, <2>3
<1> QED
  BY <1>3, <1>4, <1>5, <1>6, <1>7, <1>8, <1>9, <1>10 DEF Next, WorkerStep

\* At the end of the drain the balances are settled: the shutdown item served those that
\* could be, and found no summary queued behind it; and admission is closed.
LEMMA DrainStarts ==
  ASSUME IndInv, Lifecycle, NotAskedYet, Ending, Balances, WorkerShutdown,
         worker'.pc = "draining"
  PROVE  /\ health' = "closing" /\ queue' = <<>>
         /\ \A i \in Instances : overloadPending'[i] = 0
<1> USE DEF IndInv
<1>1. worker.pc = "item" /\ worker.item.kind = "shutdown" /\ health' = health
  BY DEF WorkerShutdown, HandlingA
<1>2. health = "closing"
  <2>1. health # "open" /\ health # "closed"
    BY <1>1 DEF NotAskedYet, HandlingA, Ending
  <2>2. health # "failed"
    BY <1>1 DEF Lifecycle, DyingWhenFailed
  <2> QED
    BY <2>1, <2>2 DEF TypeOK, AdmissionTypes
<1>3. PICK order \in Ascending(Owing) : queue \o SummaryItems(order) = <<>> /\ queue' = queue
  BY DEF WorkerShutdown, FinalBalances, Remains, Goto, At
<1>4. queue = <<>>
  <2>1. SummaryItems(order) \in Seq(SummaryType) /\ queue \in Seq(ItemType)
    BY OwingInstances, SummariesAre DEF TypeOK, AdmissionTypes
  <2> QED
    BY <1>3, <2>1
<1>5. ASSUME NEW i \in Instances PROVE overloadPending'[i] = 0
  <2>1. overloadPending'[i] = IF i \in Owing THEN 0 ELSE overloadPending[i]
    BY DEF WorkerShutdown, TakeBalances, FinalBalances
  <2>2. Owed(queue, worker, i) = {}
    BY <1>1, <1>4 DEF Owed, SummaryType
  <2>3. BalanceOf(i)
    BY <1>1, <1>2 DEF Balances, Failing
  <2>4. ~summaryQueued[i]
    BY <2>2, <2>3 DEF BalanceOf, Balanced
  <2>5. overloadPending[i] \in Nat
    BY BalanceTypes
  <2>6. i \notin Owing => overloadPending[i] = 0
    BY <2>4, <2>5 DEF Owing
  <2> QED
    BY <2>1, <2>6
<1> QED
  BY <1>1, <1>2, <1>3, <1>4, <1>5

\* With the tracing layer aside, every step keeps the end of the drain.
LEMMA EndingStep ==
  ASSUME ~TracingLayer, IndInv, Lifecycle, NotAskedYet, Ending, Balances, [Next]_vars
  PROVE  Ending'
<1> USE DEF Ending
<1>1. ASSUME health # "open", NEW p \in Producers, NEW i \in Instances,
             \/ EmitRefused(p, i) \/ EmitTooLarge(p, i) \/ EmitFiltered(p, i)
             \/ EmitAbandon(p) \/ DropPermit(p)
      PROVE  UNCHANGED <<queue, overloadPending>>
  BY <1>1 DEF EmitRefused, EmitTooLarge, EmitFiltered, EmitAbandon, DropPermit, Refusal,
     AdmissionRefusal, admission, perInstance
<1>2. CASE ProducerStep
  <2>1. UNCHANGED <<health, worker, groups, unconfirmed>>
    BY <1>2 DEF ProducerStep, EmitReserve, EmitRefused, EmitTooLarge, EmitFiltered, EmitAccept,
       EmitAbandon, DropPermit, TracingRefuse, admission, output
  <2>2. health = "open" \/ UNCHANGED <<queue, overloadPending>>
    <3>1. health # "open" => \E p \in Producers, i \in Instances :
             \/ EmitRefused(p, i) \/ EmitTooLarge(p, i) \/ EmitFiltered(p, i)
             \/ EmitAbandon(p) \/ DropPermit(p)
      <4>1. 1 \in Instances
        BY InstancesAssumption DEF Instances
      <4> QED
        BY <1>2, <4>1 DEF ProducerStep, EmitReserve, EmitAccept, TracingRefuse
    <3> QED
      BY <1>1, <3>1
  <2> QED
    BY <2>1, <2>2
<1>3. CASE ClientStep \/ WallClock \/ UNCHANGED vars
  <2>1. UNCHANGED <<worker, groups, unconfirmed>>
    BY <1>3 DEF ClientStep, FlushBegin, FlushRefused, FlushWake, ShutdownBegin, ShutdownReturn,
       WallClock, vars, output
  <2>2. health = "open" \/ UNCHANGED <<health, queue, overloadPending>>
    BY <1>3 DEF ClientStep, FlushBegin, FlushRefused, FlushWake, ShutdownBegin, ShutdownReturn,
       WallClock, vars, admission, perInstance
  <2>3. health = "open" => health' # "closed"
    BY <1>3 DEF ClientStep, FlushBegin, FlushRefused, FlushWake, ShutdownBegin, ShutdownReturn,
       WallClock, vars, admission, perInstance
  <2> QED
    BY <2>1, <2>2, <2>3
<1>4. CASE WorkerStep \/ WorkerFault
  <2>1. CASE worker.pc \in {"burying", "dying", "exited"}
    <3>1. WorkerBury \/ WorkerDropped \/ \E k \in Keys : WorkerDropGroup(k)
      BY <1>4, <2>1, DyingSteps
    <3>2. worker'.pc \notin {"draining", "closing"} /\ health' = health
      BY <2>1, <3>1 DEF WorkerBury, WorkerDropped, WorkerDropGroup, Goto, At, admission, IndInv,
         TypeOK, WorkerTypes, WorkerType
    <3>3. worker.pc = "exited" => worker'.pc = "exited"
      BY <3>1 DEF WorkerBury, WorkerDropped, WorkerDropGroup
    <3> QED
      BY <3>2, <3>3
  <2>2. CASE worker.pc \notin {"burying", "dying", "exited", "draining", "closing"}
    <3>1. health # "closed" /\ health # "failed"
      BY <2>2 DEF Lifecycle, DyingWhenFailed
    <3>2. worker'.pc = "draining" => WorkerShutdown
      <4>1. CASE \E k \in Keys : WorkerFinish(k)
        <5>1. worker.pc \in {"expire", "item"}
          BY <2>2, <4>1 DEF WorkerFinish, MustFinish, HandlingA
        <5>2. worker \in WorkerAt
          BY <5>1 DEF IndInv, TypeOK, WorkerTypes, WorkerType, WorkerAt
        <5> QED
          BY <4>1, <5>1, <5>2 DEF WorkerFinish, WorkerAt
      <4>2. CASE WorkerBarrier \/ WorkerFail
        BY <4>2 DEF WorkerBarrier, WorkerFail, HandlingA, IndInv, TypeOK, WorkerTypes, WorkerType
      <4>3. CASE ~WorkerBarrier /\ ~WorkerFail /\ ~\E k \in Keys : WorkerFinish(k)
        BY <1>4, <2>2, <4>3 DEF WorkerStep, WorkerFault, WorkerTop, WorkerPeriodic, WorkerTake, TakeNext,
           Handling, WorkerWake, WorkerMerge, WorkerOpenGroup, WorkerSummary, WorkerSignal,
           WorkerDrained, WorkerClosed, WorkerBury, WorkerDropped, WorkerDropGroup, WorkerError,
           WorkerPanic, Goto, At
      <4> QED
        BY <4>1, <4>2, <4>3
    <3>3. worker'.pc # "closing"
      <4>1. CASE \E k \in Keys : WorkerFinish(k)
        <5>1. worker.pc \in {"expire", "item"}
          BY <2>2, <4>1 DEF WorkerFinish, MustFinish, HandlingA
        <5>2. worker \in WorkerAt
          BY <5>1 DEF IndInv, TypeOK, WorkerTypes, WorkerType, WorkerAt
        <5> QED
          BY <4>1, <5>1, <5>2 DEF WorkerFinish, WorkerAt
      <4>2. CASE WorkerBarrier \/ WorkerFail
        BY <4>2 DEF WorkerBarrier, WorkerFail, HandlingA, IndInv, TypeOK, WorkerTypes, WorkerType
      <4>3. CASE ~WorkerBarrier /\ ~WorkerFail /\ ~\E k \in Keys : WorkerFinish(k)
        BY <1>4, <2>2, <4>3 DEF WorkerStep, WorkerFault, WorkerTop, WorkerPeriodic, WorkerTake, TakeNext,
           Handling, WorkerWake, WorkerMerge, WorkerOpenGroup, WorkerSummary, WorkerSignal, WorkerShutdown,
           WorkerDrained, WorkerClosed, WorkerBury, WorkerDropped, WorkerDropGroup, WorkerError,
           WorkerPanic, Goto, At
      <4> QED
        BY <4>1, <4>2, <4>3
    <3>4. health' # "closed"
      BY <1>4, <2>2, <3>1 DEF WorkerStep, WorkerFault, WorkerTop, WorkerPeriodic, WorkerTake, WorkerWake,
         WorkerMerge, WorkerOpenGroup, WorkerSummary, WorkerBarrier, WorkerSignal, WorkerShutdown,
         WorkerDrained, WorkerClosed, WorkerFail, WorkerBury, WorkerDropped, WorkerFinish,
         WorkerDropGroup, WorkerError, WorkerPanic, admission
    <3> QED
      BY <3>2, <3>3, <3>4, DrainStarts
  <2>3. CASE worker.pc = "draining"
    <3>1. /\ health = "closing" /\ queue = <<>>
          /\ \A i \in Instances : overloadPending[i] = 0
      BY <2>3
    <3>2. CASE \E k \in Keys : WorkerFinish(k)
      <4>1. worker \in WorkerAt
        BY <2>3 DEF IndInv, TypeOK, WorkerTypes, WorkerType, WorkerAt
      <4>2. worker'.pc = "draining" /\ UNCHANGED <<health, queue>> /\ UNCHANGED perInstance
        BY <2>3, <3>2, <4>1 DEF WorkerFinish, WorkerAt
      <4> QED
        BY <3>1, <4>2 DEF perInstance
    <3>3. CASE WorkerDrained
      <4>1. unconfirmed' = [i \in Instances |-> NothingUnconfirmed]
        BY <3>3 DEF WorkerDrained, FlushOutput, output
      <4>2. /\ UNCHANGED <<health, queue, overloadPending, groups>> /\ groups = <<>>
            /\ worker'.pc = "closing"
        BY <3>3 DEF WorkerDrained, admission, Goto, At
      <4>3. DOMAIN groups' = {}
        BY <4>2
      <4> QED
        BY <3>1, <4>1, <4>2, <4>3
    <3>4. CASE WorkerFault
      BY <3>1, <3>4 DEF WorkerFault, WorkerError, WorkerPanic, Goto, At
    <3> QED
      BY <1>4, <2>3, <3>2, <3>3, <3>4 DEF WorkerStep, WorkerTop, WorkerPeriodic, WorkerTake, WorkerWake,
         WorkerMerge, WorkerOpenGroup, WorkerSummary, WorkerBarrier, WorkerSignal, WorkerShutdown,
         WorkerClosed, WorkerFail, WorkerBury, WorkerDropped, WorkerDropGroup, HandlingA
  <2>4. CASE worker.pc = "closing"
    <3>1. WorkerClosed \/ WorkerFault
      <4>1. MustFinish = {}
        BY <2>4 DEF MustFinish, HandlingA
      <4> QED
        BY <1>4, <2>4, <4>1 DEF WorkerStep, WorkerTop, WorkerPeriodic, WorkerTake, WorkerWake,
           WorkerMerge, WorkerOpenGroup, WorkerSummary, WorkerBarrier, WorkerSignal, WorkerShutdown,
           WorkerDrained, WorkerFail, WorkerBury, WorkerDropped, WorkerFinish, WorkerDropGroup, HandlingA
    <3>2. worker'.pc \in {"exited", "failing", "unwinding"} /\ (health' = "closed" => worker'.pc = "exited")
      BY <2>4, <3>1 DEF WorkerClosed, WorkerFault, WorkerError, WorkerPanic, Goto, At
    <3> QED
      BY <3>2
  <2> QED
    BY <2>1, <2>2, <2>3, <2>4
<1> QED
  BY <1>2, <1>3, <1>4 DEF Next

\* Nobody asks for the end before it is asked for.
LEMMA AlwaysNotAsked == Spec => []NotAskedYet
<1>1. Init => NotAskedYet
  BY DEF Init, NotAskedYet, NoShutdown, HandlingA, At
<1>2. IndInv /\ NotAskedYet /\ [Next]_vars => NotAskedYet'
  BY NotAskedStep
<1> QED
  BY Inductive, <1>1, <1>2, PTL DEF Spec

\* The drain ends as described, in every behaviour without the tracing layer.
LEMMA AlwaysEnding == ASSUME ~TracingLayer PROVE Spec => []Ending
<1>1. Init => Ending
  BY DEF Init, Ending, At
<1>2. IndInv /\ Lifecycle /\ NotAskedYet /\ Ending /\ Balances /\ [Next]_vars => Ending'
  BY EndingStep
<1> QED
  BY Inductive, AlwaysLifecycle, AlwaysNotAsked, AlwaysBalances, <1>1, <1>2, PTL DEF Spec
-----------------------------------------------------------------------------
(* The engine implements LogContract *)

\* What the contract sees of the instances.
SeenOf(c, i) == <<c[i].accepted, c[i].written, c[i].refused["full"], c[i].reported>>

\* A step that moves nothing the contract sees is a stutter of it.
LEMMA ContractStutters ==
  ASSUME health' = health, \A i \in Instances : SeenOf(counters', i) = SeenOf(counters, i)
  PROVE  UNCHANGED Contract!vars
<1>1. \A i \in Instances :
         /\ counters'[i].accepted = counters[i].accepted
         /\ counters'[i].written = counters[i].written
         /\ counters'[i].refused["full"] = counters[i].refused["full"]
         /\ counters'[i].reported = counters[i].reported
  BY DEF SeenOf
<1> QED
  BY <1>1 DEF Contract!vars

\* A refusal for lack of room, while open, is an overload; the others are not seen.
LEMMA ContractRefuses ==
  ASSUME IndInv, NEW j \in Instances, NEW reason \in Reasons, Refusal(j, reason), health' = health,
         reason = "full" => health = "open"
  PROVE  [Contract!Next]_(Contract!vars)
<1>1. counters \in [Instances -> CounterType]
  BY DEF IndInv, TypeOK, InstanceTypes
<1>2. counters' = [counters EXCEPT ![j].refused[reason] = @ + 1]
  BY DEF Refusal
<1>3. \A i \in Instances :
         /\ counters'[i].accepted = counters[i].accepted
         /\ counters'[i].written = counters[i].written
         /\ counters'[i].reported = counters[i].reported
         /\ counters'[i].refused["full"] =
               IF i = j /\ reason = "full" THEN counters[i].refused["full"] + 1
                                           ELSE counters[i].refused["full"]
  BY <1>1, <1>2 DEF CounterType, Reasons
<1>4. CASE reason = "full"
  <2>1. Contract!Overload(j)
    BY <1>3, <1>4 DEF Contract!Overload
  <2> QED
    BY <2>1 DEF Contract!Next
<1>5. CASE reason # "full"
  BY <1>3, <1>5, ContractStutters DEF SeenOf
<1> QED
  BY <1>4, <1>5

\* A flush confirms no more than was accepted, and reports no more than was refused.
LEMMA ContractConfirms ==
  ASSUME IndInv, Lifecycle, Ending, Balances, Accounts, FlushOutput, health' = health,
         worker.pc \in {"expire", "item", "draining"}
  PROVE  [Contract!Next]_(Contract!vars)
<1>1. ~Failing /\ health \in {"open", "closing"}
  BY DEF Ending, Lifecycle, DyingWhenFailed, Failing, IndInv, TypeOK, AdmissionTypes
<1>2. CASE UNCHANGED counters
  BY <1>2, ContractStutters DEF SeenOf
<1>3. CASE counters' = [i \in Instances |->
                [counters[i] EXCEPT !.written = @ + unconfirmed[i].occurrences,
                                    !.lines = @ + unconfirmed[i].lines,
                                    !.reported = @ + unconfirmed[i].overload]]
  <2>1. ASSUME NEW i \in Instances
        PROVE  /\ counters'[i].accepted = counters[i].accepted
               /\ counters'[i].refused["full"] = counters[i].refused["full"]
               /\ counters'[i].written \in Nat /\ counters'[i].reported \in Nat
               /\ counters[i].written <= counters'[i].written
               /\ counters'[i].written <= counters[i].accepted
               /\ counters[i].reported <= counters'[i].reported
               /\ counters'[i].reported <= counters[i].refused["full"]
    <3>1. /\ counters[i] \in CounterType /\ overloadPending[i] \in Nat
          /\ unconfirmed[i].occurrences \in Nat /\ unconfirmed[i].overload \in Nat
      BY DEF IndInv, TypeOK, InstanceTypes, OutputTypes
    <3>2. counters'[i] = [counters[i] EXCEPT !.written = @ + unconfirmed[i].occurrences,
                                             !.lines = @ + unconfirmed[i].lines,
                                             !.reported = @ + unconfirmed[i].overload]
      BY <1>3
    <3>3. /\ counters'[i].accepted = counters[i].accepted
          /\ counters'[i].refused["full"] = counters[i].refused["full"]
          /\ counters'[i].written = counters[i].written + unconfirmed[i].occurrences
          /\ counters'[i].reported = counters[i].reported + unconfirmed[i].overload
          /\ counters[i].written \in Nat /\ counters[i].reported \in Nat
          /\ counters[i].accepted \in Nat /\ counters[i].refused["full"] \in Nat
      BY <3>1, <3>2 DEF CounterType, Reasons
    <3>4. counters[i].written + unconfirmed[i].occurrences <= counters[i].accepted
      BY DEF Accounts, WrittenWithin
    <3>5. counters[i].reported + unconfirmed[i].overload <= counters[i].refused["full"]
      <4>1. BalanceOf(i)
        BY <1>1 DEF Balances
      <4>2. \/ counters[i].refused["full"]
                 = overloadPending[i] + unconfirmed[i].overload + counters[i].reported
            \/ \E n \in Nat : counters[i].refused["full"]
                 = (overloadPending[i] + unconfirmed[i].overload + counters[i].reported) + n
        BY <4>1 DEF BalanceOf, Balanced, SummaryType
      <4> QED
        BY <3>1, <3>3, <4>2
    <3> QED
      BY <3>1, <3>3, <3>4, <3>5
  <2>2. Contract!Confirm
    BY <1>1, <2>1 DEF Contract!Confirm, Contract!Running, Contract!Advances
  <2> QED
    BY <2>2 DEF Contract!Next
<1> QED
  BY <1>2, <1>3 DEF FlushOutput

\* The engine closes only once everything is settled.
LEMMA ContractFinishes ==
  ASSUME IndInv, Lifecycle, Ending, Balances, Accounts, WorkerClosed
  PROVE  Contract!Finish
<1>1. /\ worker.pc = "closing" /\ health' = "closed" /\ counters' = counters
      /\ health = "closing" /\ queue = <<>> /\ DOMAIN groups = {}
      /\ unconfirmed = [i \in Instances |-> NothingUnconfirmed]
      /\ \A i \in Instances : overloadPending[i] = 0
  BY DEF WorkerClosed, Ending, perInstance
<1>2. ~Failing
  BY <1>1 DEF Failing
<1>3. ASSUME NEW i \in Instances PROVE counters[i].written = counters[i].accepted
  <2>1. counters[i].accepted = counters[i].written + unconfirmed[i].occurrences
                               + InTransit(EventsOf(i), {i})
    BY <1>2 DEF Accounts, EventsPlaced
  <2>2. InTransit(EventsOf(i), {i}) = 0
    <3>1. Places(queue, EventsOf(i)) = {} /\ HandHas(EventsOf(i)) = 0
      BY <1>1 DEF Places, HandHas
    <3>2. Grouped(groups, {i}) = 0 /\ Cardinality({}) = 0
      BY <1>1, GroupsSummable, GroupedNatural, FS_EmptySet DEF IndInv
    <3> QED
      BY <3>1, <3>2 DEF InTransit
  <2>3. unconfirmed[i].occurrences = 0
    BY <1>1 DEF NothingUnconfirmed
  <2>4. counters[i].written \in Nat
    BY DEF IndInv, TypeOK, InstanceTypes, CounterType
  <2> QED
    BY <2>1, <2>2, <2>3, <2>4
<1>4. ASSUME NEW i \in Instances PROVE counters[i].reported = counters[i].refused["full"]
  <2>1. BalanceOf(i)
    BY <1>2 DEF Balances
  <2>2. Owed(queue, worker, i) = {}
    BY <1>1 DEF Owed
  <2>3. counters[i].refused["full"]
          = overloadPending[i] + unconfirmed[i].overload + counters[i].reported
    BY <2>1, <2>2 DEF BalanceOf, Balanced
  <2>4. overloadPending[i] = 0 /\ unconfirmed[i].overload = 0 /\ counters[i].reported \in Nat
    BY <1>1, BalanceTypes DEF NothingUnconfirmed
  <2> QED
    BY <2>3, <2>4
<1> QED
  BY <1>1, <1>3, <1>4 DEF Contract!Finish, Contract!Settled

\* Every step of the engine is a step of the contract, or a stutter of it.
LEMMA ContractStep ==
  ASSUME ~TracingLayer, IndInv, Lifecycle, Ending, Balances, Accounts, [Next]_vars
  PROVE  [Contract!Next]_(Contract!vars)
<1>1. CASE ProducerStep
  <2>1. CASE \/ \E p \in Producers, j \in Instances : EmitRefused(p, j) \/ EmitTooLarge(p, j)
             \/ \E p \in Producers : EmitAbandon(p)
    <3>1. PICK j \in Instances, reason \in Reasons :
             Refusal(j, reason) /\ (reason = "full" => health = "open")
      BY <2>1 DEF EmitRefused, EmitTooLarge, EmitAbandon, AdmissionRefusal, Reasons, IndInv, TypeOK,
         ThreadTypes, ProducerType
    <3>2. health' = health
      BY <2>1 DEF EmitRefused, EmitTooLarge, EmitAbandon, admission
    <3> QED
      BY <3>1, <3>2, ContractRefuses
  <2>2. CASE \E p \in Producers, j \in Instances : EmitFiltered(p, j)
    <3>1. PICK j \in Instances : counters' = [counters EXCEPT ![j].filtered = @ + 1]
      BY <2>2 DEF EmitFiltered
    <3>2. health' = health /\ counters \in [Instances -> CounterType]
      BY <2>2 DEF EmitFiltered, admission, IndInv, TypeOK, InstanceTypes
    <3>3. \A i \in Instances : SeenOf(counters', i) = SeenOf(counters, i)
      BY <3>1, <3>2 DEF SeenOf, CounterType
    <3> QED
      BY <3>2, <3>3, ContractStutters
  <2>3. CASE \E p \in Producers : EmitAccept(p)
    <3>1. PICK p \in Producers : EmitAccept(p)
      BY <2>3
    <3>2. PICK j \in Instances :
             /\ health = "open" /\ health' = health
             /\ counters' = [counters EXCEPT ![j].accepted = @ + 1]
      BY <3>1 DEF EmitAccept, IndInv, TypeOK, ThreadTypes, ProducerType
    <3>3. \A i \in Instances :
             /\ counters'[i].accepted = IF i = j THEN counters[i].accepted + 1 ELSE counters[i].accepted
             /\ counters'[i].written = counters[i].written
             /\ counters'[i].refused["full"] = counters[i].refused["full"]
             /\ counters'[i].reported = counters[i].reported
      BY <3>2 DEF IndInv, TypeOK, InstanceTypes, CounterType
    <3>4. Contract!Accept(j)
      BY ZenonT(60), <3>2, <3>3 DEF Contract!Accept
    <3> QED
      BY <3>4 DEF Contract!Next
  <2>4. CASE \/ \E p \in Producers : DropPermit(p)
             \/ \E p \in Producers, i \in Instances, d \in Destinations, c \in Contents :
                    EmitReserve(p, i, d, c)
    <3>1. health' = health /\ counters' = counters
      BY <2>4 DEF DropPermit, EmitReserve, perInstance
    <3> QED
      BY <3>1, ContractStutters DEF SeenOf
  <2> QED
    BY <1>1, <2>1, <2>2, <2>3, <2>4 DEF ProducerStep, TracingRefuse
<1>2. CASE ClientStep \/ WallClock \/ UNCHANGED vars
  <2>1. counters' = counters /\ (health' = health \/ (health = "open" /\ health' = "closing"))
    BY <1>2 DEF ClientStep, FlushBegin, FlushRefused, FlushWake, ShutdownBegin, ShutdownReturn,
       WallClock, vars, admission, perInstance, TakeBalances
  <2>2. CASE health' = health
    BY <2>1, <2>2, ContractStutters DEF SeenOf
  <2>3. CASE health = "open" /\ health' = "closing"
    <3>1. Contract!Close
      BY <2>1, <2>3 DEF Contract!Close
    <3> QED
      BY <3>1 DEF Contract!Next
  <2> QED
    BY <2>1, <2>2, <2>3
<1>3. CASE WorkerPeriodic \/ WorkerBarrier \/ WorkerDrained
  <2>1. health' = health /\ worker.pc \in {"expire", "item", "draining"}
    BY <1>3 DEF WorkerPeriodic, WorkerBarrier, WorkerDrained, HandlingA, admission
  <2>2. FlushOutput \/ UNCHANGED counters
    BY <1>3 DEF WorkerPeriodic, WorkerBarrier, WorkerDrained
  <2>3. CASE FlushOutput
    BY <2>1, <2>3, ContractConfirms
  <2>4. CASE UNCHANGED counters
    BY <2>1, <2>4, ContractStutters DEF SeenOf
  <2> QED
    BY <2>2, <2>3, <2>4
<1>4. CASE WorkerClosed
  BY <1>4, ContractFinishes DEF Contract!Next
<1>5. CASE WorkerFail
  <2>1. health \in {"open", "closing"} /\ health' = "failed" /\ counters' = counters
    BY <1>5 DEF WorkerFail, Ending, Lifecycle, DyingWhenFailed, IndInv, TypeOK, AdmissionTypes,
       perInstance
  <2>2. Contract!Fail
    BY <2>1 DEF Contract!Fail, Contract!Running
  <2> QED
    BY <2>2 DEF Contract!Next
<1>6. CASE /\ WorkerStep \/ WorkerFault
           /\ ~(WorkerPeriodic \/ WorkerBarrier \/ WorkerDrained \/ WorkerClosed \/ WorkerFail)
  <2>1. health' = health /\ counters' = counters
    BY <1>6 DEF WorkerStep, WorkerFault, WorkerTop, WorkerTake, WorkerWake, WorkerMerge,
       WorkerOpenGroup, WorkerSummary, WorkerSignal, WorkerShutdown, WorkerBury, WorkerDropped,
       WorkerFinish, WorkerDropGroup, WorkerError, WorkerPanic, admission, perInstance, TakeBalances
  <2> QED
    BY <2>1, ContractStutters DEF SeenOf
<1> QED
  BY <1>1, <1>2, <1>3, <1>4, <1>5, <1>6 DEF Next, WorkerStep

\* Unless a tracing layer counts overloads by itself, the engine is a logger as
\* LogContract describes it: what is confirmed was accepted, what is reported was refused,
\* `closed` is reached (WorkerClosed) only when nothing accepted or overloaded is left, and
\* a failure is final; for any number of threads, instances, destinations and failures.
THEOREM ImplementsContract == ASSUME ~TracingLayer PROVE Spec => KeepsContract
<1>1. Init => Contract!Init
  BY DEF Init, Contract!Init, Reasons
<1>2. IndInv /\ Lifecycle /\ Ending /\ Balances /\ Accounts /\ [Next]_vars
        => [Contract!Next]_(Contract!vars)
  BY ContractStep
<1>3. Spec => [](IndInv /\ Lifecycle /\ Ending /\ Balances /\ Accounts)
  BY Inductive, AlwaysLifecycle, AlwaysEnding, AlwaysBalances, AlwaysAccounts, PTL
<1> QED
  BY <1>1, <1>2, <1>3, PTL DEF Spec, KeepsContract, Contract!Spec
-----------------------------------------------------------------------------
(* What a flush covers *)

\* The numbered items beyond a mark.
LaterThan(m) == {x \in NumberedItems : x.seq > m}

\* The queue r is q and items after it: their numbers are beyond the mark m, and no
\* barrier among them is beyond b.
Extends(q, r, m, b) ==
    /\ r \in Seq(ItemType) /\ Len(q) <= Len(r)
    /\ \A j \in 1..Len(q) : r[j] = q[j]
    /\ \A j \in 1..Len(r) : j > Len(q) =>
          /\ IsNumbered(r[j]) => r[j].seq > m
          /\ r[j].kind = "barrier" => r[j].id <= b
\* ... and the numbers beyond the mark that are not queued are as many as before.
Grown(q, s, r, t, m, b) ==
    /\ Extends(q, r, m, b) /\ t \in Nat /\ s <= t
    /\ Cardinality(Places(r, LaterThan(m))) + s = Cardinality(Places(q, LaterThan(m))) + t

\* A locked section that queues the summaries of `due`.
LEMMA ServedGrows ==
  ASSUME TypeOK, NEW due \in SUBSET Instances, NEW order \in Ascending(due),
         NEW m \in Nat, m <= sequence, NEW b
  PROVE  Grown(queue, sequence, queue \o SummaryItems(order), sequence + Cardinality(due), m, b)
<1> DEFINE q == queue
           r == SummaryItems(order)
           a == Len(q)
<1>1. /\ q \in Seq(ItemType) /\ r \in Seq(SummaryType) /\ Len(r) = Cardinality(due)
      /\ Cardinality(due) \in Nat /\ sequence \in Nat
  BY SummariesAre DEF TypeOK, AdmissionTypes
<1>2. \A n \in 1..Len(r) : r[n].seq = sequence + n
  BY <1>1 DEF SummaryItems
<1> HIDE DEF q, r
<1>3. r \in Seq(ItemType)
  BY <1>1 DEF ItemType
<1>4. /\ q \o r \in Seq(ItemType) /\ Len(q \o r) = a + Len(r) /\ a \in Nat /\ Len(r) \in Nat
      /\ \A n \in 1..a : (q \o r)[n] = q[n]
      /\ \A n \in 1..(a + Len(r)) : n > a => n - a \in 1..Len(r) /\ (q \o r)[n] = r[n - a]
  BY <1>1, <1>3
<1>5. ASSUME NEW n \in 1..Len(r)
      PROVE  r[n] \in LaterThan(m) /\ r[n].seq > m /\ r[n].kind = "summary"
  <2>1. r[n] \in SummaryType
    BY <1>1
  <2>2. r[n].seq > m
    BY <1>1, <1>2
  <2> QED
    BY <2>1, <2>2 DEF LaterThan, NumberedItems, SummaryType
<1>6. Extends(q, q \o r, m, b)
  <2>1. a <= a + Len(r)
    BY <1>4
  <2>2. ASSUME NEW j \in 1..(a + Len(r)), j > a
        PROVE  /\ IsNumbered((q \o r)[j]) => (q \o r)[j].seq > m
               /\ (q \o r)[j].kind = "barrier" => (q \o r)[j].id <= b
    BY <1>4, <1>5, <2>2
  <2> QED
    BY <1>4, <2>1, <2>2 DEF Extends
<1>7. Cardinality(Places(q \o r, LaterThan(m))) = Cardinality(Places(q, LaterThan(m))) + Len(r)
  BY <1>1, <1>3, <1>5, PlacesConcat
<1>8. Cardinality(Places(q, LaterThan(m))) \in Nat
  BY <1>1, PlacesFinite
<1>9. Grown(q, sequence, q \o r, sequence + Cardinality(due), m, b)
  BY <1>1, <1>6, <1>7, <1>8 DEF Grown
<1> QED
  BY <1>9 DEF q, r

\* ... and an item without a number after them.
LEMMA ControlGrows ==
  ASSUME NEW q \in Seq(ItemType), NEW r, NEW s \in Nat, NEW t, NEW m \in Nat, NEW b,
         Grown(q, s, r, t, m, b),
         NEW x \in BarrierType \cup {Shutdown}, x.kind = "barrier" => x.id <= b
  PROVE  Grown(q, s, Append(r, x), t, m, b)
<1>1. r \in Seq(ItemType) /\ x \in ItemType /\ ~IsNumbered(x) /\ x \notin LaterThan(m)
  BY DEF Grown, Extends, ItemType, BarrierType, Shutdown, IsNumbered, LaterThan, NumberedItems,
         EventType, SummaryType
<1>2. /\ Append(r, x) \in Seq(ItemType) /\ Len(Append(r, x)) = Len(r) + 1 /\ Len(r) \in Nat
      /\ Len(q) \in Nat
      /\ \A n \in 1..Len(r) : Append(r, x)[n] = r[n]
      /\ Append(r, x)[Len(r) + 1] = x
      /\ \A n \in 1..(Len(r) + 1) : n \in 1..Len(r) \/ n = Len(r) + 1
  BY <1>1
<1>3. Extends(q, Append(r, x), m, b)
  BY <1>1, <1>2 DEF Grown, Extends
<1>4. Cardinality(Places(Append(r, x), LaterThan(m))) = Cardinality(Places(r, LaterThan(m))) + 0
  BY <1>1, PlacesAppend
<1>5. Cardinality(Places(r, LaterThan(m))) \in Nat
  BY <1>1, PlacesFinite
<1>6. Cardinality(Places(Append(r, x), LaterThan(m))) = Cardinality(Places(r, LaterThan(m)))
  BY <1>4, <1>5
<1> QED
  BY <1>3, <1>6 DEF Grown

\* An accepted event is the last of the queue.
LEMMA AcceptGrows ==
  ASSUME IndInv, NEW p \in Producers, EmitAccept(p), NEW m \in Nat, m <= sequence, NEW b
  PROVE  Grown(queue, sequence, queue', sequence', m, b)
<1> DEFINE e == producer[p]
           x == Event(e.instance, e.destination, e.content, sequence + 1, epoch[e.instance])
<1> TypeOK
  BY DEF IndInv
<1>1. x \in EventType /\ x.seq = sequence + 1
  <2>1. /\ e.pc = "formatting" /\ e.instance \in Instances
        /\ e.destination \in Destinations /\ e.content \in Contents
    BY DEF EmitAccept, TypeOK, ThreadTypes, ProducerType
  <2> QED
    BY <2>1 DEF TypeOK, Event, EventType, AdmissionTypes, InstanceTypes, OutputTypes
<1>2. queue' = Append(queue, x) /\ queue \in Seq(ItemType) /\ sequence' = sequence + 1 /\ sequence \in Nat
  BY DEF EmitAccept, TypeOK, AdmissionTypes
<1> HIDE DEF x
<1>3. x \in ItemType /\ x \in LaterThan(m) /\ x.seq > m /\ x.kind = "event"
  BY <1>1, <1>2 DEF ItemType, LaterThan, NumberedItems, EventType
<1>4. /\ queue' \in Seq(ItemType) /\ Len(queue') = Len(queue) + 1 /\ Len(queue) \in Nat
      /\ \A n \in 1..Len(queue) : queue'[n] = queue[n]
      /\ queue'[Len(queue) + 1] = x
      /\ \A n \in 1..(Len(queue) + 1) : n \in 1..Len(queue) \/ n = Len(queue) + 1
  BY <1>2, <1>3
<1>5. Extends(queue, queue', m, b)
  <2>1. Len(queue) <= Len(queue')
    BY <1>4
  <2>2. ASSUME NEW j \in 1..Len(queue'), j > Len(queue)
        PROVE  queue'[j] = x
    BY <1>4, <2>2
  <2> QED
    BY <1>3, <1>4, <2>1, <2>2 DEF Extends
<1>6. Cardinality(Places(queue', LaterThan(m))) = Cardinality(Places(queue, LaterThan(m))) + 1
  BY <1>2, <1>3, PlacesAppend
<1>7. Cardinality(Places(queue, LaterThan(m))) \in Nat
  BY <1>2, PlacesFinite
<1> QED
  BY <1>2, <1>5, <1>6, <1>7 DEF Grown

\* But for the worker's taking the head, and the failure, a step only adds to the queue.
LEMMA QueueGrows ==
  ASSUME IndInv, IndInv', [Next]_vars, ~WorkerTake, ~WorkerFail, NEW m \in Nat, m <= sequence
  PROVE  Grown(queue, sequence, queue', sequence', m, nextBarrier')
<1> DEFINE Goal == Grown(queue, sequence, queue', sequence', m, nextBarrier')
<1> TypeOK
  BY DEF IndInv
<1>0. queue \in Seq(ItemType) /\ sequence \in Nat /\ nextBarrier \in Nat
  BY DEF TypeOK, AdmissionTypes
<1>1. ASSUME UNCHANGED <<queue, sequence>> PROVE Goal
  BY <1>0, <1>1 DEF Grown, Extends
<1> HIDE DEF Goal
<1>2. ASSUME NEW order \in Ascending(Owing), NEW x \in BarrierType \cup {Shutdown},
             x.kind = "barrier" => x.id <= nextBarrier', TakeBalances(Owing),
             queue' = Append(queue \o SummaryItems(order), x)
      PROVE  Goal
  <2> DEFINE q == queue \o SummaryItems(order)
  <2>1. Grown(queue, sequence, q, sequence + Cardinality(Owing), m, nextBarrier')
    BY ServedGrows, OwingInstances
  <2> HIDE DEF q
  <2>2. Grown(queue, sequence, Append(q, x), sequence + Cardinality(Owing), m, nextBarrier')
    BY <1>0, <1>2, <2>1, ControlGrows
  <2>3. sequence' = sequence + Cardinality(Owing)
    BY <1>2 DEF TakeBalances
  <2> QED
    BY <1>2, <2>2, <2>3 DEF Goal, q
<1>3. Shutdown.kind # "barrier"
  BY DEF Shutdown
<1>4. ASSUME NEW c \in Clients, FlushBegin(c) PROVE Goal
  <2>1. PICK order \in Ascending(Owing) :
          queue' = Append(queue \o SummaryItems(order), Barrier(nextBarrier'))
    BY <1>4 DEF FlushBegin
  <2>2. nextBarrier' \in Nat /\ TakeBalances(Owing)
    BY <1>0, <1>4 DEF FlushBegin
  <2>3. Barrier(nextBarrier') \in BarrierType /\ Barrier(nextBarrier').id <= nextBarrier'
    BY <2>2 DEF Barrier, BarrierType
  <2> QED
    BY <1>2, <2>1, <2>2, <2>3
<1>5. ASSUME NEW c \in Clients, ShutdownBegin(c) PROVE Goal
  <2>1. CASE health # "open"
    BY <1>1, <1>5, <2>1 DEF ShutdownBegin
  <2>2. CASE health = "open"
    <3>1. TakeBalances(Owing)
          /\ \E order \in Ascending(Owing) : queue' = Append(queue \o SummaryItems(order), Shutdown)
      BY <1>5, <2>2 DEF ShutdownBegin
    <3> QED
      BY <1>2, <1>3, <3>1
  <2> QED
    BY <2>1, <2>2
<1>6. ASSUME WorkerShutdown PROVE Goal
  <2>1. PICK order \in Ascending(Owing) :
          LET items == queue \o SummaryItems(order) IN
          \/ queue' = Append(items, Shutdown)
          \/ items = <<>> /\ UNCHANGED queue
    BY <1>6 DEF WorkerShutdown, FinalBalances, Remains
  <2>2. TakeBalances(Owing)
    BY <1>6 DEF WorkerShutdown, FinalBalances
  <2>3. CASE queue' = Append(queue \o SummaryItems(order), Shutdown)
    BY <1>2, <1>3, <2>2, <2>3
  <2>4. CASE queue \o SummaryItems(order) = <<>> /\ UNCHANGED queue
    <3>1. queue' = queue \o SummaryItems(order)
      BY <1>0, <2>4
    <3>2. sequence' = sequence + Cardinality(Owing)
      BY <2>2 DEF TakeBalances
    <3> QED
      BY <3>1, <3>2, ServedGrows, OwingInstances DEF Goal
  <2> QED
    BY <2>1, <2>3, <2>4
<1>7. ASSUME NEW p \in Producers, EmitAccept(p) PROVE Goal
  BY <1>7, AcceptGrows DEF Goal
<1>8. CASE ProducerStep \/ WorkerFault \/ WallClock \/ UNCHANGED vars
  <2>1. CASE ~\E p \in Producers : EmitAccept(p)
    <3>1. UNCHANGED <<queue, sequence>>
      BY <1>8, <2>1 DEF ProducerStep, EmitReserve, EmitRefused, EmitTooLarge, EmitFiltered,
         EmitAbandon, DropPermit, TracingRefuse, WorkerFault, WorkerError, WorkerPanic, WallClock,
         vars, admission
    <3> QED
      BY <1>1, <3>1 DEF Goal
  <2> QED
    BY <1>7, <2>1 DEF Goal
<1>9. CASE ClientStep
  <2>1. CASE \E c \in Clients : FlushRefused(c) \/ FlushWake(c) \/ ShutdownReturn(c)
    <3>1. UNCHANGED <<queue, sequence>>
      BY <2>1 DEF FlushRefused, FlushWake, ShutdownReturn, admission
    <3> QED
      BY <1>1, <3>1 DEF Goal
  <2> QED
    BY <1>4, <1>5, <1>9, <2>1 DEF ClientStep, Goal
<1>10. CASE WorkerStep /\ ~WorkerShutdown
  <2>1. UNCHANGED <<queue, sequence>>
    BY <1>10 DEF WorkerStep, WorkerTop, WorkerPeriodic, WorkerWake, WorkerMerge,
       WorkerOpenGroup, WorkerSummary, WorkerBarrier, WorkerSignal, WorkerDrained, WorkerClosed,
       WorkerBury, WorkerDropped, WorkerFinish, WorkerDropGroup, admission
  <2> QED
    BY <1>1, <2>1 DEF Goal
<1> QED
  BY <1>6, <1>8, <1>9, <1>10 DEF Next, Goal

\* The worker takes the head, once the summaries that are due are queued.
TakenFrom(q) ==
    \/ q # <<>> /\ worker' = Handling(Head(q)) /\ queue' = Tail(q)
    \/ q = <<>> /\ worker' = At("waiting") /\ queue' = q

\* The take adds what is due to the queue, with numbers above all the others.
LEMMA TakeGrows ==
  ASSUME IndInv, WorkerTake, NEW m \in Nat, m <= sequence, NEW b
  PROVE  \E q : Grown(queue, sequence, q, sequence', m, b) /\ TakenFrom(q)
<1> TypeOK
  BY DEF IndInv
<1>1. PICK due \in SUBSET (IF health = "open" THEN Owing ELSE {}) :
        /\ TakeBalances(due)
        /\ \E order \in Ascending(due) : TakeNext(queue \o SummaryItems(order))
  BY DEF WorkerTake
<1>2. due \in SUBSET Instances
  BY DEF Owing
<1>3. PICK order \in Ascending(due) : TakeNext(queue \o SummaryItems(order))
  BY <1>1
<1> DEFINE q == queue \o SummaryItems(order)
<1>4. sequence' = sequence + Cardinality(due)
  BY <1>1 DEF TakeBalances
<1>5. Grown(queue, sequence, q, sequence', m, b)
  BY <1>2, <1>4, ServedGrows
<1>6. queue \in Seq(ItemType) /\ (q = <<>> => queue = q)
  BY DEF TypeOK, AdmissionTypes
<1>7. TakeNext(q)
  BY <1>3
<1> HIDE DEF q
<1>8. TakenFrom(q)
  BY <1>6, <1>7 DEF TakeNext, TakenFrom, Goto
<1> QED
  BY <1>5, <1>8
-----------------------------------------------------------------------------
(* A barrier on its way *)

\* Barrier b is queued after the numbers up to m, and before all others; the barriers
\* before it were issued before it.
WaitsIn(q, b, m) ==
    \E n \in 1..Len(q) :
        /\ q[n] = Barrier(b)
        /\ \A j \in 1..Len(q) : /\ j < n /\ q[j].kind = "barrier" => q[j].id < b
                                /\ IsNumbered(q[j]) => (j < n <=> q[j].seq <= m)
\* Only numbers beyond m are queued.
OnlyAfter(q, m) == \A j \in 1..Len(q) : IsNumbered(q[j]) => q[j].seq > m
\* The numbers beyond m are queued, all of them.
AllQueued(q, s, m) == Cardinality(Places(q, LaterThan(m))) + m = s

\* The numbers of queue items.
LEMMA ItemNumbers ==
  ASSUME NEW q \in Seq(ItemType), NEW j \in 1..Len(q)
  PROVE  /\ q[j] \in ItemType /\ (IsNumbered(q[j]) => q[j].seq \in Nat)
         /\ IsNumbered(q[j]) <=> q[j] \in NumberedItems
<1>1. q[j] \in ItemType
  OBVIOUS
<1> QED
  BY <1>1 DEF ItemType, IsNumbered, NumberedItems, EventType, SummaryType, BarrierType, Shutdown

\* What is added to the queue comes after the barrier.
LEMMA WaitsStays ==
  ASSUME NEW q \in Seq(ItemType), NEW r, NEW m \in Nat, NEW b, NEW d, NEW s \in Nat, NEW t,
         Grown(q, s, r, t, m, d)
  PROVE  /\ WaitsIn(q, b, m) => WaitsIn(r, b, m)
         /\ OnlyAfter(q, m) => OnlyAfter(r, m)
         /\ AllQueued(q, s, m) => AllQueued(r, t, m)
<1>1. /\ r \in Seq(ItemType) /\ Len(q) \in Nat /\ Len(r) \in Nat /\ Len(q) <= Len(r)
      /\ \A j \in 1..Len(q) : r[j] = q[j]
      /\ \A j \in 1..Len(r) : j > Len(q) => (IsNumbered(r[j]) => r[j].seq > m)
  BY DEF Grown, Extends
<1>2. \A j \in 1..Len(r) : j \in 1..Len(q) \/ j > Len(q)
  BY <1>1
<1>3. ASSUME WaitsIn(q, b, m) PROVE WaitsIn(r, b, m)
  <2>1. PICK n \in 1..Len(q) :
          /\ q[n] = Barrier(b)
          /\ \A j \in 1..Len(q) : /\ j < n /\ q[j].kind = "barrier" => q[j].id < b
                                  /\ IsNumbered(q[j]) => (j < n <=> q[j].seq <= m)
    BY <1>3 DEF WaitsIn
  <2>2. n \in 1..Len(r) /\ r[n] = Barrier(b)
    BY <1>1, <2>1
  <2>3. ASSUME NEW j \in 1..Len(r)
        PROVE  /\ j < n /\ r[j].kind = "barrier" => r[j].id < b
               /\ IsNumbered(r[j]) => (j < n <=> r[j].seq <= m)
    <3>1. CASE j \in 1..Len(q)
      BY <1>1, <2>1, <3>1
    <3>2. CASE j > Len(q)
      <4>1. ~(j < n)
        BY <1>1, <3>2
      <4>2. IsNumbered(r[j]) => r[j].seq \in Nat /\ r[j].seq > m
        BY <1>1, <3>2, ItemNumbers
      <4>3. IsNumbered(r[j]) => ~(r[j].seq <= m)
        BY <4>2
      <4> QED
        BY <4>1, <4>3
    <3> QED
      BY <1>2, <3>1, <3>2
  <2> QED
    BY <2>2, <2>3 DEF WaitsIn
<1>4. ASSUME OnlyAfter(q, m) PROVE OnlyAfter(r, m)
  BY <1>1, <1>2, <1>4 DEF OnlyAfter
<1>5. ASSUME AllQueued(q, s, m) PROVE AllQueued(r, t, m)
  <2>1. /\ Cardinality(Places(q, LaterThan(m))) \in Nat /\ Cardinality(Places(r, LaterThan(m))) \in Nat
        /\ t \in Nat
    BY <1>1, PlacesFinite DEF Grown
  <2> QED
    BY <1>5, <2>1 DEF AllQueued, Grown
<1> QED
  BY <1>3, <1>4, <1>5

\* The head is the barrier, and what follows is beyond the mark; or it comes before.
LEMMA WaitsTaken ==
  ASSUME NEW q \in Seq(ItemType), q # <<>>, NEW m \in Nat, NEW b \in Nat, NEW s \in Nat,
         WaitsIn(q, b, m), AllQueued(q, s, m)
  PROVE  /\ AllQueued(Tail(q), s, m)
         /\ \/ Head(q) = Barrier(b) /\ OnlyAfter(Tail(q), m)
            \/ /\ WaitsIn(Tail(q), b, m)
               /\ IsNumbered(Head(q)) => Head(q).seq <= m
               /\ Head(q).kind = "barrier" => Head(q).id < b
<1>1. PICK n \in 1..Len(q) :
        /\ q[n] = Barrier(b)
        /\ \A j \in 1..Len(q) : /\ j < n /\ q[j].kind = "barrier" => q[j].id < b
                                /\ IsNumbered(q[j]) => (j < n <=> q[j].seq <= m)
  BY DEF WaitsIn
<1>2. /\ Len(q) \in Nat /\ 1 \in 1..Len(q) /\ Head(q) = q[1] /\ Tail(q) \in Seq(ItemType)
      /\ Len(Tail(q)) = Len(q) - 1 /\ \A j \in 1..Len(Tail(q)) : j + 1 \in 1..Len(q) /\ Tail(q)[j] = q[j + 1]
  OBVIOUS
<1>3. ~IsNumbered(Barrier(b)) /\ Barrier(b).kind = "barrier"
  BY DEF IsNumbered, Barrier
<1> DEFINE Either ==
      \/ Head(q) = Barrier(b) /\ OnlyAfter(Tail(q), m)
      \/ /\ WaitsIn(Tail(q), b, m)
         /\ IsNumbered(Head(q)) => Head(q).seq <= m
         /\ Head(q).kind = "barrier" => Head(q).id < b
<1>4. ASSUME n = 1 PROVE Either
  <2>1. ASSUME NEW j \in 1..Len(Tail(q)), IsNumbered(Tail(q)[j]) PROVE Tail(q)[j].seq > m
    <3>1. j + 1 \in 1..Len(q) /\ ~(j + 1 < n) /\ Tail(q)[j] = q[j + 1]
      BY <1>2, <1>4
    <3>2. q[j + 1].seq \in Nat /\ ~(q[j + 1].seq <= m)
      BY <1>1, <2>1, <3>1, ItemNumbers
    <3> QED
      BY <3>1, <3>2
  <2> QED
    BY <1>1, <1>2, <1>4, <2>1 DEF OnlyAfter
<1>5. ASSUME n # 1 PROVE Either
  <2>1. n - 1 \in 1..Len(Tail(q)) /\ Tail(q)[n - 1] = Barrier(b)
    BY <1>1, <1>2, <1>5
  <2>2. ASSUME NEW j \in 1..Len(Tail(q))
        PROVE  /\ j < n - 1 /\ Tail(q)[j].kind = "barrier" => Tail(q)[j].id < b
               /\ IsNumbered(Tail(q)[j]) => (j < n - 1 <=> Tail(q)[j].seq <= m)
    <3>1. j + 1 \in 1..Len(q) /\ (j < n - 1 <=> j + 1 < n) /\ Tail(q)[j] = q[j + 1]
      BY <1>2
    <3> QED
      BY <1>1, <3>1
  <2>3. 1 < n
    BY <1>5
  <2>4. WaitsIn(Tail(q), b, m)
    BY <2>1, <2>2 DEF WaitsIn
  <2> QED
    BY <1>1, <1>2, <2>3, <2>4
<1>6. Head(q) \notin LaterThan(m)
  <2>1. IsNumbered(q[1]) => q[1].seq <= m /\ q[1].seq \in Nat
    <3>1. IsNumbered(q[1]) => 1 < n
      BY <1>1, <1>2, <1>3
    <3> QED
      BY <1>1, <1>2, <3>1, ItemNumbers
  <2>2. IsNumbered(q[1]) => ~(q[1].seq > m)
    BY <2>1
  <2> QED
    BY <1>2, <2>2, ItemNumbers DEF LaterThan
<1>7. AllQueued(Tail(q), s, m)
  <2>1. Cardinality(Places(q, LaterThan(m))) = Cardinality(Places(Tail(q), LaterThan(m))) + 0
    BY <1>6, PlacesTail
  <2>2. Cardinality(Places(Tail(q), LaterThan(m))) \in Nat
    BY <1>2, PlacesFinite
  <2> QED
    BY <2>1, <2>2 DEF AllQueued
<1> QED
  BY <1>4, <1>5, <1>7
-----------------------------------------------------------------------------
(* What is written up to a mark *)

\* The weight of a line in the count of FlushCoversAdmitted.
UpTo(m) == [line \in LineType |-> NumbersUpTo(m, line)]

\* What the worker has taken is up to the mark.
Within(m) ==
    /\ HoldsNumber => worker.item.seq <= m
    /\ \A k \in DOMAIN groups : groups[k].last <= m
    /\ \A p \in Paths : \A n \in DOMAIN files[p] : files[p][n].last <= m

\* What is still to be written is beyond the mark, ...
Beyond(m) ==
    /\ \A a \in Ahead : a > m
    /\ \A k \in DOMAIN groups : groups[k].first.seq > m
\* ... the lines that end before it are flushed, ...
Settled(m) ==
    \A p \in Paths : \A n \in DOMAIN files[p] : files[p][n].last <= m => n <= durable[p]
\* ... and stand for all the numbers up to it.
Covered(m) ==
    /\ m \in Nat /\ m <= sequence
    /\ Beyond(m) /\ Settled(m) /\ Weighed(files, UpTo(m)) = m

\* Lines weigh natural numbers.
LEMMA UpToTypes == ASSUME NEW m \in Nat PROVE UpTo(m) \in [LineType -> Nat]
  BY DEF UpTo, NumbersUpTo, Numbers, LineType

\* The lines after a step: those before it and the one it writes, if any.
LEMMA LinesAfter ==
  ASSUME IndInv, [Next]_vars
  PROVE  \/ UNCHANGED files
         \/ \E path \in Paths, line \in LineType :
               /\ LineOut(path, line) /\ LineOf(line)
               /\ \A p \in Paths : \A n \in DOMAIN files'[p] :
                     \/ n \in DOMAIN files[p] /\ files'[p][n] = files[p][n]
                     \/ p = path /\ files'[p][n] = line
<1>1. CASE FlushOutput \/ QuietOutput
  BY <1>1 DEF FlushOutput, QuietOutput, output
<1>2. ASSUME NEW path \in Paths, NEW line \in LineType, LineOut(path, line)
      PROVE  \A p \in Paths : \A n \in DOMAIN files'[p] :
                     \/ n \in DOMAIN files[p] /\ files'[p][n] = files[p][n]
                     \/ p = path /\ files'[p][n] = line
  <2>1. files \in [Paths -> Seq(LineType)] /\ files' = [files EXCEPT ![path] = Append(@, line)]
    BY <1>2 DEF IndInv, TypeOK, OutputTypes, LineOut, LineAdded
  <2>2. /\ files'[path] = Append(files[path], line) /\ files[path] \in Seq(LineType)
        /\ \A p \in Paths \ {path} : files'[p] = files[p]
    BY <2>1
  <2>3. \A n \in DOMAIN files'[path] : \/ n \in DOMAIN files[path] /\ files'[path][n] = files[path][n]
                                       \/ files'[path][n] = line
    BY <2>2
  <2> QED
    BY <2>2, <2>3
<1> QED
  BY <1>1, <1>2, OutputMoves

\* The end of a group moves to the event in hand.
LEMMA GroupsAfter ==
  ASSUME IndInv, [Next]_vars
  PROVE  \A k \in DOMAIN groups' :
            \/ k \in DOMAIN groups /\ groups'[k].last = groups[k].last
            \/ HandlingA("event") /\ groups'[k].last = worker.item.seq
<1>1. CASE WorkerMerge
  <2>1. \A k \in DOMAIN groups : groups[k] \in [first : EventType, last : Nat, count : Nat \ {0}]
    BY DEF IndInv, TypeOK, WorkerTypes
  <2>2. /\ HandlingA("event") /\ KeyOf(worker.item) \in DOMAIN groups
        /\ groups' = [groups EXCEPT ![KeyOf(worker.item)].last = worker.item.seq,
                                    ![KeyOf(worker.item)].count = @ + 1]
    BY <1>1 DEF WorkerMerge, CanMerge
  <2> QED
    BY <2>1, <2>2
<1>2. CASE WorkerOpenGroup
  BY <1>2 DEF WorkerOpenGroup, With
<1>3. CASE \E k \in Keys : WorkerFinish(k)
  BY <1>3 DEF WorkerFinish, Without
<1>4. CASE WorkerSummary
  BY <1>4 DEF WorkerSummary
<1>5. CASE ~(WorkerMerge \/ WorkerOpenGroup \/ WorkerSummary \/ \E k \in Keys : WorkerFinish(k))
  BY <1>5, OthersKeepOutput
<1> QED
  BY <1>1, <1>2, <1>3, <1>4, <1>5

\* What the worker writes or groups, it had taken.
LEMMA WithinStays ==
  ASSUME IndInv, [Next]_vars, NEW m \in Nat, Within(m), HoldsNumber' => worker'.item.seq <= m
  PROVE  Within(m)'
<1>1. HandlingA("event") \/ HandlingA("summary") => worker.item.seq <= m
  BY DEF Within, HandlingA, HoldsNumber, IsNumbered
<1>2. \A k \in DOMAIN groups' : groups'[k].last <= m
  BY <1>1, GroupsAfter DEF Within
<1>3. \A line : LineOf(line) => line.last <= m
  BY <1>1 DEF Within, LineOf, GroupLine, SummaryLine
<1>4. \A p \in Paths : \A n \in DOMAIN files'[p] : files'[p][n].last <= m
  BY <1>3, LinesAfter DEF Within
<1> QED
  BY <1>2, <1>4 DEF Within

\* Nothing that is written later is up to the mark: what is covered stays covered.
LEMMA CoveredStays ==
  ASSUME IndInv, IndInv', Order, FilesFinite, Moves, [Next]_vars, NEW m, Covered(m)
  PROVE  Covered(m)'
<1> USE DEF Covered
<1>0. /\ sequence \in Nat /\ sequence' \in Nat /\ m \in Nat /\ m <= sequence'
      /\ Ahead \subseteq Nat /\ Ahead' \subseteq Nat
  <2>1. TypeOK' => (Ahead \subseteq Nat)'
    BY AheadNatural, PTL
  <2> QED
    BY <2>1, AheadNatural DEF IndInv, TypeOK, AdmissionTypes, Moves
<1>1. \A a \in Ahead' : a > m
  <2>1. ASSUME NEW a \in Ahead' PROVE a > m
    <3>1. a \in Nat /\ (a \in Ahead \/ a > sequence)
      BY <1>0 DEF Moves
    <3>2. CASE a \in Ahead
      BY <3>2 DEF Beyond
    <3>3. CASE a > sequence
      BY <1>0, <3>1, <3>3
    <3> QED
      BY <3>1, <3>2, <3>3
  <2> QED
    BY <2>1
<1>2. \A e \in LiveEvents : e.seq > m
  <2>1. \A n \in Events(queue) : queue[n].seq \in Ahead
    BY DEF Events, Numbered, Ahead
  <2>2. HandlingA("event") => worker.item.seq \in Ahead
    BY DEF HandlingA, HoldsNumber, IsNumbered, Ahead
  <2> QED
    BY <2>1, <2>2 DEF LiveEvents, Beyond
<1>3. \A k \in DOMAIN groups' : groups'[k].first.seq > m
  BY <1>2, GroupsLive
<1>4. ASSUME NEW line \in LineType, LineOf(line) PROVE line.last > m /\ UpTo(m)[line] = 0
  <2>1. line.last > m
    <3>1. CASE HandlingA("summary") /\ line = SummaryLine(worker.item)
      <4>1. worker.item.seq \in Ahead
        BY <3>1 DEF HandlingA, HoldsNumber, IsNumbered, Ahead
      <4> QED
        BY <3>1, <4>1 DEF Beyond, SummaryLine
    <3>2. ASSUME NEW k \in DOMAIN groups, line = GroupLine(groups[k]) PROVE line.last > m
      <4>1. groups[k].first.seq <= groups[k].last /\ groups[k].first.seq > m
        BY DEF Order, OutputInOrder, GroupsBehind, Beyond
      <4>2. groups[k].first.seq \in Nat /\ groups[k].last \in Nat
        BY DEF IndInv, TypeOK, WorkerTypes, EventType
      <4> QED
        BY <1>0, <3>2, <4>1, <4>2 DEF GroupLine
    <3> QED
      BY <1>4, <3>1, <3>2 DEF LineOf
  <2>2. line.last \in Nat
    BY DEF LineType
  <2>3. ~(line.last <= m)
    BY <1>0, <2>1, <2>2
  <2> QED
    BY <2>1, <2>3 DEF UpTo, NumbersUpTo
<1>5. Settled(m)' /\ Weighed(files', UpTo(m)) = m
  <2> DEFINE Goal == Settled(m)' /\ Weighed(files', UpTo(m)) = m
  <2>0. files \in [Paths -> Seq(LineType)] /\ UpTo(m) \in [LineType -> Nat]
    BY <1>0, UpToTypes DEF IndInv, TypeOK, OutputTypes
  <2>1. ASSUME NEW path \in Paths, NEW line \in LineType, LineOut(path, line), LineOf(line)
        PROVE  Goal
    <3>1. LineAdded(files, files', path, line) /\ UNCHANGED durable
      BY <2>1 DEF LineOut
    <3>2. Weighed(files', UpTo(m)) = Weighed(files, UpTo(m)) + UpTo(m)[line]
      BY <2>0, <3>1, LineWeighs
    <3>3. Weighed(files', UpTo(m)) = m
      BY <1>0, <1>4, <2>1, <3>2
    <3>4. files' = [files EXCEPT ![path] = Append(@, line)]
      BY <3>1 DEF LineAdded
    <3>5. ASSUME NEW p \in Paths, NEW n \in DOMAIN files'[p], files'[p][n].last <= m
          PROVE  n <= durable'[p]
      <4>1. (n \in DOMAIN files[p] /\ files'[p][n] = files[p][n]) \/ files'[p][n] = line
        <5>1. files'[p] = files[p] \/ (files'[p] = Append(files[p], line) /\ files[p] \in Seq(LineType))
          BY <2>0, <3>4
        <5> QED
          BY <5>1
      <4>2. line.last \in Nat /\ line.last > m
        BY <1>4, <2>1 DEF LineType
      <4>3. ~(line.last <= m)
        BY <1>0, <4>2
      <4> QED
        BY <3>1, <3>5, <4>1, <4>3 DEF Settled
    <3> QED
      BY <3>3, <3>5 DEF Settled
  <2>2. ASSUME FlushOutput PROVE Goal
    <3>1. UNCHANGED files /\ (UNCHANGED durable \/ durable' = [p \in Paths |-> Len(files[p])])
      BY <2>2 DEF FlushOutput, output
    <3>2. \A p \in Paths : \A n \in DOMAIN files[p] : n <= Len(files[p])
      BY <2>0
    <3> QED
      BY <3>1, <3>2 DEF Settled
  <2>3. ASSUME QuietOutput PROVE Goal
    BY <2>3 DEF QuietOutput, Settled
  <2> HIDE DEF Goal
  <2>4. Goal
    BY <2>1, <2>2, <2>3, OutputMoves
  <2> QED
    BY <2>4 DEF Goal
<1> QED
  BY <1>0, <1>1, <1>3, <1>5 DEF Beyond
-----------------------------------------------------------------------------
(* From the queue to the signal *)

\* The worker holds a barrier until it has signalled it.
HasBarrier == worker.pc \in {"item", "signal"} /\ worker.item.kind = "barrier"

Queued(b, m) ==
    /\ WaitsIn(queue, b, m) /\ AllQueued(queue, sequence, m) /\ Within(m)
    /\ HasBarrier => worker.item.id < b
Held(b, m) ==
    /\ worker.pc = "item" /\ worker.item = Barrier(b)
    /\ OnlyAfter(queue, m) /\ AllQueued(queue, sequence, m) /\ Within(m)

\* What barrier b promises: once it is signalled, the numbers up to its mark are covered.
Promise(b, m) ==
    \/ Covered(m)
    \/ completedBarrier < b /\ (Failing \/ Queued(b, m) \/ Held(b, m))

\* Barriers are issued in turn.
Issued ==
    /\ completedBarrier <= nextBarrier
    /\ \A n \in 1..Len(queue) : queue[n].kind = "barrier" => queue[n].id <= nextBarrier
    /\ HasBarrier => worker.item.id <= nextBarrier

\* A barrier is in hand after a step only if it was before, or the step took it.
LEMMA BarrierKept ==
  ASSUME IndInv, IndInv', [Next]_vars, ~WorkerTake, HasBarrier'
  PROVE  HasBarrier /\ worker'.item = worker.item
<1>1. CASE worker'.pc = "item"
  BY <1>1, HandKept DEF HasBarrier
<1>2. CASE worker'.pc = "signal"
  <2>1. CASE ProducerStep \/ ClientStep \/ WallClock \/ UNCHANGED vars
    <3>1. UNCHANGED worker
      BY <2>1 DEF ProducerStep, EmitReserve, EmitRefused, EmitTooLarge, EmitFiltered, EmitAccept,
         EmitAbandon, DropPermit, TracingRefuse, ClientStep, FlushBegin, FlushRefused, FlushWake,
         ShutdownBegin, ShutdownReturn, WallClock, vars
    <3> QED
      BY <3>1 DEF HasBarrier
  <2>2. ASSUME NEW k \in Keys, WorkerFinish(k) PROVE FALSE
    <3>1. worker.pc \in {"expire", "item", "draining"}
      BY <2>2 DEF WorkerFinish, MustFinish, HandlingA
    <3>2. worker \in WorkerAt
      BY <3>1 DEF IndInv, TypeOK, WorkerTypes, WorkerType, WorkerAt
    <3> QED
      BY <1>2, <2>2, <3>1, <3>2 DEF WorkerFinish, WorkerAt
  <2>3. CASE WorkerBury
    BY <1>2, <2>3 DEF WorkerBury, Goto, At, IndInv, TypeOK, WorkerTypes, WorkerType
  <2>4. CASE \E k \in Keys : WorkerDropGroup(k)
    BY <1>2, <2>4 DEF WorkerDropGroup
  <2>5. CASE WorkerBarrier
    BY <2>5 DEF WorkerBarrier, HasBarrier, HandlingA, IndInv, TypeOK, WorkerTypes, WorkerType
  <2>6. CASE \/ WorkerTop \/ WorkerPeriodic \/ WorkerWake \/ WorkerMerge \/ WorkerOpenGroup
             \/ WorkerSummary \/ WorkerSignal \/ WorkerShutdown \/ WorkerDrained \/ WorkerClosed
             \/ WorkerFail \/ WorkerDropped \/ WorkerError \/ WorkerPanic
    BY <1>2, <2>6 DEF WorkerTop, WorkerPeriodic, WorkerWake, WorkerMerge, WorkerOpenGroup,
       WorkerSummary, WorkerSignal, WorkerShutdown, WorkerDrained, WorkerClosed, WorkerFail,
       WorkerDropped, WorkerError, WorkerPanic, Goto, At
  <2> QED
    BY <2>1, <2>2, <2>3, <2>4, <2>5, <2>6 DEF Next, WorkerStep, WorkerFault
<1> QED
  BY <1>1, <1>2 DEF HasBarrier

\* Only the signal completes a barrier, and it is the one in hand.
LEMMA Completes ==
  ASSUME IndInv, Lifecycle, [Next]_vars
  PROVE  \/ UNCHANGED completedBarrier
         \/ HasBarrier /\ completedBarrier' = worker.item.id /\ ~Failing'
<1>1. CASE WorkerSignal
  <2>1. worker.pc = "signal" /\ worker.item \in BarrierType /\ completedBarrier' = worker.item.id
    BY <1>1 DEF WorkerSignal, IndInv, WorkerShape
  <2>2. worker'.pc = "top" /\ health' = health /\ health # "failed"
    BY <1>1, <2>1 DEF WorkerSignal, Goto, At, admission, Lifecycle, DyingWhenFailed
  <2> QED
    BY <2>1, <2>2 DEF HasBarrier, BarrierType, Failing
<1>2. CASE ProducerStep \/ ClientStep \/ WallClock \/ UNCHANGED vars
  BY <1>2 DEF ProducerStep, EmitReserve, EmitRefused, EmitTooLarge, EmitFiltered, EmitAccept,
     EmitAbandon, DropPermit, TracingRefuse, ClientStep, FlushBegin, FlushRefused, FlushWake,
     ShutdownBegin, ShutdownReturn, WallClock, vars, barriers
<1>3. CASE (WorkerStep \/ WorkerFault) /\ ~WorkerSignal
  BY <1>3 DEF WorkerStep, WorkerFault, WorkerTop, WorkerPeriodic, WorkerTake, WorkerWake,
     WorkerMerge, WorkerOpenGroup, WorkerSummary, WorkerBarrier, WorkerShutdown, WorkerDrained,
     WorkerClosed, WorkerFail, WorkerBury, WorkerDropped, WorkerFinish, WorkerDropGroup,
     WorkerError, WorkerPanic, barriers
<1> QED
  BY <1>1, <1>2, <1>3 DEF Next

\* Every step keeps the order of the barriers.
LEMMA IssuedStep ==
  ASSUME IndInv, IndInv', Lifecycle, Issued, [Next]_vars
  PROVE  Issued'
<1>0. /\ nextBarrier \in Nat /\ nextBarrier' \in Nat /\ sequence \in Nat /\ 0 <= sequence
      /\ completedBarrier \in Nat /\ completedBarrier' \in Nat /\ queue \in Seq(ItemType)
      /\ queue' \in Seq(ItemType)
  BY DEF IndInv, TypeOK, AdmissionTypes
<1>1. nextBarrier <= nextBarrier'
  <2>1. CASE \E c \in Clients : FlushBegin(c)
    BY <1>0, <2>1 DEF FlushBegin
  <2>2. CASE ~\E c \in Clients : FlushBegin(c)
    <3>1. UNCHANGED nextBarrier
      BY <2>2 DEF Next, ProducerStep, EmitReserve, EmitRefused, EmitTooLarge, EmitFiltered,
         EmitAccept, EmitAbandon, DropPermit, TracingRefuse, ClientStep, FlushRefused, FlushWake,
         ShutdownBegin, ShutdownReturn, WallClock, vars, barriers, WorkerStep, WorkerFault,
         WorkerTop, WorkerPeriodic, WorkerTake, WorkerWake, WorkerMerge, WorkerOpenGroup,
         WorkerSummary, WorkerBarrier, WorkerSignal, WorkerShutdown, WorkerDrained, WorkerClosed,
         WorkerFail, WorkerBury, WorkerDropped, WorkerFinish, WorkerDropGroup, WorkerError,
         WorkerPanic
    <3> QED
      BY <1>0, <3>1
  <2> QED
    BY <2>1, <2>2
<1>2. \A x \in ItemType : x.kind = "barrier" => x.id \in Nat
  BY DEF ItemType, EventType, SummaryType, BarrierType, Shutdown
<1>3. ASSUME NEW x \in ItemType, x.kind = "barrier", x.id <= nextBarrier PROVE x.id <= nextBarrier'
  BY <1>0, <1>1, <1>2, <1>3
<1>4. worker.pc \in {"item", "signal"} => worker.item \in ItemType \cup {NoItem}
  BY DEF IndInv, TypeOK, WorkerTypes, WorkerType
<1>5. HasBarrier => worker.item \in ItemType /\ worker.item.id \in Nat
  BY <1>2, <1>4 DEF HasBarrier, NoItem
<1>6. completedBarrier' <= nextBarrier'
  <2>1. CASE UNCHANGED completedBarrier
    BY <1>0, <1>1, <2>1 DEF Issued
  <2>2. CASE HasBarrier /\ completedBarrier' = worker.item.id
    BY <1>0, <1>1, <1>5, <2>2 DEF Issued
  <2> QED
    BY <2>1, <2>2, Completes
<1>7. ASSUME NEW q, Extends(queue, q, 0, nextBarrier'), NEW n \in 1..Len(q), q[n].kind = "barrier"
      PROVE  q[n].id <= nextBarrier' /\ q[n] \in ItemType
  <2>1. q[n] \in ItemType /\ Len(queue) \in Nat /\ Len(q) \in Nat /\ n \in Nat /\ 1 <= n
    BY <1>0, <1>7 DEF Extends
  <2>2. CASE n > Len(queue)
    BY <1>7, <2>1, <2>2 DEF Extends
  <2>3. CASE ~(n > Len(queue))
    <3>1. n \in 1..Len(queue) /\ q[n] = queue[n]
      BY <1>7, <2>1, <2>3 DEF Extends
    <3> QED
      BY <1>3, <1>7, <2>1, <3>1 DEF Issued
  <2> QED
    BY <2>1, <2>2, <2>3
<1>8. CASE WorkerTake
  <2>1. PICK q : Extends(queue, q, 0, nextBarrier') /\ TakenFrom(q)
    BY <1>0, <1>8, TakeGrows DEF Grown
  <2>2. CASE q # <<>> /\ worker' = Handling(Head(q)) /\ queue' = Tail(q)
    <3>0. q \in Seq(ItemType)
      BY <2>1 DEF Extends
    <3>1. \A n \in 1..Len(queue') : n + 1 \in 1..Len(q) /\ queue'[n] = q[n + 1]
      BY <2>2, <3>0
    <3>2. 1 \in 1..Len(q) /\ worker'.item = q[1]
      BY <2>2, <3>0 DEF Handling
    <3> QED
      BY <1>6, <1>7, <2>1, <3>1, <3>2 DEF Issued, HasBarrier
  <2>3. CASE queue' = q /\ worker' = At("waiting")
    BY <1>6, <1>7, <2>1, <2>3 DEF Issued, HasBarrier, At
  <2> QED
    BY <2>1, <2>2, <2>3 DEF TakenFrom
<1>9. CASE ~WorkerTake
  <2>1. HasBarrier' => worker'.item.id <= nextBarrier'
    BY <1>3, <1>5, <1>9, BarrierKept DEF Issued, HasBarrier
  <2>2. CASE WorkerFail
    <3>1. Len(queue') = 0
      BY <2>2 DEF WorkerFail
    <3> QED
      BY <1>6, <2>1, <3>1 DEF Issued
  <2>3. CASE ~WorkerFail
    <3>1. Extends(queue, queue', 0, nextBarrier')
      BY <1>0, <1>9, <2>3, QueueGrows DEF Grown
    <3> QED
      BY <1>6, <1>7, <2>1, <3>1 DEF Issued
  <2> QED
    BY <2>2, <2>3
<1> QED
  BY <1>8, <1>9

\* With no group open and only later numbers queued, the lines stand for all numbers up to
\* the mark; the flush of the barrier makes them durable.
LEMMA BarrierCovers ==
  ASSUME IndInv, IndInv', Order, Lifecycle, Accounts, Moves, NEW b \in Nat, NEW m \in Nat, Held(b, m),
         WorkerBarrier
  PROVE  Covered(m)'
<1> USE DEF Held
<1>0. /\ queue \in Seq(ItemType) /\ sequence \in Nat /\ sequence' = sequence
      /\ UNCHANGED <<queue, groups, files>> /\ files \in [Paths -> Seq(LineType)]
  BY DEF IndInv, TypeOK, AdmissionTypes, OutputTypes, WorkerBarrier, admission, FlushOutput, output
<1>1. worker.pc = "item" /\ worker.item.kind = "barrier" /\ worker.item \notin NumberedItems
  BY DEF Barrier, NumberedItems, EventType, SummaryType
<1>2. DOMAIN groups = {}
  BY <1>1 DEF WorkerBarrier, MustFinish, HandlingA
<1>3. ~Failing
  BY <1>1 DEF Failing, Lifecycle, DyingWhenFailed
<1> DEFINE total == Weighed(files, NumbersOf)
           later == Cardinality(Places(queue, LaterThan(m)))
<1>4. total \in Nat /\ later \in Nat
  BY <1>0, WeighedNatural, WeightTypes, PlacesFinite DEF Accounts
<1>5. sequence = later + total
  <2>1. Places(queue, NumberedItems) = Places(queue, LaterThan(m))
    <3>1. \A n \in 1..Len(queue) : queue[n] \in NumberedItems <=> queue[n] \in LaterThan(m)
      BY <1>0, ItemNumbers DEF OnlyAfter, LaterThan
    <3>2. DOMAIN queue = 1..Len(queue)
      BY <1>0
    <3> QED
      BY <3>1, <3>2 DEF Places
  <2>2. HandHas(NumberedItems) = 0
    BY <1>1 DEF HandHas
  <2>3. Grouped(groups, Instances) = 0
    BY <1>2, GroupsSummable, GroupedNatural DEF IndInv
  <2>4. sequence = InTransit(NumberedItems, Instances) + total
    BY <1>3 DEF Accounts, NumbersPlaced
  <2>5. InTransit(NumberedItems, Instances) = later + 0 + 0
    BY <2>1, <2>2, <2>3 DEF InTransit
  <2> HIDE DEF later, total
  <2> QED
    BY <1>4, <2>4, <2>5
<1>6. later + m = sequence
  BY DEF AllQueued
<1> HIDE DEF later
<1>7. total = m /\ m <= sequence
  <2> HIDE DEF total
  <2> QED
    BY <1>4, <1>5, <1>6
<1>8. Weighed(files, UpTo(m)) = total
  <2>1. ASSUME NEW n \in PositionsOf(files)
        PROVE  UpTo(m)[files[n[1]][n[2]]] = NumbersOf[files[n[1]][n[2]]]
    <3>1. n[1] \in Paths /\ n[2] \in DOMAIN files[n[1]]
      BY PositionsAre
    <3>2. files[n[1]][n[2]] \in LineType /\ files[n[1]][n[2]].last <= m
      BY <1>0, <3>1 DEF Within
    <3> QED
      BY <3>2 DEF UpTo, NumbersOf, NumbersUpTo
  <2>2. [n \in PositionsOf(files) |-> UpTo(m)[files[n[1]][n[2]]]]
          = [n \in PositionsOf(files) |-> NumbersOf[files[n[1]][n[2]]]]
    BY <2>1
  <2> QED
    BY <2>2 DEF Weighed
<1>9. Settled(m)'
  <2>1. \A p \in Paths : durable'[p] = Len(files[p]) \/ ~(durable'[p] < Len(files[p]))
    <3>1. CASE unconfirmed = [i \in Instances |-> NothingUnconfirmed]
      <4>1. UNCHANGED durable
        BY <3>1 DEF WorkerBarrier, FlushOutput, output
      <4>2. ASSUME NEW p \in Paths, durable[p] < Len(files[p]) PROVE FALSE
        <5>1. unconfirmed[p[1]].lines > 0 /\ p[1] \in Instances
          BY <4>2 DEF Accounts, Confirmations, FlushedWithin, Paths
        <5>2. unconfirmed[p[1]].lines = 0
          BY <3>1, <5>1 DEF NothingUnconfirmed
        <5> QED
          BY <5>1, <5>2
      <4> QED
        BY <4>1, <4>2
    <3>2. CASE unconfirmed # [i \in Instances |-> NothingUnconfirmed]
      BY <3>2 DEF WorkerBarrier, FlushOutput
    <3> QED
      BY <3>1, <3>2
  <2>2. \A p \in Paths : durable'[p] \in Nat
    BY DEF IndInv, TypeOK, OutputTypes
  <2>3. ASSUME NEW p \in Paths, NEW n \in DOMAIN files[p] PROVE n <= durable'[p]
    <3>1. n \in Nat /\ n <= Len(files[p]) /\ Len(files[p]) \in Nat
      BY <1>0
    <3> QED
      BY <2>1, <2>2, <3>1
  <2> QED
    BY <1>0, <2>3 DEF Settled
<1>10. Beyond(m)'
  <2>1. ~HoldsNumber'
    BY DEF WorkerBarrier, HoldsNumber, IndInv, TypeOK, WorkerTypes, WorkerType, HandlingA
  <2>2. \A n \in Numbered(queue) : queue[n].seq > m
    BY <1>0 DEF Numbered, OnlyAfter, IsNumbered
  <2> QED
    BY <1>0, <1>2, <2>1, <2>2 DEF Beyond, Ahead
<1>11. Weighed(files', UpTo(m)) = m
  BY <1>0, <1>7, <1>8
<1> QED
  BY <1>0, <1>7, <1>9, <1>10, <1>11 DEF Covered

\* A barrier in hand stays there until the worker has flushed for it, or fails.
LEMMA HeldHand ==
  ASSUME IndInv, Lifecycle, [Next]_vars, worker.pc = "item", worker.item.kind = "barrier",
         ~Failing', ~WorkerBarrier
  PROVE  /\ worker'.pc = "item" /\ worker'.item = worker.item
         /\ ~WorkerTake /\ ~WorkerFail /\ UNCHANGED completedBarrier
<1>1. worker \in WorkerAt
  BY InHandTypes DEF IndInv
<1>2. ~WorkerTake /\ ~WorkerFail /\ ~WorkerSignal
  BY DEF WorkerTake, WorkerFail, WorkerSignal
<1>3. CASE ProducerStep \/ ClientStep \/ WallClock \/ UNCHANGED vars
  BY <1>2, <1>3 DEF ProducerStep, EmitReserve, EmitRefused, EmitTooLarge, EmitFiltered, EmitAccept,
     EmitAbandon, DropPermit, TracingRefuse, ClientStep, FlushBegin, FlushRefused, FlushWake,
     ShutdownBegin, ShutdownReturn, WallClock, vars, barriers
<1>4. CASE WorkerStep
  <2>1. \E k \in Keys : WorkerFinish(k)
    BY <1>2, <1>4 DEF WorkerStep, WorkerTop, WorkerPeriodic, WorkerTake, WorkerWake, WorkerMerge,
       WorkerOpenGroup, WorkerSummary, WorkerSignal, WorkerShutdown, WorkerDrained, WorkerClosed,
       WorkerFail, WorkerBury, WorkerDropped, WorkerDropGroup, HandlingA
  <2> QED
    BY <1>1, <1>2, <2>1 DEF WorkerFinish, WorkerAt, barriers
<1>5. CASE WorkerFault
  BY <1>5 DEF WorkerFault, WorkerError, WorkerPanic, Goto, At, Failing
<1> QED
  BY <1>3, <1>4, <1>5 DEF Next

\* A step of a runtime that does not fail brings a barrier further, or leaves it.
LEMMA BarrierMoves ==
  ASSUME IndInv, IndInv', Order, Lifecycle, Accounts, Moves, [Next]_vars, ~Failing',
         NEW b \in Nat, NEW m \in Nat, completedBarrier < b, Queued(b, m) \/ Held(b, m)
  PROVE  Covered(m)' \/ (completedBarrier' < b /\ (Queued(b, m)' \/ Held(b, m)'))
<1>0. /\ queue \in Seq(ItemType) /\ sequence \in Nat /\ m <= sequence
  <2>1. queue \in Seq(ItemType) /\ sequence \in Nat
    BY DEF IndInv, TypeOK, AdmissionTypes
  <2>2. Cardinality(Places(queue, LaterThan(m))) \in Nat
    BY <2>1, PlacesFinite
  <2>3. Cardinality(Places(queue, LaterThan(m))) + m = sequence
    BY DEF Queued, Held, AllQueued
  <2> QED
    BY <2>1, <2>2, <2>3
<1>1. ~WorkerFail
  BY DEF WorkerFail, Failing
<1> DEFINE Goal == Covered(m)' \/ (completedBarrier' < b /\ (Queued(b, m)' \/ Held(b, m)'))
<1>2. ASSUME Held(b, m), WorkerBarrier PROVE Goal
  BY <1>2, BarrierCovers
<1>3. ASSUME Held(b, m), ~WorkerBarrier PROVE Goal
  <2>1. worker.pc = "item" /\ worker.item = Barrier(b) /\ Barrier(b).kind = "barrier"
    BY <1>3 DEF Held, Barrier
  <2>2. /\ worker'.pc = "item" /\ worker'.item = worker.item
        /\ ~WorkerTake /\ UNCHANGED completedBarrier
    BY <1>3, <2>1, HeldHand
  <2>3. Grown(queue, sequence, queue', sequence', m, nextBarrier')
    BY <1>0, <1>1, <2>2, QueueGrows
  <2>4. OnlyAfter(queue', m) /\ AllQueued(queue', sequence', m)
    BY <1>0, <1>3, <2>3, WaitsStays DEF Held
  <2>5. Within(m)'
    BY <1>3, <2>1, <2>2, WithinStays DEF Held, HoldsNumber, IsNumbered
  <2> QED
    BY <2>1, <2>2, <2>4, <2>5 DEF Held
<1>4. ASSUME Queued(b, m), ~WorkerTake PROVE Goal
  <2>1. Grown(queue, sequence, queue', sequence', m, nextBarrier')
    BY <1>0, <1>1, <1>4, QueueGrows
  <2>2. WaitsIn(queue', b, m) /\ AllQueued(queue', sequence', m)
    BY <1>0, <1>4, <2>1, WaitsStays DEF Queued
  <2>3. Within(m)'
    BY <1>4, WithinStays, NumberKept DEF Queued, Within
  <2>4. HasBarrier' => worker'.item.id < b
    BY <1>4, BarrierKept DEF Queued
  <2>5. completedBarrier' < b
    BY <1>4, Completes DEF Queued
  <2> QED
    BY <2>2, <2>3, <2>4, <2>5 DEF Queued
<1>5. ASSUME Queued(b, m), WorkerTake PROVE Goal
  <2>1. PICK q : Grown(queue, sequence, q, sequence', m, b) /\ TakenFrom(q)
    BY <1>0, <1>5, TakeGrows
  <2>2. q \in Seq(ItemType) /\ sequence' \in Nat
    BY <2>1 DEF Grown, Extends
  <2>3. WaitsIn(q, b, m) /\ AllQueued(q, sequence', m)
    BY <1>0, <1>5, <2>1, WaitsStays DEF Queued
  <2>4. q # <<>>
    BY <2>3 DEF WaitsIn
  <2>5. worker' = Handling(Head(q)) /\ queue' = Tail(q)
    BY <2>1, <2>4 DEF TakenFrom
  <2>6. /\ AllQueued(queue', sequence', m)
        /\ \/ Head(q) = Barrier(b) /\ OnlyAfter(queue', m)
           \/ /\ WaitsIn(queue', b, m)
              /\ IsNumbered(Head(q)) => Head(q).seq <= m
              /\ Head(q).kind = "barrier" => Head(q).id < b
    BY <2>2, <2>3, <2>4, <2>5, WaitsTaken
  <2>7. worker'.pc = "item" /\ worker'.item = Head(q)
    BY <2>5 DEF Handling
  <2>8. HoldsNumber' => worker'.item.seq <= m
    BY <2>6, <2>7 DEF HoldsNumber, IsNumbered, Barrier
  <2>9. Within(m)'
    BY <1>5, <2>8, WithinStays DEF Queued
  <2>10. UNCHANGED completedBarrier
    BY <1>5 DEF WorkerTake, barriers
  <2>11. CASE Head(q) = Barrier(b) /\ OnlyAfter(queue', m)
    BY <2>6, <2>7, <2>9, <2>10, <2>11 DEF Held
  <2>12. CASE /\ WaitsIn(queue', b, m)
              /\ Head(q).kind = "barrier" => Head(q).id < b
    BY <2>6, <2>7, <2>9, <2>10, <2>12 DEF Queued, HasBarrier
  <2> QED
    BY <2>6, <2>11, <2>12
<1> QED
  BY <1>2, <1>3, <1>4, <1>5

\* What a barrier promises stays promised, also when the runtime fails.
LEMMA PromiseStays ==
  ASSUME IndInv, IndInv', Order, Lifecycle, Accounts, Moves, [Next]_vars,
         NEW b \in Nat, NEW m \in Nat, Promise(b, m)
  PROVE  Promise(b, m)'
<1>1. CASE Covered(m)
  BY <1>1, CoveredStays DEF Accounts, Promise
<1>2. CASE completedBarrier < b /\ (Failing \/ Queued(b, m) \/ Held(b, m))
  <2>1. CASE Failing'
    BY <1>2, <2>1, Completes DEF Promise
  <2>2. CASE ~Failing'
    <3>1. ~Failing
      BY <2>2, FailurePublishedStep
    <3> QED
      BY <1>2, <2>2, <3>1, BarrierMoves DEF Promise
  <2> QED
    BY <2>1, <2>2
<1> QED
  BY <1>1, <1>2 DEF Promise
-----------------------------------------------------------------------------
(* The callers of `flush` *)

\* The barriers come in turn, and each caller of `flush` has the promise of its barrier,
\* until the numbers up to its mark are covered: from then on they stay so.
Flushes ==
    /\ Issued
    /\ \A c \in Clients, b, m \in Nat : client[c].barrier = b /\ client[c].mark = m =>
          /\ client[c].pc = "flushing" => Promise(b, m)
          /\ client[c].pc = "flushed" => Covered(m)

\* A call of `flush` queues its barrier after all the numbers given so far.
LEMMA FlushQueued ==
  ASSUME IndInv, IndInv', Order', Issued, NEW c \in Clients, FlushBegin(c),
         NEW b, b = nextBarrier', NEW m, m = sequence'
  PROVE  Promise(b, m)'
<1>1. PICK order \in Ascending(Owing) :
        queue' = Append(queue \o SummaryItems(order), Barrier(nextBarrier'))
  BY DEF FlushBegin
<1> DEFINE r == queue \o SummaryItems(order)
           q == Append(r, Barrier(b))
           n == Len(r) + 1
<1>2. /\ b \in Nat /\ b = nextBarrier + 1 /\ nextBarrier \in Nat /\ m \in Nat /\ q = queue'
      /\ completedBarrier' = completedBarrier /\ completedBarrier \in Nat
      /\ UNCHANGED <<worker, groups, files>>
  BY <1>1 DEF FlushBegin, IndInv, TypeOK, AdmissionTypes, output
<1>3. Grown(queue, sequence, r, sequence + Cardinality(Owing), 0, nextBarrier)
  BY ServedGrows, OwingInstances DEF IndInv, TypeOK, AdmissionTypes
<1> HIDE DEF r
<1>4. /\ r \in Seq(ItemType) /\ q \in Seq(ItemType) /\ Len(q) = n /\ n \in 1..Len(q) /\ q[n] = Barrier(b)
      /\ \A j \in 1..Len(q) : j < n => j \in 1..Len(r) /\ q[j] = r[j]
  BY <1>1, <1>3 DEF Grown, Extends, IndInv, TypeOK, AdmissionTypes, r
<1>5. \A x \in ItemType : x.kind = "barrier" => x.id \in Nat
  BY DEF ItemType, EventType, SummaryType, BarrierType, Shutdown
<1>6. ASSUME NEW j \in 1..Len(q), j < n, q[j].kind = "barrier" PROVE q[j].id < b
  <2>1. j \in 1..Len(r) /\ q[j] = r[j] /\ q[j] \in ItemType /\ Len(queue) \in Nat
    BY <1>4, <1>6 DEF IndInv, TypeOK, AdmissionTypes
  <2>2. q[j].id <= nextBarrier
    <3>1. CASE j > Len(queue)
      BY <1>3, <1>6, <2>1, <3>1 DEF Grown, Extends
    <3>2. CASE ~(j > Len(queue))
      <4>1. j \in 1..Len(queue) /\ r[j] = queue[j]
        BY <1>3, <2>1, <3>2 DEF Grown, Extends
      <4> QED
        BY <1>6, <2>1, <4>1 DEF Issued
    <3> QED
      BY <3>1, <3>2
  <2>3. q[j].id \in Nat
    BY <1>5, <1>6, <2>1
  <2> QED
    BY <1>2, <2>2, <2>3
<1>7. ASSUME NEW j \in 1..Len(q), IsNumbered(q[j]) PROVE q[j].seq \in Nat /\ q[j].seq <= m /\ j < n
  <2>1. q[j].seq \in Nat
    BY <1>4, <1>7, ItemNumbers
  <2>2. j \in Numbered(queue')
    BY <1>2, <1>4, <1>7 DEF Numbered, IsNumbered
  <2>3. q[j].seq \in Ahead'
    BY <1>2, <2>2 DEF Ahead
  <2>4. q[j].seq <= m
    BY <2>3 DEF Order, QueueInOrder
  <2>5. j # n
    BY <1>4, <1>7 DEF Barrier, IsNumbered
  <2>6. j < n
    BY <1>4, <2>5
  <2> QED
    BY <2>1, <2>4, <2>6
<1>8. WaitsIn(q, b, m)
  BY <1>4, <1>6, <1>7 DEF WaitsIn
<1>9. AllQueued(q, m, m)
  <2>1. Places(q, LaterThan(m)) = {}
    <3>1. ASSUME NEW j \in 1..Len(q) PROVE q[j] \notin LaterThan(m)
      <4>1. q[j] \in LaterThan(m) => IsNumbered(q[j]) /\ q[j].seq > m
        BY <1>4, ItemNumbers DEF LaterThan
      <4>2. IsNumbered(q[j]) => ~(q[j].seq > m)
        BY <1>2, <1>7
      <4> QED
        BY <4>1, <4>2
    <3> QED
      BY <1>4, <3>1 DEF Places
  <2>2. Cardinality(Places(q, LaterThan(m))) = 0
    BY <2>1, FS_EmptySet
  <2> QED
    BY <1>2, <2>2 DEF AllQueued
<1>10. /\ HoldsNumber' => worker'.item.seq <= m
       /\ \A k \in DOMAIN groups' : groups'[k].last <= m
       /\ \A p \in Paths : \A j \in DOMAIN files'[p] : files'[p][j].last <= m
  BY DEF Order, QueueInOrder, Ahead, OutputInOrder, GroupsBehind, LinesBehind, Behind
<1>11. HasBarrier' => worker'.item.id < b
  <2>1. worker.pc \in {"item", "signal"} => worker.item \in ItemType \cup {NoItem}
    BY DEF IndInv, TypeOK, WorkerTypes, WorkerType
  <2>2. HasBarrier => worker.item.id \in Nat /\ worker.item.id <= nextBarrier
    BY <1>5, <2>1 DEF HasBarrier, NoItem, Issued
  <2> QED
    BY <1>2, <2>2 DEF HasBarrier
<1>12. completedBarrier' < b
  BY <1>2 DEF Issued
<1> HIDE DEF q
<1>13. Queued(b, m)'
  BY <1>2, <1>8, <1>9, <1>10, <1>11 DEF Queued, Within
<1> QED
  BY <1>12, <1>13 DEF Promise

\* Every step keeps the promises made to the callers of `flush`.
LEMMA FlushesStep ==
  ASSUME IndInv, IndInv', Order, Order', Lifecycle, Accounts, Flushes, [Next]_vars
  PROVE  Flushes'
<1>1. Issued'
  BY IssuedStep DEF Flushes
<1>2. Moves
  BY NextMoves DEF Order
<1>3. ASSUME NEW c \in Clients, NEW b \in Nat, NEW m \in Nat,
             client'[c].barrier = b, client'[c].mark = m
      PROVE  /\ client'[c].pc = "flushing" => Promise(b, m)'
             /\ client'[c].pc = "flushed" => Covered(m)'
  <2> DEFINE Goal == /\ client'[c].pc = "flushing" => Promise(b, m)'
                     /\ client'[c].pc = "flushed" => Covered(m)'
  <2>0. /\ client \in [Clients -> [pc : {"idle", "flushing", "joining", "flushed", "shut", "error"},
                                   barrier : Nat, mark : Nat]]
        /\ completedBarrier \in Nat
    BY DEF IndInv, TypeOK, ThreadTypes, AdmissionTypes
  <2>1. ASSUME client'[c] = client[c] PROVE Goal
    <3>1. CASE client[c].pc = "flushing"
      <4>1. Promise(b, m)
        BY <1>3, <2>1, <3>1 DEF Flushes
      <4>2. Promise(b, m)'
        BY <1>2, <4>1, PromiseStays
      <4> QED
        BY <2>1, <3>1, <4>2
    <3>2. CASE client[c].pc = "flushed"
      <4>1. Covered(m)
        BY <1>3, <2>1, <3>2 DEF Flushes
      <4>2. Covered(m)'
        BY <1>2, <4>1, CoveredStays DEF Accounts
      <4> QED
        BY <2>1, <3>2, <4>2
    <3> QED
      BY <2>1, <3>1, <3>2
  <2>2. ASSUME FlushBegin(c) PROVE Goal
    <3>1. client'[c] = [pc |-> "flushing", barrier |-> nextBarrier', mark |-> sequence']
      BY <2>0, <2>2 DEF FlushBegin
    <3>2. b = nextBarrier' /\ m = sequence'
      BY <1>3, <3>1
    <3>3. Promise(b, m)'
      BY <2>2, <3>2, FlushQueued DEF Flushes
    <3> QED
      BY <3>1, <3>3
  <2>3. ASSUME FlushWake(c), client'[c] # client[c], client'[c].pc = "flushed" PROVE Covered(m)'
    <3>1. /\ client' = [client EXCEPT ![c].pc = "flushed"] /\ client[c].pc = "flushing"
          /\ completedBarrier >= client[c].barrier
      BY <2>0, <2>3 DEF FlushWake
    <3>2. client[c].barrier = b /\ client[c].mark = m
      BY <1>3, <2>0, <3>1
    <3>3. Promise(b, m)
      BY <3>1, <3>2 DEF Flushes
    <3>4. ~(completedBarrier < b)
      BY <2>0, <3>1, <3>2
    <3>5. Covered(m)
      BY <3>3, <3>4 DEF Promise
    <3> QED
      BY <1>2, <3>5, CoveredStays DEF Accounts
  <2>4. \/ client'[c] = client[c] \/ FlushBegin(c)
        \/ FlushWake(c)
        \/ client'[c].pc \in {"error", "joining", "shut"}
    <3>1. CASE ClientStep
      <4>1. PICK d \in Clients : \/ FlushBegin(d) \/ FlushRefused(d) \/ FlushWake(d)
                                 \/ ShutdownBegin(d) \/ ShutdownReturn(d)
        BY <3>1 DEF ClientStep
      <4>2. CASE d # c
        <5>1. client'[c] = client[c]
          BY <2>0, <4>1, <4>2 DEF FlushBegin, FlushRefused, FlushWake, ShutdownBegin, ShutdownReturn
        <5> QED
          BY <5>1
      <4>3. CASE d = c
        BY <2>0, <4>1, <4>3 DEF FlushRefused, ShutdownBegin, ShutdownReturn
      <4> QED
        BY <4>2, <4>3
    <3>2. CASE ~ClientStep
      <4>1. UNCHANGED client
        BY <3>2 DEF Next, ProducerStep, EmitReserve, EmitRefused, EmitTooLarge, EmitFiltered,
           EmitAccept, EmitAbandon, DropPermit, TracingRefuse, WallClock, vars, threads, WorkerStep,
           WorkerFault, WorkerTop, WorkerPeriodic, WorkerTake, WorkerWake, WorkerMerge,
           WorkerOpenGroup, WorkerSummary, WorkerBarrier, WorkerSignal, WorkerShutdown,
           WorkerDrained, WorkerClosed, WorkerFail, WorkerBury, WorkerDropped, WorkerFinish,
           WorkerDropGroup, WorkerError, WorkerPanic
      <4> QED
        BY <4>1
    <3> QED
      BY <3>1, <3>2
  <2>5. FlushWake(c) => client'[c] = client[c] \/ client'[c].pc \in {"flushed", "error"}
    BY <2>0 DEF FlushWake
  <2>6. ASSUME client'[c].pc \in {"error", "joining", "shut"} PROVE Goal
    BY <2>6
  <2> QED
    BY <2>1, <2>2, <2>3, <2>4, <2>5, <2>6
<1> QED
  BY <1>1, <1>3 DEF Flushes

\* At the start nobody has called `flush`.
LEMMA AlwaysFlushes == Spec => []Flushes
<1>1. Init => Flushes
  BY DEF Init, Flushes, Issued, HasBarrier, At, IdleClient
<1> QED
  BY <1>1, Inductive, AlwaysOrder, AlwaysLifecycle, AlwaysAccounts, FlushesStep, PTL DEF Spec

\* When Runtime::flush has returned successfully, every sequence number that was assigned
\* before its barrier is in a line that the output has flushed; and it stays so, whatever
\* is admitted, summarised, shut down or failing meanwhile.
THEOREM FlushCovers == Spec => []FlushCoversAdmitted
<1>1. IndInv /\ Accounts /\ Flushes => FlushCoversAdmitted
  <2> SUFFICES ASSUME IndInv, Accounts, Flushes, NEW c \in Clients, client[c].pc = "flushed"
               PROVE  InDurable(LAMBDA line : NumbersUpTo(client[c].mark, line)) = client[c].mark
    BY DEF FlushCoversAdmitted
  <2> DEFINE m == client[c].mark
             W == UpTo(m)
             f == [n \in PositionsOf(files) |-> W[files[n[1]][n[2]]]]
             g == [n \in FlushedOf(files, durable) |-> W[files[n[1]][n[2]]]]
  <2>1. m \in Nat /\ client[c].barrier \in Nat
    BY DEF IndInv, TypeOK, ThreadTypes
  <2>2. Covered(m)
    BY <2>1 DEF Flushes
  <2>3. Summable(f) /\ DOMAIN f = PositionsOf(files) /\ DOMAIN g = FlushedOf(files, durable)
    BY <2>1, UpToTypes, LinesSummable DEF IndInv, TypeOK, OutputTypes, FilesOf, Accounts, FilesFinite
  <2>4. DOMAIN g \in SUBSET DOMAIN f
    BY <2>3 DEF FlushedOf
  <2>5. \A n \in DOMAIN g : g[n] = f[n]
    BY <2>4
  <2>6. ASSUME NEW n \in DOMAIN f \ DOMAIN g PROVE f[n] = 0
    <3>1. n[1] \in Paths /\ n[2] \in DOMAIN files[n[1]] /\ files[n[1]][n[2]] \in LineType
      BY <2>3, <2>6, LinesAtPositions, PositionsAre
    <3>2. ~(n[2] <= durable[n[1]])
      BY <2>3, <2>6 DEF FlushedOf
    <3>3. ~(files[n[1]][n[2]].last <= m)
      BY <2>2, <3>1, <3>2 DEF Covered, Settled
    <3>4. W[files[n[1]][n[2]]] = 0
      BY <3>1, <3>3 DEF UpTo, NumbersUpTo
    <3> QED
      BY <2>3, <2>6, <3>4
  <2>7. SumFunction(f) = m
    BY <2>2 DEF Covered, Weighed
  <2>8. InDurable(LAMBDA line : NumbersUpTo(m, line)) = SumFunction(g)
    <3>1. /\ Flushed = FlushedOf(files, durable)
          /\ \A n \in Flushed : LineAt(n) \in LineType /\ LineAt(n) = files[n[1]][n[2]]
      BY LinesAtPositions DEF Flushed, FlushedOf, LineAt
    <3>2. \A n \in Flushed : NumbersUpTo(m, LineAt(n)) = W[files[n[1]][n[2]]]
      BY <3>1 DEF UpTo
    <3>3. [n \in Flushed |-> NumbersUpTo(m, LineAt(n))] = g
      BY <3>1, <3>2
    <3> QED
      BY <3>3 DEF InDurable
  <2> HIDE DEF f, g, W
  <2>9. SumFunction(g) = SumFunction(f)
    BY <2>3, <2>4, <2>5, <2>6, SumRestricted
  <2> QED
    BY <2>7, <2>8, <2>9 DEF m
<1> QED
  BY <1>1, Inductive, AlwaysAccounts, AlwaysFlushes, PTL
=============================================================================

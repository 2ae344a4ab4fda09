------------------------------ MODULE RootsProofs ------------------------------
(***************************************************************************)
(* Sessions and roots, for any number of stores, presses, losses and       *)
(* sessions: the bound on sessions, the root that a store believes its     *)
(* session to hold, the one it shows, and what a closure releases.         *)
(***************************************************************************)
EXTENDS Roots, SequenceTheorems, FiniteSetTheorems, WellFoundedInduction, TLAPS

(* The tasks of one store: ts are its tasks, q its queue of requests. *)

Steps == {"awaits", "initializes", "queued", "answered", "done"}
TaskRecords(n) ==
    [kind : {"open", "close"}, pc : Steps, awaited : SUBSET (1..n), root : 0..n]

\* The task of a kind that comes last before n.
Before(ts, n, kind) ==
    {m \in 1..(n - 1) : ts[m].kind = kind /\ \A k \in (m + 1)..(n - 1) : ts[k].kind # kind}
Ended(ts, m) == ts[m].pc = "done"

\* A task by itself: it awaits earlier ones, and an opening has a root, its own number,
\* once it has been answered.
TaskSound(t, n) ==
    /\ t.awaited \subseteq 1..(n - 1)
    /\ t.kind = "open" => t.root \in {0, n}
    /\ t.kind = "open" /\ t.pc \in {"awaits", "initializes", "queued"} => t.root = 0
    /\ t.kind = "close" => t.pc # "initializes"
TasksSound(ts) ==
    /\ ts \in Seq(TaskRecords(Len(ts)))
    /\ \A n \in 1..Len(ts) : TaskSound(ts[n], n)

\* A task awaits the last closure before it, unless it has ended; a closure awaits the last
\* opening too.
WaitsSound(ts) ==
    \A n \in 1..Len(ts) :
        /\ \A m \in Before(ts, n, "close") : Ended(ts, m) \/ m \in ts[n].awaited
        /\ ts[n].kind = "close" =>
              \A m \in Before(ts, n, "open") : Ended(ts, m) \/ m \in ts[n].awaited

\* A task that has begun comes after the end of every closure before it, and a closure
\* after the end of the last opening.
StartsSound(ts) ==
    \A n \in 1..Len(ts) :
        ts[n].pc # "awaits" =>
            /\ \A m \in 1..(n - 1) : ts[m].kind = "close" => Ended(ts, m)
            /\ ts[n].kind = "close" => \A m \in Before(ts, n, "open") : Ended(ts, m)

\* The requests wait in the order of their tasks; the first one may have been answered.
QueueSound(ts, q) ==
    /\ q \in Seq(1..Len(ts))
    /\ \A i, j \in 1..Len(q) : i < j => q[i] < q[j]
    /\ \A i \in 1..Len(q) : ts[q[i]].pc = "queued" \/ (i = 1 /\ ts[q[i]].pc = "answered")

StoreSound(ts, q) ==
    TasksSound(ts) /\ WaitsSound(ts) /\ StartsSound(ts) /\ QueueSound(ts, q)

\* The root on show, s, when the store knows of root r: only openings have come since;
\* r is the same one, or a later one that has been superseded.
ShownSound(ts, q, s, r) ==
    /\ s \in 1..Len(ts) /\ ts[s].kind = "open" /\ Ended(ts, s)
    /\ \A m \in (s + 1)..Len(ts) : ts[m].kind = "open"
    /\ \A m \in 1..(s - 1) : ts[m].kind = "close" => Ended(ts, m)
    /\ \A i \in 1..Len(q) : q[i] > s
    /\ r = s \/ (r \in Nat /\ s < r /\ r < Len(ts))
    /\ Ended(ts, Len(ts)) /\ ts[Len(ts)].root # 0 => s = Len(ts)

\* Once a closure that comes last has begun, the root it leaves, r, and the openings still
\* in the queue have been overtaken by another opening.
OvertakenIn(ts, n) == n < Len(ts) /\ ts[n + 1].kind = "open"
ClosureSound(ts, q, r) ==
    ts # <<>> /\ ts[Len(ts)].kind = "close" /\ ts[Len(ts)].pc # "awaits" =>
        /\ \A i \in 1..Len(q) : ts[q[i]].kind = "open" => OvertakenIn(ts, q[i])
        /\ \/ r = 0 \/ OvertakenIn(ts, r)
           \/ ts[Len(ts)].pc # "done" /\ ts[Len(ts)].root = r
-----------------------------------------------------------------------------
(* Sets of tasks *)

\* A set of task numbers has a last one.
LEMMA LastOne ==
  ASSUME NEW n \in Nat, NEW T \in SUBSET (1..n), T # {}
  PROVE  \E c \in T : \A k \in T : k <= c
<1> DEFINE Ends == {c..n : c \in T}
<1>1. IsFiniteSet(1..n)
  BY FS_Interval
<1>2. IsWellFoundedOn(StrictSubsetOrdering(1..n), SUBSET (1..n))
  BY <1>1, FS_StrictSubsetOrderingWellFounded, FS_FiniteSubsetsOfFinite
<1>3. Ends \subseteq SUBSET (1..n) /\ Ends # {}
  <2>1. ASSUME NEW c \in T PROVE c..n \subseteq 1..n
    OBVIOUS
  <2> QED
    BY <2>1
<1> HIDE DEF Ends
<1>4. PICK E \in Ends : \A U \in Ends : <<U, E>> \notin StrictSubsetOrdering(1..n)
  BY <1>2, <1>3, WFMin
<1>5. PICK c \in T : E = c..n
  BY <1>4 DEF Ends
<1>6. ASSUME NEW k \in T, ~(k <= c) PROVE FALSE
  <2>1. k \in 1..n /\ c \in 1..n /\ c < k
    BY <1>6
  <2>2. (k..n) \in Ends
    BY DEF Ends
  <2>3. k..n \subseteq E /\ k..n # E
    <3>1. c \in E /\ c \notin k..n
      BY <1>5, <2>1
    <3> QED
      BY <1>5, <2>1, <3>1
  <2>4. <<k..n, E>> \in (SUBSET (1..n)) \X (SUBSET (1..n))
    BY <1>3, <1>4, <2>2
  <2>5. <<k..n, E>> \in StrictSubsetOrdering(1..n)
    BY <2>3, <2>4 DEF StrictSubsetOrdering
  <2> QED
    BY <1>4, <2>2, <2>5
<1> QED
  BY <1>6

\* If there is a task of a kind before n, one of them comes last.
LEMMA LastBefore ==
  ASSUME NEW ts, NEW n \in Nat, NEW kind, NEW m \in 1..(n - 1), ts[m].kind = kind
  PROVE  \E c \in Before(ts, n, kind) : m <= c
<1> DEFINE T == {k \in 1..(n - 1) : ts[k].kind = kind}
<1>1. T \in SUBSET (1..(n - 1)) /\ T # {} /\ n - 1 \in Nat /\ m \in T
  OBVIOUS
<1>2. PICK c \in T : \A k \in T : k <= c
  BY <1>1, LastOne
<1>3. ASSUME NEW k \in (c + 1)..(n - 1) PROVE ts[k].kind # kind
  <2>1. k \in 1..(n - 1) /\ ~(k <= c)
    BY <1>2, <1>3
  <2> QED
    BY <1>2, <2>1
<1>4. c \in Before(ts, n, kind)
  BY <1>2, <1>3 DEF Before
<1> QED
  BY <1>1, <1>2, <1>4

\* The tasks, one of them replaced.
With(ts, n, t) == [ts EXCEPT ![n] = t]

\* A task of which a field has changed has the others it had.
LEMMA TaskChanged ==
  ASSUME NEW ts, TasksSound(ts), NEW n \in 1..Len(ts), NEW t \in TaskRecords(Len(ts)),
         t.kind = ts[n].kind, NEW us, us = With(ts, n, t)
  PROVE  /\ us \in Seq(TaskRecords(Len(us))) /\ Len(us) = Len(ts) /\ us[n] = t
         /\ \A m \in 1..Len(ts) : m # n => us[m] = ts[m]
         /\ \A m \in 1..Len(ts) : us[m].kind = ts[m].kind
         /\ \A m \in 1..Len(ts), kind \in {"open", "close"} :
                Before(us, m, kind) = Before(ts, m, kind)
<1>1. PICK R : R = TaskRecords(Len(ts))
  OBVIOUS
<1>2. ts \in Seq(R) /\ t \in R
  BY <1>1 DEF TasksSound
<1>3. us \in Seq(R) /\ Len(us) = Len(ts) /\ us[n] = t
      /\ \A m \in 1..Len(ts) : m # n => us[m] = ts[m]
  BY <1>2 DEF With
<1>4. \A m \in 1..Len(ts) : us[m].kind = ts[m].kind
  BY <1>3
<1>5. ASSUME NEW m \in 1..Len(ts), NEW kind
      PROVE  Before(us, m, kind) = Before(ts, m, kind)
  <2>1. Len(ts) \in Nat /\ \A k \in 1..(m - 1) : k \in 1..Len(ts)
    BY <1>2
  <2>2. \A k \in 1..(m - 1) : \A l \in (k + 1)..(m - 1) : l \in 1..(m - 1)
    BY <2>1
  <2> QED
    BY <1>4, <2>1, <2>2 DEF Before
<1> QED
  BY <1>1, <1>3, <1>4, <1>5

\* A task goes on: no one loses what it waits for, and it begins only after those it
\* awaits have ended.
LEMMA TaskGoesOn ==
  ASSUME NEW ts, TasksSound(ts), WaitsSound(ts), StartsSound(ts),
         NEW n \in 1..Len(ts), NEW t \in TaskRecords(Len(ts)), TaskSound(t, n),
         t.kind = ts[n].kind, t.awaited = ts[n].awaited, ~Ended(ts, n),
         t.pc = "awaits" => ts[n].pc = "awaits",
         ts[n].pc = "awaits" => \A m \in ts[n].awaited : Ended(ts, m),
         NEW us, us = With(ts, n, t)
  PROVE  TasksSound(us) /\ WaitsSound(us) /\ StartsSound(us)
<1>0. Len(ts) \in Nat
  BY DEF TasksSound
<1>1. /\ us \in Seq(TaskRecords(Len(us))) /\ Len(us) = Len(ts) /\ us[n] = t
      /\ \A m \in 1..Len(ts) : m # n => us[m] = ts[m]
      /\ \A m \in 1..Len(ts) : us[m].kind = ts[m].kind
      /\ \A m \in 1..Len(ts), kind \in {"open", "close"} :
             Before(us, m, kind) = Before(ts, m, kind)
  BY TaskChanged
<1>2. TasksSound(us)
  BY <1>1 DEF TasksSound
<1>3. ASSUME NEW m \in 1..Len(ts), Ended(ts, m) PROVE Ended(us, m)
  BY <1>1, <1>3 DEF Ended
<1>4. \A m \in 1..Len(ts) : us[m].awaited = ts[m].awaited
  BY <1>1
<1>5. \A m \in 1..Len(ts), kind \in {"open", "close"} :
        \A k \in Before(ts, m, kind) : k \in 1..Len(ts)
  BY <1>0 DEF Before
<1>6. WaitsSound(us)
  <2>1. ASSUME NEW m \in 1..Len(us), NEW k \in Before(us, m, "close")
        PROVE  Ended(us, k) \/ k \in us[m].awaited
    <3>1. m \in 1..Len(ts) /\ k \in Before(ts, m, "close") /\ k \in 1..Len(ts)
      BY <1>1, <1>5, <2>1
    <3> QED
      BY <1>3, <1>4, <3>1 DEF WaitsSound
  <2>2. ASSUME NEW m \in 1..Len(us), us[m].kind = "close", NEW k \in Before(us, m, "open")
        PROVE  Ended(us, k) \/ k \in us[m].awaited
    <3>1. /\ m \in 1..Len(ts) /\ k \in Before(ts, m, "open") /\ k \in 1..Len(ts)
          /\ ts[m].kind = "close"
      BY <1>1, <1>5, <2>2
    <3> QED
      BY <1>3, <1>4, <3>1 DEF WaitsSound
  <2> QED
    BY <2>1, <2>2 DEF WaitsSound
<1>7. ASSUME NEW m \in 1..Len(ts), us[m].pc # "awaits"
      PROVE  /\ \A k \in 1..(m - 1) : ts[k].kind = "close" => Ended(ts, k)
             /\ ts[m].kind = "close" => \A k \in Before(ts, m, "open") : Ended(ts, k)
  <2>1. CASE ts[m].pc # "awaits"
    BY <2>1 DEF StartsSound
  <2>2. CASE ts[m].pc = "awaits"
    <3>1. m = n
      BY <1>1, <1>7, <2>2
    <3>2. \A k \in ts[n].awaited : Ended(ts, k)
      BY <2>2, <3>1
    <3>3. ASSUME NEW k \in 1..(n - 1), ts[k].kind = "close" PROVE Ended(ts, k)
      <4>1. PICK c \in Before(ts, n, "close") : k <= c
        BY <1>0, <3>3, LastBefore
      <4>2. Ended(ts, c)
        BY <3>2, <4>1 DEF WaitsSound
      <4>3. c \in 1..Len(ts) /\ c \in Nat /\ k \in Nat /\ ts[c].pc # "awaits"
        BY <1>0, <4>1, <4>2 DEF Before, Ended
      <4>4. CASE k = c
        BY <4>2, <4>4
      <4>5. CASE k # c
        <5>1. k \in 1..(c - 1)
          BY <4>1, <4>3, <4>5
        <5> QED
          BY <3>3, <4>3, <5>1 DEF StartsSound
      <4> QED
        BY <4>4, <4>5
    <3>4. ASSUME ts[n].kind = "close", NEW k \in Before(ts, n, "open") PROVE Ended(ts, k)
      BY <3>2, <3>4 DEF WaitsSound
    <3> QED
      BY <3>1, <3>3, <3>4
  <2> QED
    BY <2>1, <2>2
<1>8. StartsSound(us)
  <2>1. ASSUME NEW m \in 1..Len(us), us[m].pc # "awaits", NEW k \in 1..(m - 1), us[k].kind = "close"
        PROVE  Ended(us, k)
    <3>1. m \in 1..Len(ts) /\ k \in 1..Len(ts) /\ ts[k].kind = "close"
      BY <1>0, <1>1, <2>1
    <3> QED
      BY <1>3, <1>7, <2>1, <3>1
  <2>2. ASSUME NEW m \in 1..Len(us), us[m].pc # "awaits", us[m].kind = "close",
               NEW k \in Before(us, m, "open")
        PROVE  Ended(us, k)
    <3>1. /\ m \in 1..Len(ts) /\ k \in Before(ts, m, "open") /\ k \in 1..Len(ts)
          /\ ts[m].kind = "close"
      BY <1>1, <1>5, <2>2
    <3> QED
      BY <1>3, <1>7, <2>2, <3>1
  <2> QED
    BY <2>1, <2>2 DEF StartsSound
<1> QED
  BY <1>2, <1>6, <1>8

\* The last task of a kind, if it has not ended.
PendingIn(ts, kind) ==
    {n \in 1..Len(ts) : /\ ts[n].kind = kind /\ ~Ended(ts, n)
                        /\ \A m \in (n + 1)..Len(ts) : ts[m].kind # kind}
\* One task more.
Added(ts, kind, awaited) == Append(ts, Task(kind, awaited))

\* A task that is added awaits the last closure, and the last opening if it is a closure.
LEMMA TaskAdded ==
  ASSUME NEW ts, TasksSound(ts), WaitsSound(ts), StartsSound(ts), NEW kind \in {"open", "close"},
         NEW awaited, awaited = IF kind = "open" THEN PendingIn(ts, "close")
                                ELSE PendingIn(ts, "close") \cup PendingIn(ts, "open"),
         NEW us, us = Added(ts, kind, awaited)
  PROVE  /\ TasksSound(us) /\ WaitsSound(us) /\ StartsSound(us)
         /\ Len(us) = Len(ts) + 1 /\ us[Len(us)].kind = kind /\ us[Len(us)].pc = "awaits"
         /\ us[Len(us)].root = 0
         /\ \A m \in 1..Len(ts) : us[m] = ts[m]
<1> DEFINE n == Len(ts)
<1>0. n \in Nat
  BY DEF TasksSound
<1>1. PICK t : t = Task(kind, awaited)
  OBVIOUS
<1>2. /\ t = [kind |-> kind, pc |-> "awaits", awaited |-> awaited, root |-> 0]
      /\ awaited \subseteq 1..n
  BY <1>1 DEF Task, PendingIn
<1>12. t.awaited = awaited
  BY <1>2
<1>3. t \in TaskRecords(n + 1) /\ TaskSound(t, n + 1)
  <2>1. awaited \in SUBSET (1..(n + 1)) /\ 0 \in 0..(n + 1)
    BY <1>0, <1>2
  <2>2. t \in TaskRecords(n + 1)
    BY <1>2, <2>1 DEF TaskRecords, Steps
  <2>3. TaskSound(t, n + 1)
    BY <1>0, <1>2 DEF TaskSound
  <2> QED
    BY <2>2, <2>3
<1>4. /\ us \in Seq(TaskRecords(Len(us))) /\ Len(us) = n + 1 /\ us[n + 1] = t
      /\ \A m \in 1..n : us[m] = ts[m]
  <2>1. PICK R : R = TaskRecords(n + 1)
    OBVIOUS
  <2>2. TaskRecords(n) \subseteq R
    <3>1. SUBSET (1..n) \subseteq SUBSET (1..(n + 1)) /\ 0..n \subseteq 0..(n + 1)
      BY <1>0
    <3> QED
      BY <2>1, <3>1 DEF TaskRecords
  <2>3. PICK Q : Q = TaskRecords(n)
    OBVIOUS
  <2>4. ts \in Seq(Q) /\ Q \subseteq R
    BY <2>2, <2>3 DEF TasksSound
  <2>5. ts \in Seq(R) /\ t \in R
    BY <1>3, <2>1, <2>4
  <2>6. us = Append(ts, t)
    BY <1>1 DEF Added
  <2>7. /\ Append(ts, t) \in Seq(R) /\ Len(Append(ts, t)) = n + 1
        /\ \A m \in 1..n : Append(ts, t)[m] = ts[m]
        /\ Append(ts, t)[n + 1] = t
    BY <2>5, AppendProperties
  <2>8. us \in Seq(R) /\ Len(us) = n + 1 /\ us[n + 1] = t /\ \A m \in 1..n : us[m] = ts[m]
    BY <2>6, <2>7
  <2> QED
    BY <2>1, <2>8
<1> HIDE DEF n
<1>5. TasksSound(us)
  <2>1. ASSUME NEW m \in 1..(n + 1) PROVE TaskSound(us[m], m)
    <3>1. CASE m = n + 1
      BY <1>3, <1>4, <3>1
    <3>2. CASE m # n + 1
      <4>1. m \in 1..n
        BY <1>0, <3>2
      <4> QED
        BY <1>4, <4>1 DEF TasksSound, n
    <3> QED
      BY <3>1, <3>2
  <2> QED
    BY <1>4, <2>1 DEF TasksSound
<1>6. ASSUME NEW m \in 1..n, NEW k2, NEW k \in Before(us, m, k2)
      PROVE  k \in Before(ts, m, k2) /\ k \in 1..n
  <2>1. k \in 1..(m - 1) /\ us[k].kind = k2 /\ \A l \in (k + 1)..(m - 1) : us[l].kind # k2
    BY <1>6 DEF Before
  <2>2. k \in 1..n /\ \A l \in (k + 1)..(m - 1) : l \in 1..n
    BY <1>0, <2>1
  <2> QED
    BY <1>4, <2>1, <2>2 DEF Before
<1>7. ASSUME NEW k2 \in {"open", "close"}, NEW k \in Before(us, n + 1, k2)
      PROVE  k \in 1..n /\ (Ended(us, k) \/ k \in PendingIn(ts, k2))
  <2>0. (n + 1) - 1 = n
    BY <1>0
  <2>1. k \in 1..n /\ us[k].kind = k2 /\ \A l \in (k + 1)..n : us[l].kind # k2
    BY <1>7, <2>0 DEF Before
  <2>2. \A l \in (k + 1)..n : l \in 1..n
    BY <1>0, <2>1
  <2>3. ts[k].kind = k2 /\ \A l \in (k + 1)..n : ts[l].kind # k2
    BY <1>4, <2>1, <2>2
  <2>4. Ended(us, k) <=> Ended(ts, k)
    BY <1>4, <2>1 DEF Ended
  <2> QED
    BY <2>1, <2>3, <2>4 DEF PendingIn, n
<1>8. \A m \in 1..n : Ended(us, m) <=> Ended(ts, m)
  BY <1>4 DEF Ended
<1>9. WaitsSound(us)
  <2>1. ASSUME NEW m \in 1..(n + 1), NEW k \in Before(us, m, "close")
        PROVE  Ended(us, k) \/ k \in us[m].awaited
    <3>1. CASE m = n + 1
      <4>1. k \in Before(us, n + 1, "close")
        BY <2>1, <3>1
      <4>2. Ended(us, k) \/ k \in PendingIn(ts, "close")
        BY <1>7, <4>1
      <4>3. us[m].awaited = awaited
        <5>1. us[m] = t
          BY <1>4, <3>1
        <5> QED
          BY <1>12, <5>1
      <4>4. PendingIn(ts, "close") \subseteq awaited
        BY kind \in {"open", "close"}
      <4> QED
        BY <4>2, <4>3, <4>4
    <3>2. CASE m # n + 1
      <4>1. m \in 1..n
        BY <1>0, <3>2
      <4>2. k \in Before(ts, m, "close") /\ k \in 1..n
        BY <1>6, <2>1, <4>1
      <4> QED
        BY <1>4, <1>8, <4>1, <4>2 DEF WaitsSound, n
    <3> QED
      BY <3>1, <3>2
  <2>2. ASSUME NEW m \in 1..(n + 1), us[m].kind = "close", NEW k \in Before(us, m, "open")
        PROVE  Ended(us, k) \/ k \in us[m].awaited
    <3>1. CASE m = n + 1
      <4>1. k \in Before(us, n + 1, "open")
        BY <2>2, <3>1
      <4>2. Ended(us, k) \/ k \in PendingIn(ts, "open")
        BY <1>7, <4>1
      <4>3. us[m].awaited = awaited
        <5>1. us[m] = t
          BY <1>4, <3>1
        <5> QED
          BY <1>12, <5>1
      <4>5. kind = "close"
        BY <1>2, <1>4, <2>2, <3>1
      <4>4. PendingIn(ts, "open") \subseteq awaited
        BY <4>5
      <4> QED
        BY <4>2, <4>3, <4>4
    <3>2. CASE m # n + 1
      <4>1. m \in 1..n
        BY <1>0, <3>2
      <4>2. k \in Before(ts, m, "open") /\ k \in 1..n
        BY <1>6, <2>2, <4>1
      <4> QED
        BY <1>4, <1>8, <2>2, <4>1, <4>2 DEF WaitsSound, n
    <3> QED
      BY <3>1, <3>2
  <2> QED
    BY <1>4, <2>1, <2>2 DEF WaitsSound
<1>10. StartsSound(us)
  <2>1. ASSUME NEW m \in 1..(n + 1), us[m].pc # "awaits" PROVE m \in 1..n
    BY <1>0, <1>2, <1>4, <2>1
  <2>2. ASSUME NEW m \in 1..(n + 1), us[m].pc # "awaits",
               NEW k \in 1..(m - 1), us[k].kind = "close"
        PROVE  Ended(us, k)
    <3>1. m \in 1..n /\ k \in 1..n
      BY <1>0, <2>1, <2>2
    <3> QED
      BY <1>4, <1>8, <2>2, <3>1 DEF StartsSound, n
  <2>3. ASSUME NEW m \in 1..(n + 1), us[m].pc # "awaits", us[m].kind = "close",
               NEW k \in Before(us, m, "open")
        PROVE  Ended(us, k)
    <3>1. m \in 1..n
      BY <2>1, <2>3
    <3>2. k \in Before(ts, m, "open") /\ k \in 1..n
      BY <1>6, <2>3, <3>1
    <3> QED
      BY <1>4, <1>8, <2>3, <3>1, <3>2 DEF StartsSound, n
  <2> QED
    BY <1>4, <2>2, <2>3 DEF StartsSound
<1>11. us[Len(us)].kind = kind /\ us[Len(us)].pc = "awaits" /\ us[Len(us)].root = 0
  BY <1>2, <1>4
<1> QED
  BY <1>4, <1>5, <1>9, <1>10, <1>11 DEF n
-----------------------------------------------------------------------------
(* What each operation does to the store *)

AnswersHead(ts, q) == q # <<>> /\ ts[Head(q)].pc = "answered"
Received(task, n, r) ==
    IF task.kind = "open" THEN IF task.root # 0 THEN n ELSE r
    ELSE IF r = task.root THEN 0 ELSE r
\* The root that the companion holds: the one the store knows of, but for an answer that
\* it has yet to receive.
Expected(ts, q, r) == IF AnswersHead(ts, q) THEN Received(ts[Head(q)], Head(q), r) ELSE r

\* The requests that wait are those of tasks in progress; the first comes before the others.
LEMMA QueueFacts ==
  ASSUME NEW ts, NEW q, StoreSound(ts, q)
  PROVE  /\ Len(ts) \in Nat /\ Len(q) \in Nat
         /\ \A i \in 1..Len(q) : /\ q[i] \in 1..Len(ts) /\ ~Ended(ts, q[i])
                                 /\ ts[q[i]].pc \in {"queued", "answered"}
         /\ q # <<>> => /\ Head(q) = q[1] /\ 1 \in 1..Len(q) /\ Head(q) \in 1..Len(ts)
                        /\ \A i \in 2..Len(q) : q[i] > Head(q)
<1>1. Len(ts) \in Nat /\ q \in Seq(1..Len(ts))
  BY DEF StoreSound, TasksSound, QueueSound
<1>2. ASSUME NEW i \in 1..Len(q)
      PROVE  q[i] \in 1..Len(ts) /\ ~Ended(ts, q[i]) /\ ts[q[i]].pc \in {"queued", "answered"}
  <2>1. q[i] \in 1..Len(ts)
    BY <1>1
  <2>2. ts[q[i]].pc \in {"queued", "answered"}
    BY DEF StoreSound, QueueSound
  <2> QED
    BY <2>1, <2>2 DEF Ended
<1>3. ASSUME q # <<>>
      PROVE  /\ Head(q) = q[1] /\ 1 \in 1..Len(q) /\ Head(q) \in 1..Len(ts)
             /\ \A i \in 2..Len(q) : q[i] > Head(q)
  <2>1. Head(q) = q[1] /\ 1 \in 1..Len(q)
    BY <1>1, <1>3
  <2>2. ASSUME NEW i \in 2..Len(q) PROVE q[i] > q[1]
    <3>1. i \in 1..Len(q) /\ 1 < i
      BY <1>1
    <3>2. q[1] < q[i]
      BY <2>1, <3>1 DEF StoreSound, QueueSound
    <3>3. q[1] \in Nat /\ q[i] \in Nat
      BY <1>1, <1>2, <2>1, <3>1
    <3> QED
      BY <3>2, <3>3
  <2>3. q[1] \in 1..Len(ts)
    BY <1>2, <2>1
  <2> QED
    BY <2>1, <2>2, <2>3
<1>4. Len(q) \in Nat
  BY <1>1
<1> QED
  BY <1>1, <1>2, <1>3, <1>4

\* What a task added to a store leaves as it was: the requests, and the root they leave.
LEMMA AddedQueue ==
  ASSUME NEW ts, NEW q, StoreSound(ts, q), NEW us, TasksSound(us), Len(us) = Len(ts) + 1,
         \A m \in 1..Len(ts) : us[m] = ts[m]
  PROVE  QueueSound(us, q) /\ (q # <<>> => us[Head(q)] = ts[Head(q)])
<1>1. /\ Len(ts) \in Nat /\ Len(q) \in Nat
      /\ \A i \in 1..Len(q) : q[i] \in 1..Len(ts)
      /\ q # <<>> => Head(q) = q[1] /\ Head(q) \in 1..Len(ts)
  BY QueueFacts
<1>2. QueueSound(us, q)
  <2>1. q \in Seq(1..Len(ts)) /\ \A i, j \in 1..Len(q) : i < j => q[i] < q[j]
    BY DEF StoreSound, QueueSound
  <2>2. q \in Seq(1..Len(us))
    <3>1. 1..Len(ts) \subseteq 1..Len(us)
      BY <1>1
    <3> QED
      BY <2>1, <3>1
  <2>3. ASSUME NEW i \in 1..Len(q)
        PROVE  us[q[i]].pc = "queued" \/ (i = 1 /\ us[q[i]].pc = "answered")
    BY <1>1, <2>3 DEF StoreSound, QueueSound
  <2> QED
    BY <2>1, <2>2, <2>3 DEF QueueSound
<1>3. q # <<>> => us[Head(q)] = ts[Head(q)]
  BY <1>1
<1> QED
  BY <1>2, <1>3

\* An opening that is asked for: the root on show stays, whatever is in progress.
LEMMA OpeningAdded ==
  ASSUME NEW ts, NEW q, StoreSound(ts, q), NEW us,
         us = Added(ts, "open", PendingIn(ts, "close"))
  PROVE  /\ StoreSound(us, q) /\ Len(us) = Len(ts) + 1
         /\ \A m \in 1..Len(ts) : us[m] = ts[m]
         /\ us[Len(us)].root = 0 /\ us[Len(us)].pc = "awaits"
         /\ \A r : ClosureSound(us, q, r) /\ Expected(us, q, r) = Expected(ts, q, r)
         /\ \A s, r : ShownSound(ts, q, s, r) => ShownSound(us, q, s, r)
<1> DEFINE n == Len(ts)
<1>0. n \in Nat
  BY DEF StoreSound, TasksSound
<1>1. /\ TasksSound(us) /\ WaitsSound(us) /\ StartsSound(us)
      /\ Len(us) = n + 1 /\ us[n + 1].kind = "open" /\ us[n + 1].pc = "awaits"
      /\ us[n + 1].root = 0 /\ \A m \in 1..n : us[m] = ts[m]
  <2>1. PICK a : a = PendingIn(ts, "close")
    OBVIOUS
  <2>2. us = Added(ts, "open", a)
    BY <2>1
  <2> QED
    BY <2>1, <2>2, TaskAdded DEF StoreSound
<1>2. QueueSound(us, q) /\ \A r : Expected(us, q, r) = Expected(ts, q, r)
  <2>1. QueueSound(us, q) /\ (q # <<>> => us[Head(q)] = ts[Head(q)])
    BY <1>1, AddedQueue
  <2> QED
    BY <2>1 DEF Expected, AnswersHead
<1>3. \A r : ClosureSound(us, q, r)
  BY <1>1 DEF ClosureSound
<1>4. ASSUME NEW s, NEW r, ShownSound(ts, q, s, r) PROVE ShownSound(us, q, s, r)
  <2>1. s \in 1..n /\ s \in 1..Len(us)
    BY <1>0, <1>1, <1>4 DEF ShownSound
  <2>2. ts[s].kind = "open" /\ Ended(ts, s) /\ \A i \in 1..Len(q) : q[i] > s
    BY <1>4 DEF ShownSound
  <2>3. us[s].kind = "open" /\ Ended(us, s)
    BY <1>1, <2>1, <2>2 DEF Ended
  <2>4. ASSUME NEW m \in (s + 1)..Len(us) PROVE us[m].kind = "open"
    <3>1. CASE m = n + 1
      BY <1>1, <3>1
    <3>2. CASE m # n + 1
      <4>1. m \in (s + 1)..n /\ m \in 1..n
        BY <1>0, <1>1, <2>1, <3>2
      <4> QED
        BY <1>1, <1>4, <4>1 DEF ShownSound
    <3> QED
      BY <3>1, <3>2
  <2>5. ASSUME NEW m \in 1..(s - 1), us[m].kind = "close" PROVE Ended(us, m)
    <3>1. m \in 1..n
      BY <1>0, <2>1
    <3> QED
      BY <1>1, <1>4, <2>5, <3>1 DEF ShownSound, Ended
  <2>6. r = s \/ (r \in Nat /\ s < r /\ r < Len(us))
    <3>1. r = s \/ (r \in Nat /\ s < r /\ r < n)
      BY <1>4 DEF ShownSound
    <3>2. CASE r = s
      BY <3>2
    <3>3. CASE s < r /\ r < n /\ r \in Nat
      BY <1>0, <1>1, <3>3
    <3> QED
      BY <3>1, <3>2, <3>3
  <2>7. ~Ended(us, Len(us))
    BY <1>1 DEF Ended
  <2> QED
    BY <2>1, <2>2, <2>3, <2>4, <2>5, <2>6, <2>7 DEF ShownSound
<1> QED
  BY <1>1, <1>2, <1>3, <1>4 DEF StoreSound

\* A closure that is asked for.
LEMMA ClosureAdded ==
  ASSUME NEW ts, NEW q, StoreSound(ts, q), NEW us,
         us = Added(ts, "close", PendingIn(ts, "close") \cup PendingIn(ts, "open"))
  PROVE  /\ StoreSound(us, q) /\ Len(us) = Len(ts) + 1
         /\ \A m \in 1..Len(ts) : us[m] = ts[m]
         /\ us[Len(us)].kind = "close" /\ us[Len(us)].pc = "awaits"
         /\ \A r : ClosureSound(us, q, r) /\ Expected(us, q, r) = Expected(ts, q, r)
<1>1. /\ TasksSound(us) /\ WaitsSound(us) /\ StartsSound(us)
      /\ Len(us) = Len(ts) + 1 /\ \A m \in 1..Len(ts) : us[m] = ts[m]
      /\ us[Len(us)].kind = "close" /\ us[Len(us)].pc = "awaits"
  <2>1. PICK a : a = PendingIn(ts, "close") \cup PendingIn(ts, "open")
    OBVIOUS
  <2>2. us = Added(ts, "close", a)
    BY <2>1
  <2> QED
    BY <2>1, <2>2, TaskAdded DEF StoreSound
<1>2. QueueSound(us, q) /\ \A r : Expected(us, q, r) = Expected(ts, q, r)
  <2>1. TasksSound(us)
    BY <1>1
  <2>2. Len(us) = Len(ts) + 1
    BY <1>1
  <2>3. \A m \in 1..Len(ts) : us[m] = ts[m]
    BY <1>1
  <2>4. QueueSound(us, q) /\ (q # <<>> => us[Head(q)] = ts[Head(q)])
    BY <2>1, <2>2, <2>3, AddedQueue
  <2> QED
    BY <2>4 DEF Expected, AnswersHead
<1> QED
  BY <1>1, <1>2 DEF StoreSound, ClosureSound

\* A task that has no request yet, and what its change leaves as it was.
LEMMA QueueElsewhere ==
  ASSUME NEW ts, NEW q, StoreSound(ts, q), NEW n \in 1..Len(ts),
         ts[n].pc \notin {"queued", "answered"},
         NEW us, TasksSound(us), Len(us) = Len(ts), \A m \in 1..Len(ts) : m # n => us[m] = ts[m]
  PROVE  /\ QueueSound(us, q) /\ \A i \in 1..Len(q) : q[i] # n /\ us[q[i]] = ts[q[i]]
         /\ q # <<>> => us[Head(q)] = ts[Head(q)]
<1>1. /\ Len(ts) \in Nat /\ Len(q) \in Nat
      /\ \A i \in 1..Len(q) : q[i] \in 1..Len(ts) /\ ts[q[i]].pc \in {"queued", "answered"}
      /\ q # <<>> => Head(q) = q[1] /\ 1 \in 1..Len(q)
  BY QueueFacts
<1>2. ASSUME NEW i \in 1..Len(q) PROVE q[i] # n /\ us[q[i]] = ts[q[i]]
  BY <1>1
<1>3. QueueSound(us, q)
  BY <1>2 DEF StoreSound, QueueSound
<1>4. q # <<>> => us[Head(q)] = ts[Head(q)]
  BY <1>1, <1>2
<1> QED
  BY <1>2, <1>3, <1>4

\* An opening gives up before its request, or asks for a session first.
LEMMA OpeningGoesOn ==
  ASSUME NEW ts, NEW q, StoreSound(ts, q), NEW n \in 1..Len(ts), ts[n].kind = "open",
         ts[n].pc \in {"awaits", "initializes"}, \A m \in ts[n].awaited : Ended(ts, m),
         NEW t \in TaskRecords(Len(ts)), t.kind = "open", t.awaited = ts[n].awaited,
         t.root = ts[n].root, t.pc \in {"initializes", "done"}, NEW us, us = With(ts, n, t)
  PROVE  /\ StoreSound(us, q) /\ Len(us) = Len(ts)
         /\ us[n] = t /\ \A m \in 1..Len(ts) : m # n => us[m] = ts[m]
         /\ \A r : Expected(us, q, r) = Expected(ts, q, r)
         /\ \A r \in Nat : ClosureSound(ts, q, r) => ClosureSound(us, q, r)
         /\ \A s, r : ShownSound(ts, q, s, r) => ShownSound(us, q, s, r)
<1>0. Len(ts) \in Nat /\ ~Ended(ts, n) /\ TaskSound(ts[n], n)
  BY DEF StoreSound, TasksSound, Ended
<1>1. TaskSound(t, n) /\ t.root = 0
  BY <1>0 DEF TaskSound
<1>2. TasksSound(us) /\ WaitsSound(us) /\ StartsSound(us)
  BY <1>0, <1>1, TaskGoesOn DEF StoreSound
<1>3. /\ Len(us) = Len(ts) /\ us[n] = t /\ \A m \in 1..Len(ts) : m # n => us[m] = ts[m]
      /\ \A m \in 1..Len(ts) : us[m].kind = ts[m].kind
  BY TaskChanged DEF StoreSound
<1>4. /\ QueueSound(us, q) /\ \A i \in 1..Len(q) : q[i] # n /\ us[q[i]] = ts[q[i]]
      /\ \A r : Expected(us, q, r) = Expected(ts, q, r)
  <2>1. ts[n].pc \notin {"queued", "answered"}
    OBVIOUS
  <2>2. /\ QueueSound(us, q) /\ \A i \in 1..Len(q) : q[i] # n /\ us[q[i]] = ts[q[i]]
        /\ q # <<>> => us[Head(q)] = ts[Head(q)]
    BY <1>2, <1>3, <2>1, QueueElsewhere
  <2> QED
    BY <2>2 DEF Expected, AnswersHead
<1>5. \A m \in 1..Len(ts) : OvertakenIn(us, m) <=> OvertakenIn(ts, m)
  <2>1. ASSUME NEW m \in 1..Len(ts), m < Len(ts) PROVE m + 1 \in 1..Len(ts)
    BY <1>0, <2>1
  <2> QED
    BY <1>3, <2>1 DEF OvertakenIn
<1>6. ASSUME NEW r \in Nat, ClosureSound(ts, q, r) PROVE ClosureSound(us, q, r)
  <2>1. SUFFICES ASSUME us # <<>>, us[Len(us)].kind = "close", us[Len(us)].pc # "awaits"
                 PROVE  /\ \A i \in 1..Len(q) : us[q[i]].kind = "open" => OvertakenIn(us, q[i])
                        /\ \/ r = 0 \/ OvertakenIn(us, r)
                           \/ us[Len(us)].pc # "done" /\ us[Len(us)].root = r
    BY DEF ClosureSound
  <2>2. Len(ts) \in 1..Len(ts) /\ ts # <<>>
    BY <1>0
  <2>3. us[Len(us)] = ts[Len(ts)]
    BY <1>3, <2>1, <2>2
  <2>4. /\ \A i \in 1..Len(q) : ts[q[i]].kind = "open" => OvertakenIn(ts, q[i])
        /\ \/ r = 0 \/ OvertakenIn(ts, r)
           \/ us[Len(us)].pc # "done" /\ us[Len(us)].root = r
    <3>1. ts[Len(ts)].kind = "close" /\ ts[Len(ts)].pc # "awaits"
      BY <2>1, <2>3
    <3> QED
      BY <1>6, <2>2, <2>3, <3>1 DEF ClosureSound
  <2>5. \A i \in 1..Len(q) : us[q[i]].kind = "open" => OvertakenIn(us, q[i])
    <3>1. \A i \in 1..Len(q) : q[i] \in 1..Len(ts)
      BY QueueFacts
    <3> QED
      BY <1>4, <1>5, <2>4, <3>1
  <2>6. OvertakenIn(ts, r) => OvertakenIn(us, r)
    <3>1. ASSUME r < Len(ts) PROVE r + 1 \in 1..Len(ts)
      BY <1>0, <3>1
    <3> QED
      BY <1>3, <3>1 DEF OvertakenIn
  <2> QED
    BY <2>4, <2>5, <2>6
<1>7. ASSUME NEW s, NEW r, ShownSound(ts, q, s, r) PROVE ShownSound(us, q, s, r)
  <2>1. s \in 1..Len(ts) /\ s # n
    BY <1>0, <1>7 DEF ShownSound
  <2>2. us[s] = ts[s]
    BY <1>3, <2>1
  <2>3. ASSUME NEW m \in (s + 1)..Len(us) PROVE us[m].kind = "open"
    <3>1. m \in 1..Len(ts)
      BY <1>0, <1>3, <2>1
    <3> QED
      BY <1>3, <1>7, <3>1 DEF ShownSound
  <2>4. ASSUME NEW m \in 1..(s - 1), us[m].kind = "close" PROVE Ended(us, m)
    <3>1. m \in 1..Len(ts) /\ ts[m].kind = "close"
      BY <1>0, <1>3, <2>1, <2>4
    <3>2. m # n /\ Ended(ts, m)
      BY <1>7, <2>4, <3>1 DEF ShownSound
    <3> QED
      BY <1>3, <3>1, <3>2 DEF Ended
  <2>5. Ended(us, Len(us)) /\ us[Len(us)].root # 0 => s = Len(us)
    <3>1. Len(ts) \in 1..Len(ts)
      BY <1>0
    <3>2. CASE n = Len(ts)
      BY <1>1, <1>3, <3>2
    <3>3. CASE n # Len(ts)
      <4>1. us[Len(us)] = ts[Len(ts)]
        BY <1>3, <3>1, <3>3
      <4> QED
        BY <1>3, <1>7, <4>1 DEF ShownSound, Ended
    <3> QED
      BY <3>2, <3>3
  <2>6. /\ ts[s].kind = "open" /\ Ended(ts, s) /\ \A i \in 1..Len(q) : q[i] > s
        /\ r = s \/ (r \in Nat /\ s < r /\ r < Len(ts))
    BY <1>7 DEF ShownSound
  <2>7. us[s].kind = "open" /\ Ended(us, s)
    BY <2>2, <2>6 DEF Ended
  <2> QED
    BY <1>3, <2>1, <2>3, <2>4, <2>5, <2>6, <2>7 DEF ShownSound
<1> QED
  BY <1>2, <1>3, <1>4, <1>6, <1>7 DEF StoreSound

\* Tasks that go on keep their kinds, and the order in which they overtake one another.
LEMMA SameKinds ==
  ASSUME NEW ts, NEW us, Len(us) = Len(ts), Len(ts) \in Nat,
         \A m \in 1..Len(ts) : us[m].kind = ts[m].kind, NEW m \in Nat
  PROVE  OvertakenIn(us, m) <=> OvertakenIn(ts, m)
<1>1. ASSUME m < Len(ts) PROVE m + 1 \in 1..Len(ts)
  BY <1>1
<1> QED
  BY <1>1 DEF OvertakenIn

\* The root on show stays while tasks go on and no later opening succeeds.
LEMMA ShownKept ==
  ASSUME NEW ts, NEW us, Len(us) = Len(ts), Len(ts) \in Nat,
         \A m \in 1..Len(ts) : us[m].kind = ts[m].kind /\ (Ended(ts, m) => Ended(us, m)),
         NEW q, NEW s, NEW r, ShownSound(ts, q, s, r),
         NEW p, \A i \in 1..Len(p) : p[i] > s,
         NEW x, x = s \/ (x \in Nat /\ s < x /\ x < Len(ts)),
         Ended(us, Len(us)) /\ us[Len(us)].root # 0 => s = Len(us)
  PROVE  ShownSound(us, p, s, x)
<1>1. s \in 1..Len(ts) /\ us[s].kind = "open" /\ Ended(us, s)
  BY DEF ShownSound
<1>2. ASSUME NEW m \in (s + 1)..Len(us) PROVE us[m].kind = "open"
  <2>1. m \in 1..Len(ts)
    BY <1>1
  <2> QED
    BY <2>1 DEF ShownSound
<1>3. ASSUME NEW m \in 1..(s - 1), us[m].kind = "close" PROVE Ended(us, m)
  <2>1. m \in 1..Len(ts)
    BY <1>1
  <2>2. ts[m].kind = "close"
    BY <1>3, <2>1
  <2>3. Ended(ts, m)
    BY <2>2 DEF ShownSound
  <2> QED
    BY <2>1, <2>3
<1> QED
  BY <1>1, <1>2, <1>3 DEF ShownSound

Longer(q, n) == Append(q, n)

\* One request more, behind the others.
LEMMA QueueLonger ==
  ASSUME NEW ts, NEW q, QueueSound(ts, q), NEW n \in 1..Len(ts), Len(ts) \in Nat,
         \A i \in 1..Len(q) : q[i] < n, ts[n].pc = "queued", NEW p, p = Longer(q, n)
  PROVE  /\ QueueSound(ts, p) /\ Len(q) \in Nat /\ Len(p) = Len(q) + 1 /\ p[Len(p)] = n
         /\ \A i \in 1..Len(q) : p[i] = q[i]
         /\ \A r : Expected(ts, p, r) = Expected(ts, q, r)
<1>1. q \in Seq(1..Len(ts)) /\ Len(q) \in Nat
  BY DEF QueueSound
<1>2. /\ p \in Seq(1..Len(ts)) /\ Len(p) = Len(q) + 1 /\ p[Len(q) + 1] = n
      /\ \A i \in 1..Len(q) : p[i] = q[i]
  BY <1>1, AppendProperties DEF Longer
<1>3. ASSUME NEW i \in 1..Len(p), NEW j \in 1..Len(p), i < j PROVE p[i] < p[j]
  <2>1. i \in 1..Len(q)
    BY <1>1, <1>2, <1>3
  <2>2. CASE j = Len(q) + 1
    BY <1>2, <2>1, <2>2
  <2>3. CASE j # Len(q) + 1
    <3>1. j \in 1..(Len(q) + 1)
      BY <1>2
    <3>3. j \in 1..Len(q)
      BY <1>1, <2>3, <3>1
    <3> QED
      BY <1>2, <1>3, <2>1, <3>3 DEF QueueSound
  <2> QED
    BY <2>2, <2>3
<1>4. ASSUME NEW i \in 1..Len(p)
      PROVE  ts[p[i]].pc = "queued" \/ (i = 1 /\ ts[p[i]].pc = "answered")
  <2>1. CASE i = Len(q) + 1
    BY <1>2, <2>1
  <2>2. CASE i # Len(q) + 1
    <3>1. i \in 1..Len(q)
      BY SMTT(30), <1>1, <1>2, <2>2
    <3> QED
      BY <1>2, <3>1 DEF QueueSound
  <2> QED
    BY <2>1, <2>2
<1>5. QueueSound(ts, p)
  BY <1>2, <1>3, <1>4 DEF QueueSound
<1>6. \A r : Expected(ts, p, r) = Expected(ts, q, r)
  <2>0. p # <<>> /\ Head(p) = p[1]
    BY <1>1, <1>2
  <2>1. CASE q = <<>>
    <3>1. Head(p) = n
      BY <1>2, <2>0, <2>1
    <3>2. ~AnswersHead(ts, p) /\ ~AnswersHead(ts, q)
      BY <2>1, <3>1 DEF AnswersHead
    <3> QED
      BY <3>2 DEF Expected
  <2>2. CASE q # <<>>
    <3>1. Head(p) = Head(q)
      BY <1>1, <1>2, <2>0, <2>2
    <3> QED
      BY <2>0, <2>2, <3>1 DEF Expected, AnswersHead
  <2> QED
    BY <2>1, <2>2
<1> QED
  BY <1>1, <1>2, <1>5, <1>6

\* An opening that is still the last task sends its request.
LEMMA OpeningSent ==
  ASSUME NEW ts, NEW q, StoreSound(ts, q), NEW n \in 1..Len(ts), ts[n].kind = "open",
         n = Len(ts), ts[n].pc = "initializes",
         NEW t \in TaskRecords(Len(ts)), t.kind = "open", t.awaited = ts[n].awaited,
         t.root = ts[n].root, t.pc = "queued", NEW us, us = With(ts, n, t),
         NEW p, p = Longer(q, n)
  PROVE  /\ StoreSound(us, p) /\ Len(us) = Len(ts)
         /\ us[n] = t /\ \A m \in 1..Len(ts) : m # n => us[m] = ts[m]
         /\ \A r : ClosureSound(us, p, r) /\ Expected(us, p, r) = Expected(ts, q, r)
         /\ \A s, r : ShownSound(ts, q, s, r) => ShownSound(us, p, s, r)
<1>0. Len(ts) \in Nat /\ ~Ended(ts, n) /\ TaskSound(ts[n], n)
  BY DEF StoreSound, TasksSound, Ended
<1>1. TaskSound(t, n) /\ t.root = 0
  BY <1>0 DEF TaskSound
<1>2. TasksSound(us) /\ WaitsSound(us) /\ StartsSound(us)
  BY <1>0, <1>1, TaskGoesOn DEF StoreSound
<1>3. /\ Len(us) = Len(ts) /\ us[n] = t /\ \A m \in 1..Len(ts) : m # n => us[m] = ts[m]
      /\ \A m \in 1..Len(ts) : us[m].kind = ts[m].kind
  BY TaskChanged DEF StoreSound
<1>4. /\ QueueSound(us, q) /\ \A i \in 1..Len(q) : q[i] # n /\ us[q[i]] = ts[q[i]]
      /\ q # <<>> => us[Head(q)] = ts[Head(q)]
  <2>1. ts[n].pc \notin {"queued", "answered"}
    OBVIOUS
  <2> QED
    BY <1>2, <1>3, <2>1, QueueElsewhere
<1>5. \A i \in 1..Len(q) : q[i] < n
  <2>1. \A i \in 1..Len(q) : q[i] \in 1..Len(ts)
    BY QueueFacts
  <2> QED
    BY <1>0, <1>4, <2>1
<1>6. /\ QueueSound(us, p) /\ Len(q) \in Nat /\ Len(p) = Len(q) + 1 /\ p[Len(p)] = n
      /\ \A i \in 1..Len(q) : p[i] = q[i]
      /\ \A r : Expected(us, p, r) = Expected(us, q, r)
  <2>1. /\ QueueSound(us, q) /\ n \in 1..Len(us) /\ Len(us) \in Nat
        /\ \A i \in 1..Len(q) : q[i] < n
    BY <1>0, <1>3, <1>4, <1>5
  <2>2. us[n].pc = "queued"
    BY <1>3
  <2>3. QueueSound(us, p) /\ Len(q) \in Nat /\ Len(p) = Len(q) + 1 /\ p[Len(p)] = n
    BY <2>1, <2>2, QueueLonger
  <2>4. \A i \in 1..Len(q) : p[i] = q[i]
    BY <2>1, <2>2, QueueLonger
  <2>5. ASSUME NEW r PROVE Expected(us, p, r) = Expected(us, q, r)
    BY <2>1, <2>2, QueueLonger
  <2> QED
    BY <2>3, <2>4, <2>5
<1>7. \A r : Expected(us, q, r) = Expected(ts, q, r)
  BY <1>4 DEF Expected, AnswersHead
<1>8. \A r : ClosureSound(us, p, r)
  BY <1>3 DEF ClosureSound
<1>9. ASSUME NEW s, NEW r, ShownSound(ts, q, s, r) PROVE ShownSound(us, p, s, r)
  <2>1. s \in 1..Len(ts) /\ s # n /\ \A i \in 1..Len(q) : q[i] > s
    BY <1>0, <1>9 DEF ShownSound
  <2>2. ASSUME NEW i \in 1..Len(p) PROVE p[i] > s
    <3>1. CASE i = Len(p)
      BY <1>0, <1>6, <2>1, <3>1
    <3>2. CASE i # Len(p)
      <4>1. i \in 1..Len(q)
        BY <1>6, <3>2
      <4> QED
        BY <1>6, <2>1, <4>1
    <3> QED
      BY <3>1, <3>2
  <2>3. \A m \in 1..Len(ts) : us[m].kind = ts[m].kind /\ (Ended(ts, m) => Ended(us, m))
    BY <1>0, <1>3 DEF Ended
  <2>4. r = s \/ (r \in Nat /\ s < r /\ r < Len(ts))
    BY <1>9 DEF ShownSound
  <2>5. Ended(us, Len(us)) /\ us[Len(us)].root # 0 => s = Len(us)
    BY <1>1, <1>3
  <2> QED
    BY <1>0, <1>3, <1>9, <2>2, <2>3, <2>4, <2>5, ShownKept
<1> QED
  BY <1>2, <1>3, <1>6, <1>7, <1>8, <1>9 DEF StoreSound

\* A closure that has not ended: no task after it has begun, and no root is on show.
LEMMA ClosureInTheWay ==
  ASSUME NEW ts, NEW q, StoreSound(ts, q), NEW n \in 1..Len(ts), ts[n].kind = "close", ~Ended(ts, n)
  PROVE  /\ \A m \in 1..Len(ts) : m > n => ts[m].pc = "awaits"
         /\ \A s, r : ~ShownSound(ts, q, s, r)
<1>0. Len(ts) \in Nat
  BY DEF StoreSound, TasksSound
<1>1. ASSUME NEW m \in 1..Len(ts), m > n, ts[m].pc # "awaits" PROVE FALSE
  <2>1. n \in 1..(m - 1)
    BY <1>0, <1>1
  <2> QED
    BY <1>1, <2>1 DEF StoreSound, StartsSound
<1>2. ASSUME NEW s, NEW r, ShownSound(ts, q, s, r) PROVE FALSE
  <2>1. s \in 1..Len(ts) /\ s # n
    BY <1>2 DEF ShownSound
  <2>2. CASE n < s
    <3>1. n \in 1..(s - 1)
      BY <1>0, <2>1, <2>2
    <3> QED
      BY <1>2, <3>1 DEF ShownSound
  <2>3. CASE ~(n < s)
    <3>1. n \in (s + 1)..Len(ts)
      BY <1>0, <2>1, <2>3
    <3> QED
      BY <1>2, <3>1 DEF ShownSound
  <2> QED
    BY <2>2, <2>3
<1> QED
  BY <1>1, <1>2

\* An opening still in progress before a closure that begins has been overtaken by another.
LEMMA LeftBehind ==
  ASSUME NEW ts, TasksSound(ts), StartsSound(ts), NEW n \in 1..Len(ts), ts[n].kind = "close",
         ts[n].pc # "awaits", NEW m \in 1..(n - 1), ts[m].kind = "open", ~Ended(ts, m)
  PROVE  OvertakenIn(ts, m)
<1>0. Len(ts) \in Nat /\ n \in Nat /\ m \in Nat /\ \A k \in 1..Len(ts) : ts[k].kind \in {"open", "close"}
  <2>1. PICK R : R = TaskRecords(Len(ts))
    OBVIOUS
  <2>2. ts \in Seq(R)
    BY <2>1 DEF TasksSound
  <2>3. Len(ts) \in Nat /\ \A k \in 1..Len(ts) : ts[k] \in R
    BY <2>2
  <2>4. ASSUME NEW k \in 1..Len(ts) PROVE ts[k].kind \in {"open", "close"}
    <3>1. ts[k] \in TaskRecords(Len(ts))
      BY <2>1, <2>3
    <3> QED
      BY <3>1 DEF TaskRecords
  <2> QED
    BY <2>3, <2>4
<1>1. m \notin Before(ts, n, "open")
  BY DEF StartsSound
<1>2. PICK l \in (m + 1)..(n - 1) : ts[l].kind = "open"
  BY <1>1 DEF Before
<1>3. m + 1 \in 1..(n - 1) /\ m + 1 \in 1..Len(ts)
  BY <1>0, <1>2
<1>4. ASSUME ts[m + 1].kind = "close" PROVE FALSE
  <2>1. Ended(ts, m + 1)
    BY <1>3, <1>4 DEF StartsSound
  <2>2. ts[m + 1].pc # "awaits"
    BY <2>1 DEF Ended
  <2>3. m \in Before(ts, m + 1, "open")
    <3>1. m \in 1..((m + 1) - 1) /\ (m + 1)..((m + 1) - 1) = {}
      BY <1>0
    <3> QED
      BY <3>1 DEF Before
  <2> QED
    BY <1>3, <1>4, <2>2, <2>3 DEF StartsSound
<1>5. ts[m + 1].kind = "open"
  BY <1>0, <1>3, <1>4
<1> QED
  BY <1>0, <1>3, <1>5 DEF OvertakenIn

\* What a closure finds when its turn comes: it leaves a root to be closed, or nothing but
\* openings that were overtaken.
LEMMA ClosureBegins ==
  ASSUME NEW ts, NEW q, StoreSound(ts, q), NEW n \in 1..Len(ts), ts[n].kind = "close",
         ts[n].pc = "awaits", \A m \in ts[n].awaited : Ended(ts, m), NEW r \in Nat,
         NEW t \in TaskRecords(Len(ts)), t.kind = "close", t.awaited = ts[n].awaited,
         t.root = r, t.pc = (IF r = 0 THEN "done" ELSE "queued"), NEW us, us = With(ts, n, t),
         NEW p, p = IF r = 0 THEN q ELSE Longer(q, n)
  PROVE  /\ StoreSound(us, p) /\ Len(us) = Len(ts)
         /\ us[n] = t /\ \A m \in 1..Len(ts) : m # n => us[m] = ts[m]
         /\ ClosureSound(us, p, r) /\ \A x : Expected(us, p, x) = Expected(ts, q, x)
<1>0. Len(ts) \in Nat /\ ~Ended(ts, n) /\ TaskSound(ts[n], n)
  BY DEF StoreSound, TasksSound, Ended
<1>1. TaskSound(t, n)
  BY <1>0 DEF TaskSound
<1>2. TasksSound(us) /\ WaitsSound(us) /\ StartsSound(us)
  BY <1>0, <1>1, TaskGoesOn DEF StoreSound
<1>3. /\ Len(us) = Len(ts) /\ us[n] = t /\ \A m \in 1..Len(ts) : m # n => us[m] = ts[m]
      /\ \A m \in 1..Len(ts) : us[m].kind = ts[m].kind
  BY TaskChanged DEF StoreSound
<1>4. /\ QueueSound(us, q) /\ \A i \in 1..Len(q) : q[i] # n /\ us[q[i]] = ts[q[i]]
      /\ q # <<>> => us[Head(q)] = ts[Head(q)]
  <2>1. ts[n].pc \notin {"queued", "answered"}
    OBVIOUS
  <2> QED
    BY <1>2, <1>3, <2>1, QueueElsewhere
<1>5. ASSUME NEW i \in 1..Len(q)
      PROVE  q[i] < n /\ q[i] \in 1..(n - 1) /\ q[i] \in 1..Len(ts) /\ ~Ended(us, q[i])
  <2>1. q[i] \in 1..Len(ts) /\ ~Ended(ts, q[i]) /\ ts[q[i]].pc \in {"queued", "answered"}
    BY QueueFacts
  <2>2. ~(q[i] > n)
    BY <1>0, <2>1, ClosureInTheWay
  <2>3. q[i] # n /\ ~Ended(us, q[i])
    BY <1>4, <2>1 DEF Ended
  <2> QED
    BY <1>0, <2>1, <2>2, <2>3
<1>6. \A x : Expected(us, q, x) = Expected(ts, q, x)
  BY <1>4 DEF Expected, AnswersHead
<1>7. /\ QueueSound(us, p) /\ \A x : Expected(us, p, x) = Expected(us, q, x)
      /\ \A i \in 1..Len(p) : (p[i] \in 1..(n - 1) /\ ~Ended(us, p[i])) \/ p[i] = n
  <2>1. CASE r = 0
    BY <1>4, <1>5, <2>1
  <2>2. CASE r # 0
    <3>1. p = Longer(q, n)
      BY <2>2
    <3>2. QueueSound(us, q) /\ n \in 1..Len(us) /\ Len(us) \in Nat
          /\ (\A i \in 1..Len(q) : q[i] < n) /\ us[n].pc = "queued"
      BY <1>0, <1>3, <1>4, <1>5, <2>2
    <3>3. QueueSound(us, p) /\ Len(q) \in Nat /\ Len(p) = Len(q) + 1 /\ p[Len(p)] = n
      BY <3>1, <3>2, QueueLonger
    <3>4. \A i \in 1..Len(q) : p[i] = q[i]
      BY <3>1, <3>2, QueueLonger
    <3>5. ASSUME NEW x PROVE Expected(us, p, x) = Expected(us, q, x)
      BY <3>1, <3>2, QueueLonger
    <3>6. ASSUME NEW i \in 1..Len(p)
          PROVE  (p[i] \in 1..(n - 1) /\ ~Ended(us, p[i])) \/ p[i] = n
      <4>1. i \in 1..Len(q) \/ i = Len(p)
        BY <3>3
      <4> QED
        BY <1>5, <3>3, <3>4, <4>1
    <3> QED
      BY <3>3, <3>5, <3>6
  <2> QED
    BY <2>1, <2>2
<1>8. ClosureSound(us, p, r)
  <2>1. SUFFICES ASSUME us[Len(us)].kind = "close", us[Len(us)].pc # "awaits"
                 PROVE  /\ \A i \in 1..Len(p) : us[p[i]].kind = "open" => OvertakenIn(us, p[i])
                        /\ \/ r = 0 \/ OvertakenIn(us, r)
                           \/ us[Len(us)].pc # "done" /\ us[Len(us)].root = r
    BY DEF ClosureSound
  <2>2. n = Len(ts)
    <3>1. ASSUME n # Len(ts) PROVE FALSE
      <4>1. Len(ts) \in 1..Len(ts) /\ Len(ts) > n
        BY <1>0, <3>1
      <4>2. ts[Len(ts)].pc = "awaits"
        BY <1>0, <4>1, ClosureInTheWay
      <4> QED
        BY <1>3, <2>1, <3>1, <4>1, <4>2
    <3> QED
      BY <3>1
  <2>3. ASSUME NEW i \in 1..Len(p), us[p[i]].kind = "open" PROVE OvertakenIn(us, p[i])
    <3>1. p[i] \in 1..(n - 1) /\ ~Ended(us, p[i])
      BY <1>3, <1>7, <2>3
    <3>2. n \in 1..Len(us) /\ us[n].kind = "close" /\ us[n].pc # "awaits"
      BY <1>3
    <3> QED
      BY <1>2, <2>3, <3>1, <3>2, LeftBehind
  <2>4. r = 0 \/ (us[Len(us)].pc # "done" /\ us[Len(us)].root = r)
    BY <1>3, <2>2
  <2> QED
    BY <2>3, <2>4
<1> QED
  BY <1>2, <1>3, <1>6, <1>7, <1>8 DEF StoreSound

\* The companion serves the request at the head of the queue.
LEMMA RequestServed ==
  ASSUME NEW ts, NEW q, StoreSound(ts, q), q # <<>>, NEW n, n = Head(q), ts[n].pc = "queued",
         NEW t \in TaskRecords(Len(ts)), t.kind = ts[n].kind, t.awaited = ts[n].awaited,
         t.pc = "answered", t.kind = "open" => t.root \in {0, n},
         t.kind = "close" => t.root = ts[n].root, NEW us, us = With(ts, n, t)
  PROVE  /\ StoreSound(us, q) /\ Len(us) = Len(ts) /\ n \in 1..Len(ts)
         /\ us[n] = t /\ \A m \in 1..Len(ts) : m # n => us[m] = ts[m]
         /\ \A r : Expected(ts, q, r) = r /\ Expected(us, q, r) = Received(t, n, r)
         /\ \A r \in Nat : ClosureSound(ts, q, r) => ClosureSound(us, q, r)
         /\ \A s, r : ShownSound(ts, q, s, r) => ShownSound(us, q, s, r)
<1>0. /\ Len(ts) \in Nat /\ Len(q) \in Nat /\ n \in 1..Len(ts) /\ 1 \in 1..Len(q) /\ n = q[1]
      /\ ~Ended(ts, n) /\ \A i \in 1..Len(q) : q[i] \in 1..Len(ts)
      /\ \A i \in 2..Len(q) : q[i] > n
  BY QueueFacts
<1>1. TaskSound(t, n)
  <2>1. TaskSound(ts[n], n)
    BY <1>0 DEF StoreSound, TasksSound
  <2> QED
    BY <2>1 DEF TaskSound
<1>2. TasksSound(us) /\ WaitsSound(us) /\ StartsSound(us)
  BY <1>0, <1>1, TaskGoesOn DEF StoreSound
<1>3. /\ Len(us) = Len(ts) /\ us[n] = t /\ \A m \in 1..Len(ts) : m # n => us[m] = ts[m]
      /\ \A m \in 1..Len(ts) : us[m].kind = ts[m].kind
  BY SMTT(30), <1>0, TaskChanged DEF StoreSound
<1>4. QueueSound(us, q)
  <2>1. ASSUME NEW i \in 1..Len(q)
        PROVE  us[q[i]].pc = "queued" \/ (i = 1 /\ us[q[i]].pc = "answered")
    <3>1. CASE i = 1
      BY <1>0, <1>3, <3>1
    <3>2. CASE i # 1
      <4>1. i \in 2..Len(q)
        BY <1>0, <3>2
      <4>2. q[i] # n /\ us[q[i]] = ts[q[i]]
        BY <1>0, <1>3, <4>1
      <4> QED
        BY <3>2, <4>2 DEF StoreSound, QueueSound
    <3> QED
      BY <3>1, <3>2
  <2> QED
    BY <1>3, <2>1 DEF StoreSound, QueueSound
<1>5. \A r : Expected(ts, q, r) = r /\ Expected(us, q, r) = Received(t, n, r)
  <2>1. ~AnswersHead(ts, q) /\ AnswersHead(us, q)
    BY <1>3 DEF AnswersHead
  <2> QED
    BY <1>3, <2>1 DEF Expected
<1>6. ASSUME NEW r \in Nat, ClosureSound(ts, q, r) PROVE ClosureSound(us, q, r)
  <2>1. SUFFICES ASSUME us # <<>>, us[Len(us)].kind = "close", us[Len(us)].pc # "awaits"
                 PROVE  /\ \A i \in 1..Len(q) : us[q[i]].kind = "open" => OvertakenIn(us, q[i])
                        /\ \/ r = 0 \/ OvertakenIn(us, r)
                           \/ us[Len(us)].pc # "done" /\ us[Len(us)].root = r
    BY DEF ClosureSound
  <2>2. Len(ts) \in 1..Len(ts) /\ ts # <<>>
    BY <1>0
  <2>3. /\ ts[Len(ts)].kind = "close" /\ ts[Len(ts)].pc # "awaits"
        /\ us[Len(us)].root = ts[Len(ts)].root
        /\ us[Len(us)].pc = "done" => ts[Len(ts)].pc = "done"
    <3>1. CASE n = Len(ts)
      BY <1>3, <2>1, <3>1
    <3>2. CASE n # Len(ts)
      BY <1>3, <2>1, <2>2, <3>2
    <3> QED
      BY <3>1, <3>2
  <2>4. \A i \in 1..Len(q) : ts[q[i]].kind = "open" => OvertakenIn(ts, q[i])
    BY <1>6, <2>2, <2>3 DEF ClosureSound
  <2>5. r = 0 \/ OvertakenIn(ts, r) \/ (ts[Len(ts)].pc # "done" /\ ts[Len(ts)].root = r)
    BY <1>6, <2>2, <2>3 DEF ClosureSound
  <2>6. \A m \in Nat : OvertakenIn(us, m) <=> OvertakenIn(ts, m)
    BY <1>0, <1>3, SameKinds
  <2>7. \A i \in 1..Len(q) : us[q[i]].kind = "open" => OvertakenIn(us, q[i])
    BY <1>0, <1>3, <2>4, <2>6
  <2>8. r = 0 \/ OvertakenIn(us, r) \/ (us[Len(us)].pc # "done" /\ us[Len(us)].root = r)
    BY <2>3, <2>5, <2>6
  <2> QED
    BY <2>7, <2>8
<1>7. ASSUME NEW s, NEW r, ShownSound(ts, q, s, r) PROVE ShownSound(us, q, s, r)
  <2>1. \A i \in 1..Len(q) : q[i] > s
    BY <1>7 DEF ShownSound
  <2>2. \A m \in 1..Len(ts) : us[m].kind = ts[m].kind /\ (Ended(ts, m) => Ended(us, m))
    BY <1>0, <1>3 DEF Ended
  <2>3. r = s \/ (r \in Nat /\ s < r /\ r < Len(ts))
    BY <1>7 DEF ShownSound
  <2>4. Ended(us, Len(us)) /\ us[Len(us)].root # 0 => s = Len(us)
    <3>1. CASE n = Len(ts)
      BY <1>3, <3>1 DEF Ended
    <3>2. CASE n # Len(ts)
      <4>1. us[Len(us)] = ts[Len(ts)]
        BY <1>0, <1>3, <3>2
      <4> QED
        BY <1>3, <1>7, <4>1 DEF ShownSound, Ended
    <3> QED
      BY <3>1, <3>2
  <2> QED
    BY <1>0, <1>3, <1>7, <2>1, <2>2, <2>3, <2>4, ShownKept
<1> QED
  BY <1>0, <1>2, <1>3, <1>4, <1>5, <1>6, <1>7 DEF StoreSound

Shorter(q) == Tail(q)

\* The store receives the answer at the head of the queue: the root on show is the one of
\* the last opening that succeeded and was not superseded.
LEMMA AnswerReceived ==
  ASSUME NEW ts, NEW q, StoreSound(ts, q), q # <<>>, NEW n, n = Head(q), ts[n].pc = "answered",
         NEW t \in TaskRecords(Len(ts)), t.kind = ts[n].kind, t.awaited = ts[n].awaited,
         t.pc = "done", t.root = ts[n].root, NEW us, us = With(ts, n, t), NEW p, p = Shorter(q)
  PROVE  /\ StoreSound(us, p) /\ Len(us) = Len(ts) /\ n \in 1..Len(ts)
         /\ us[n] = t /\ \A m \in 1..Len(ts) : m # n => us[m] = ts[m]
         /\ ~AnswersHead(us, p)
         /\ \A r \in Nat : /\ Expected(ts, q, r) = Received(t, n, r)
                           /\ ClosureSound(ts, q, r) => ClosureSound(us, p, Received(t, n, r))
         /\ t.kind = "open" /\ t.root # 0 /\ n = Len(ts) =>
               \A r : ShownSound(us, p, n, Received(t, n, r))
         /\ ~(t.kind = "open" /\ t.root # 0 /\ n = Len(ts)) =>
               \A s, r : ShownSound(ts, q, s, r) => ShownSound(us, p, s, Received(t, n, r))
<1>0. /\ Len(ts) \in Nat /\ Len(q) \in Nat /\ n \in 1..Len(ts) /\ 1 \in 1..Len(q) /\ n = q[1]
      /\ ~Ended(ts, n) /\ \A i \in 1..Len(q) : q[i] \in 1..Len(ts)
      /\ \A i \in 2..Len(q) : q[i] > n
  BY QueueFacts
<1>1. TaskSound(t, n) /\ (t.kind = "open" => t.root \in {0, n})
  <2>1. TaskSound(ts[n], n)
    BY <1>0 DEF StoreSound, TasksSound
  <2> QED
    BY <2>1 DEF TaskSound
<1>2. TasksSound(us) /\ WaitsSound(us) /\ StartsSound(us)
  BY <1>0, <1>1, TaskGoesOn DEF StoreSound
<1>3. /\ Len(us) = Len(ts) /\ us[n] = t /\ \A m \in 1..Len(ts) : m # n => us[m] = ts[m]
      /\ \A m \in 1..Len(ts) : us[m].kind = ts[m].kind
  BY <1>0, TaskChanged DEF StoreSound
<1>4. /\ p \in Seq(1..Len(ts)) /\ Len(p) \in Nat
      /\ \A i \in 1..Len(p) : i + 1 \in 2..Len(q) /\ p[i] = q[i + 1]
  <2>1. q \in Seq(1..Len(ts))
    BY DEF StoreSound, QueueSound
  <2>2. p \in Seq(1..Len(ts)) /\ Len(p) = Len(q) - 1
    BY <2>1, HeadTailProperties DEF Shorter
  <2>3. \A i \in 1..Len(p) : p[i] = q[i + 1]
    BY <2>1, HeadTailProperties DEF Shorter
  <2> QED
    BY <1>0, <2>2, <2>3
<1>5. ASSUME NEW i \in 1..Len(p)
      PROVE  p[i] \in 1..Len(ts) /\ p[i] > n /\ us[p[i]] = ts[p[i]] /\ us[p[i]].pc = "queued"
  <2>1. i + 1 \in 2..Len(q) /\ i + 1 \in 1..Len(q) /\ p[i] = q[i + 1] /\ i + 1 # 1
    BY <1>0, <1>4
  <2>2. p[i] \in 1..Len(ts) /\ p[i] > n /\ us[p[i]] = ts[p[i]]
    BY SMTT(30), <1>0, <1>3, <2>1
  <2> QED
    BY <2>1, <2>2 DEF StoreSound, QueueSound
<1>6. QueueSound(us, p)
  <2>1. ASSUME NEW i \in 1..Len(p), NEW j \in 1..Len(p), i < j PROVE p[i] < p[j]
    <3>1. i \in Nat /\ j \in Nat /\ i + 1 < j + 1
      BY <1>4, <2>1
    <3>2. i + 1 \in 1..Len(q) /\ p[i] = q[i + 1]
      BY <1>0, <1>4, <3>1
    <3>3. j + 1 \in 1..Len(q) /\ p[j] = q[j + 1]
      BY <1>0, <1>4, <3>1
    <3> QED
      BY <3>1, <3>2, <3>3 DEF StoreSound, QueueSound
  <2> QED
    BY <1>3, <1>4, <1>5, <2>1 DEF QueueSound
<1>7. ~AnswersHead(us, p)
  <2>1. CASE p # <<>>
    <3>1. Head(p) = p[1] /\ 1 \in 1..Len(p)
      BY <1>4, <2>1
    <3> QED
      BY <1>5, <3>1 DEF AnswersHead
  <2> QED
    BY <2>1 DEF AnswersHead
<1>8. \A r : Expected(ts, q, r) = Received(t, n, r)
  BY DEF Expected, AnswersHead, Received
<1>9. \A m \in Nat : OvertakenIn(us, m) <=> OvertakenIn(ts, m)
  BY <1>0, <1>3, SameKinds
<1>10. ASSUME NEW r \in Nat, ClosureSound(ts, q, r), NEW x, x = Received(t, n, r)
       PROVE  ClosureSound(us, p, x)
  <2>1. SUFFICES ASSUME us # <<>>, us[Len(us)].kind = "close", us[Len(us)].pc # "awaits"
                 PROVE  /\ \A i \in 1..Len(p) : us[p[i]].kind = "open" => OvertakenIn(us, p[i])
                        /\ \/ x = 0 \/ OvertakenIn(us, x)
                           \/ us[Len(us)].pc # "done" /\ us[Len(us)].root = x
    BY DEF ClosureSound
  <2>2. Len(ts) \in 1..Len(ts) /\ ts # <<>>
    BY <1>0
  <2>3. ts[Len(ts)].kind = "close" /\ ts[Len(ts)].pc # "awaits"
    <3>1. CASE n = Len(ts)
      BY <1>3, <2>1, <3>1
    <3>2. CASE n # Len(ts)
      BY <1>3, <2>1, <2>2, <3>2
    <3> QED
      BY <3>1, <3>2
  <2>4. \A i \in 1..Len(q) : ts[q[i]].kind = "open" => OvertakenIn(ts, q[i])
    BY <1>10, <2>2, <2>3 DEF ClosureSound
  <2>5. r = 0 \/ OvertakenIn(ts, r) \/ (ts[Len(ts)].pc # "done" /\ ts[Len(ts)].root = r)
    BY <1>10, <2>2, <2>3 DEF ClosureSound
  <2>6. ASSUME NEW i \in 1..Len(p), us[p[i]].kind = "open" PROVE OvertakenIn(us, p[i])
    <3>1. i + 1 \in 1..Len(q) /\ p[i] = q[i + 1] /\ ts[p[i]].kind = "open" /\ p[i] \in Nat
      BY <1>0, <1>4, <1>5, <2>6
    <3> QED
      BY <1>9, <2>4, <3>1
  <2>7. x = 0 \/ OvertakenIn(us, x) \/ (us[Len(us)].pc # "done" /\ us[Len(us)].root = x)
    <3>1. CASE t.kind = "open" /\ t.root # 0
      <4>1. x = n /\ ts[q[1]].kind = "open"
        BY <1>0, <1>10, <3>1 DEF Received
      <4> QED
        BY <1>0, <1>9, <2>4, <4>1
    <3>2. CASE t.kind = "open" /\ t.root = 0
      <4>1. x = r /\ n # Len(ts)
        BY <1>10, <2>3, <3>2 DEF Received
      <4>2. us[Len(us)] = ts[Len(ts)]
        BY <1>3, <2>2, <4>1
      <4> QED
        BY <1>9, <2>5, <4>1, <4>2
    <3>3. CASE t.kind # "open" /\ r = t.root
      BY <1>10, <3>3 DEF Received
    <3>4. CASE t.kind # "open" /\ r # t.root
      <4>1. x = r
        BY <1>10, <3>4 DEF Received
      <4>2. CASE n = Len(ts)
        BY <1>9, <2>5, <3>4, <4>1, <4>2
      <4>3. CASE n # Len(ts)
        <5>1. us[Len(us)] = ts[Len(ts)]
          BY <1>3, <2>2, <4>3
        <5> QED
          BY <1>9, <2>5, <4>1, <5>1
      <4> QED
        BY <4>2, <4>3
    <3> QED
      BY <3>1, <3>2, <3>3, <3>4
  <2> QED
    BY <2>6, <2>7
<1>11. ASSUME t.kind = "open", t.root # 0, n = Len(ts), NEW r
       PROVE  ShownSound(us, p, n, Received(t, n, r))
  <2>1. Received(t, n, r) = n
    BY <1>11 DEF Received
  <2>2. us[n].kind = "open" /\ us[n].pc # "awaits" /\ Ended(us, n) /\ n \in 1..Len(us)
    BY <1>0, <1>3, <1>11 DEF Ended
  <2>3. \A m \in 1..(n - 1) : us[m].kind = "close" => Ended(us, m)
    BY <1>2, <2>2 DEF StartsSound
  <2>4. (n + 1)..Len(us) = {}
    BY <1>0, <1>3, <1>11
  <2> QED
    BY <1>3, <1>5, <1>11, <2>1, <2>2, <2>3, <2>4 DEF ShownSound
<1>12. ASSUME ~(t.kind = "open" /\ t.root # 0 /\ n = Len(ts)), NEW s, NEW r, ShownSound(ts, q, s, r),
              NEW x, x = Received(t, n, r)
       PROVE  ShownSound(us, p, s, x)
  <2>1. s \in 1..Len(ts) /\ (\A i \in 1..Len(q) : q[i] > s)
        /\ \A m \in (s + 1)..Len(ts) : ts[m].kind = "open"
    BY <1>12 DEF ShownSound
  <2>2. n > s /\ n \in (s + 1)..Len(ts) /\ t.kind = "open"
    <3>1. n > s
      BY <1>0, <2>1
    <3>2. n \in (s + 1)..Len(ts)
      BY <1>0, <2>1, <3>1
    <3> QED
      BY <2>1, <3>1, <3>2
  <2>3. \A i \in 1..Len(p) : p[i] > s
    BY <1>0, <1>5, <2>1, <2>2
  <2>4. \A m \in 1..Len(ts) : us[m].kind = ts[m].kind /\ (Ended(ts, m) => Ended(us, m))
    BY <1>0, <1>3 DEF Ended
  <2>5. x = s \/ (x \in Nat /\ s < x /\ x < Len(ts))
    <3>1. CASE t.root # 0
      <4>1. x = n /\ n # Len(ts)
        BY <1>12, <2>2, <3>1 DEF Received
      <4> QED
        BY <1>0, <2>1, <2>2, <4>1
    <3>2. CASE t.root = 0
      <4>1. x = r
        BY <1>12, <2>2, <3>2 DEF Received
      <4> QED
        BY <1>12, <4>1 DEF ShownSound
    <3> QED
      BY <3>1, <3>2
  <2>6. Ended(us, Len(us)) /\ us[Len(us)].root # 0 => s = Len(us)
    <3>1. CASE n = Len(ts)
      BY <1>3, <1>12, <2>2, <3>1
    <3>2. CASE n # Len(ts)
      <4>1. us[Len(us)] = ts[Len(ts)]
        BY <1>0, <1>3, <3>2
      <4> QED
        BY <1>3, <1>12, <4>1 DEF ShownSound, Ended
    <3> QED
      BY <3>1, <3>2
  <2> QED
    BY <1>0, <1>3, <1>12, <2>3, <2>4, <2>5, <2>6, ShownKept
<1> QED
  BY <1>0, <1>2, <1>3, <1>6, <1>7, <1>8, <1>10, <1>11, <1>12 DEF StoreSound
-----------------------------------------------------------------------------
(* The inductive invariant *)

ServerTyped ==
    /\ sessions \subseteq 1..granted /\ granted \in 0..MaxSessions
    /\ Cardinality(sessions) <= Limit
    /\ serverRoot \in [Tokens -> Nat]
LinkTyped ==
    /\ losses \in 0..MaxLosses
    /\ phase \in [Viewers -> {"fresh", "posting", "granted", "connecting", "live", "timer",
                              "reposting", "regranted", "gone"}]
    /\ token \in [Viewers -> 0..granted] /\ newToken \in [Viewers -> 0..granted]
    /\ stopped \in [Viewers -> BOOLEAN]
RootsTyped ==
    /\ tasks = [v \in Viewers |-> tasks[v]] /\ queue = [v \in Viewers |-> queue[v]]
    /\ shown \in [Viewers -> Nat] /\ serverRootId \in [Viewers -> Nat]
    /\ previous \in [Viewers -> Nat] /\ refused \in [Viewers -> SUBSET Nat]
    /\ \A v \in Viewers : /\ shown[v] \in 0..Len(tasks[v]) /\ serverRootId[v] \in 0..Len(tasks[v])
                          /\ previous[v] \in 0..Len(tasks[v])

\* A session is of one store; it holds no root before the store has its token.
TokensSound ==
    /\ \A u, v \in Viewers : token[u] = token[v] /\ token[u] # 0 => u = v
    /\ \A u, v \in Viewers : newToken[u] = newToken[v] /\ newToken[u] # 0 => u = v
    /\ \A u, v \in Viewers : token[u] = newToken[v] => token[u] = 0
    /\ \A t \in Tokens : t > granted \/ (\E v \in Viewers : newToken[v] = t) => serverRoot[t] = 0

NoOpening(ts) == \A n \in 1..Len(ts) : ts[n].kind = "open" => ts[n].root = 0
\* A session holds the root that its store knows of, or one whose closure was refused when
\* the store knows of none.
Holds(root, known, left) == root = known \/ (known = 0 /\ root \in left)
\* No root before the first session; none from the session that has been lost; and the
\* root that the companion holds, with an answer in flight or not.
SessionSound(v) ==
    /\ phase[v] \in {"fresh", "posting", "granted"} =>
          token[v] = 0 /\ serverRootId[v] = 0 /\ NoOpening(tasks[v])
    /\ phase[v] \in {"reposting", "regranted"} =>
          token[v] \notin sessions /\ Expected(tasks[v], queue[v], 0) = 0
    /\ token[v] \in sessions =>
          Holds(serverRoot[token[v]], Expected(tasks[v], queue[v], serverRootId[v]), refused[v])
RootSound(v) ==
    /\ StoreSound(tasks[v], queue[v])
    /\ ~stopped[v] /\ shown[v] # 0 =>
          ShownSound(tasks[v], queue[v], shown[v], serverRootId[v])
    /\ ClosureSound(tasks[v], queue[v], serverRootId[v])
IInv ==
    /\ ServerTyped /\ LinkTyped /\ RootsTyped /\ TokensSound
    /\ \A v \in Viewers : SessionSound(v) /\ RootSound(v)

\* The invariant at the start.
LEMMA InitIInv == Init => IInv
<1> SUFFICES ASSUME Init PROVE IInv
  OBVIOUS
<1>1. ServerTyped
  BY FS_EmptySet, BoundsAssumption DEF Init, ServerTyped, Tokens
<1>2. LinkTyped
  BY BoundsAssumption DEF Init, LinkTyped
<1>3. RootsTyped
  BY DEF Init, RootsTyped
<1>4. TokensSound
  BY DEF Init, TokensSound
<1>5. ASSUME NEW v \in Viewers PROVE SessionSound(v) /\ RootSound(v)
  <2>1. tasks[v] = <<>> /\ queue[v] = <<>> /\ phase[v] = "fresh" /\ sessions = {}
        /\ token[v] = 0 /\ shown[v] = 0 /\ serverRootId[v] = 0
    BY DEF Init
  <2>2. SessionSound(v)
    BY <2>1 DEF SessionSound, NoOpening
  <2>3. TasksSound(<<>>) /\ WaitsSound(<<>>) /\ StartsSound(<<>>)
    BY DEF TasksSound, WaitsSound, StartsSound
  <2>4. QueueSound(<<>>, <<>>) /\ ClosureSound(<<>>, <<>>, 0)
    BY DEF QueueSound, ClosureSound
  <2>5. RootSound(v)
    BY <2>1, <2>3, <2>4 DEF RootSound, StoreSound
  <2> QED
    BY <2>2, <2>5
<1> QED
  BY <1>1, <1>2, <1>3, <1>4, <1>5 DEF IInv

\* What forgetting sessions does to the companion.
LEMMA ForgetKeeps ==
  ASSUME ServerTyped, NEW gone, Forget(gone)
  PROVE  /\ ServerTyped' /\ granted' = granted /\ sessions' = sessions \ gone
         /\ \A t \in Tokens : serverRoot'[t] \in {0, serverRoot[t]}
         /\ \A t \in sessions' : t \in sessions /\ t \in Tokens /\ serverRoot'[t] = serverRoot[t]
<1>1. /\ sessions' = sessions \ gone /\ granted' = granted
      /\ serverRoot' = [t \in Tokens |-> IF t \in gone THEN 0 ELSE serverRoot[t]]
  BY DEF Forget
<1>2. serverRoot' \in [Tokens -> Nat]
  BY <1>1 DEF ServerTyped
<1>3. IsFiniteSet(sessions) /\ IsFiniteSet(sessions') /\ Cardinality(sessions') <= Cardinality(sessions)
  <2>1. granted \in Int /\ sessions \subseteq 1..granted
    BY BoundsAssumption DEF ServerTyped
  <2>2. IsFiniteSet(1..granted)
    BY <2>1, FS_Interval
  <2>3. IsFiniteSet(sessions)
    BY <2>1, <2>2, FS_Subset
  <2> QED
    BY <1>1, <2>3, FS_Subset
<1>4. Cardinality(sessions') <= Limit
  <2>1. Cardinality(sessions) \in Nat /\ Cardinality(sessions') \in Nat /\ Limit \in Nat
    BY <1>3, FS_CardinalityType, BoundsAssumption
  <2> QED
    BY <1>3, <2>1 DEF ServerTyped
<1>5. \A t \in Tokens : serverRoot'[t] \in {0, serverRoot[t]}
  BY <1>1
<1>6. \A t \in sessions' : t \in sessions /\ t \in Tokens /\ serverRoot'[t] = serverRoot[t]
  BY <1>1, BoundsAssumption DEF ServerTyped, Tokens
<1> QED
  BY <1>1, <1>2, <1>4, <1>5, <1>6 DEF ServerTyped

\* A goodbye is received, or it is lost.
LEMMA GoodbyeKeeps ==
  ASSUME ServerTyped, NEW v, NEW t, Goodbye(v, t)
  PROVE  /\ ServerTyped' /\ granted' = granted
         /\ \A x \in Tokens : serverRoot'[x] \in {0, serverRoot[x]}
         /\ \A x \in sessions' : x \in sessions /\ x \in Tokens /\ serverRoot'[x] = serverRoot[x]
<1>1. CASE Forget({t} \cap sessions)
  BY <1>1, ForgetKeeps
<1>2. CASE UNCHANGED serverVars
  BY <1>2, BoundsAssumption DEF serverVars, ServerTyped, Tokens
<1> QED
  BY <1>1, <1>2 DEF Goodbye

\* No step but those of the tasks touches what a store knows of its roots.
LEMMA RootsUntouched ==
  ASSUME IInv, UNCHANGED <<tasks, queue, shown, serverRootId>>,
         \A v \in Viewers : stopped[v] => stopped'[v]
  PROVE  \A v \in Viewers : RootSound(v)'
<1> SUFFICES ASSUME NEW v \in Viewers PROVE RootSound(v)'
  OBVIOUS
<1>1. RootSound(v)
  BY DEF IInv
<1> QED
  BY <1>1 DEF RootSound

\* Nor what it knows of its session, while its token stays and no session comes back.
LEMMA SessionsUntouched ==
  ASSUME IInv, NEW v \in Viewers,
         tasks'[v] = tasks[v], queue'[v] = queue[v], serverRootId'[v] = serverRootId[v],
         token'[v] = token[v], refused'[v] = refused[v],
         token[v] \in sessions' => token[v] \in sessions /\ serverRoot'[token[v]] = serverRoot[token[v]],
         phase'[v] \in {"fresh", "posting", "granted"} => phase[v] \in {"fresh", "posting", "granted"},
         phase'[v] \in {"reposting", "regranted"} => phase[v] \in {"reposting", "regranted"}
  PROVE  SessionSound(v)'
<1>1. SessionSound(v)
  BY DEF IInv
<1> QED
  BY <1>1 DEF SessionSound

\* The tokens stay sound while no one is given another, and roots go.
LEMMA TokensUntouched ==
  ASSUME TokensSound, UNCHANGED <<token, newToken, granted>>,
         \A t \in Tokens : serverRoot'[t] \in {0, serverRoot[t]}
  PROVE  TokensSound'
BY DEF TokensSound, Tokens
-----------------------------------------------------------------------------
(* The steps of the sessions *)

\* A session is granted, or refused.
LEMMA GrantStep ==
  ASSUME IInv, NEW v \in Viewers, Grant(v)
  PROVE  IInv'
<1>0. /\ ServerTyped /\ LinkTyped /\ RootsTyped /\ TokensSound /\ granted \in Nat
      /\ UNCHANGED <<losses, token, previous, stopped, tasks, queue, shown, serverRootId, refused, serverRoot>>
  BY BoundsAssumption DEF IInv, Grant, rootVars, serverVars, ServerTyped
<1>1. \A u \in Viewers : RootSound(u)'
  BY <1>0, RootsUntouched
<1>2. RootsTyped'
  BY <1>0 DEF RootsTyped
<1>3. CASE Full
  <2>1. /\ phase' = [phase EXCEPT ![v] = Refused(v)]
        /\ UNCHANGED <<sessions, granted, serverRoot, newToken>>
    BY <1>3 DEF Grant, Update, serverVars
  <2>2. ServerTyped'
    BY <1>0, <2>1 DEF ServerTyped
  <2>3. LinkTyped'
    BY <1>0, <2>1 DEF LinkTyped, Refused
  <2>4. TokensSound'
    BY <1>0, <2>1 DEF TokensSound
  <2>5. ASSUME NEW u \in Viewers PROVE SessionSound(u)'
    <3>1. phase'[u] = phase[u] \/ (u = v /\ phase'[u] = "fresh" /\ phase[u] = "posting")
          \/ (u = v /\ phase'[u] = "timer")
      BY <1>0, <2>1 DEF LinkTyped, Refused
    <3> QED
      BY <1>0, <2>1, <3>1, SessionsUntouched
  <2> QED
    BY <1>1, <1>2, <2>2, <2>3, <2>4, <2>5 DEF IInv
<1>4. CASE ~Full
  <2>1. /\ granted < MaxSessions /\ granted' = granted + 1
        /\ sessions' = sessions \cup {granted + 1}
        /\ newToken' = [newToken EXCEPT ![v] = granted + 1]
        /\ phase' = [phase EXCEPT ![v] = IF phase[v] = "posting" THEN "granted" ELSE "regranted"]
        /\ phase[v] \in {"posting", "reposting"}
    BY <1>4 DEF Grant, Update
  <2>2. ServerTyped'
    <3>1. granted \in Int /\ sessions \subseteq 1..granted /\ MaxSessions \in Nat
      BY <1>0, BoundsAssumption DEF ServerTyped
    <3>2. IsFiniteSet(sessions)
      <4>1. IsFiniteSet(1..granted)
        BY <3>1, FS_Interval
      <4> QED
        BY <3>1, <4>1, FS_Subset
    <3>3. Cardinality(sessions) \in Nat /\ Limit \in Nat
      BY <3>2, FS_CardinalityType, BoundsAssumption
    <3>4. granted + 1 \notin sessions
      BY <3>1
    <3>5. Cardinality(sessions') = Cardinality(sessions) + 1
      BY <2>1, <3>2, <3>4, FS_AddElement
    <3>6. Cardinality(sessions') <= Limit
      BY <1>4, <3>3, <3>5 DEF Full
    <3>7. sessions' \subseteq 1..granted' /\ granted' \in 0..MaxSessions
      BY <1>0, <2>1, <3>1
    <3> QED
      BY <1>0, <3>6, <3>7 DEF ServerTyped
  <2>3. LinkTyped'
    <3>1. 0..granted \subseteq 0..granted' /\ granted + 1 \in 0..granted'
      BY <1>0, <2>1
    <3>2. token' \in [Viewers -> 0..granted']
      BY <1>0, <3>1 DEF LinkTyped
    <3>3. newToken' \in [Viewers -> 0..granted']
      BY <1>0, <2>1, <3>1 DEF LinkTyped
    <3> QED
      BY <1>0, <2>1, <3>2, <3>3 DEF LinkTyped
  <2>4. TokensSound'
    <3>1. /\ newToken'[v] = granted + 1 /\ \A u \in Viewers : u # v => newToken'[u] = newToken[u]
          /\ \A u \in Viewers : newToken[u] \in 0..granted /\ token[u] \in 0..granted
      BY <1>0, <2>1 DEF LinkTyped
    <3>2. \A u, w \in Viewers : token'[u] = token'[w] /\ token'[u] # 0 => u = w
      BY <1>0 DEF TokensSound
    <3>3. \A u, w \in Viewers : newToken'[u] = newToken'[w] /\ newToken'[u] # 0 => u = w
      <4>1. SUFFICES ASSUME NEW u \in Viewers, NEW w \in Viewers,
                            newToken'[u] = newToken'[w], newToken'[u] # 0, u # w
                     PROVE  FALSE
        OBVIOUS
      <4>2. CASE u = v
        BY <1>0, <3>1, <4>1, <4>2
      <4>3. CASE w = v
        BY <1>0, <3>1, <4>1, <4>3
      <4>4. CASE u # v /\ w # v
        BY <1>0, <3>1, <4>1, <4>4 DEF TokensSound
      <4> QED
        BY <4>2, <4>3, <4>4
    <3>4. ASSUME NEW u \in Viewers, NEW w \in Viewers, token'[u] = newToken'[w]
          PROVE  token'[u] = 0
      <4>1. CASE w = v
        BY <1>0, <3>1, <3>4, <4>1
      <4>2. CASE w # v
        BY <1>0, <3>1, <3>4, <4>2 DEF TokensSound
      <4> QED
        BY <4>1, <4>2
    <3>5. ASSUME NEW t \in Tokens, t > granted' \/ (\E w \in Viewers : newToken'[w] = t)
          PROVE  serverRoot'[t] = 0
      <4>1. t \in Nat
        BY BoundsAssumption DEF Tokens
      <4>2. CASE t > granted
        BY <1>0, <4>2 DEF TokensSound
      <4>3. CASE ~(t > granted)
        <5>1. PICK w \in Viewers : newToken'[w] = t
          BY <1>0, <2>1, <3>5, <4>1, <4>3
        <5>2. w # v
          BY <1>0, <3>1, <4>1, <4>3, <5>1
        <5>3. newToken[w] = t
          BY <3>1, <5>1, <5>2
        <5> QED
          BY <1>0, <5>3 DEF TokensSound
      <4> QED
        BY <4>2, <4>3
    <3> QED
      BY <3>2, <3>3, <3>4, <3>5 DEF TokensSound
  <2>5. ASSUME NEW u \in Viewers PROVE SessionSound(u)'
    <3>1. /\ phase'[u] \in {"fresh", "posting", "granted"} => phase[u] \in {"fresh", "posting", "granted"}
          /\ phase'[u] \in {"reposting", "regranted"} => phase[u] \in {"reposting", "regranted"}
      BY <1>0, <2>1 DEF LinkTyped
    <3>2. token[u] \in 0..granted
      BY <1>0 DEF LinkTyped
    <3>3. token[u] \in sessions' => token[u] \in sessions /\ serverRoot'[token[u]] = serverRoot[token[u]]
      BY <1>0, <2>1, <3>2
    <3> QED
      BY <1>0, <3>1, <3>3, SessionsUntouched
  <2> QED
    BY <1>1, <1>2, <2>2, <2>3, <2>4, <2>5 DEF IInv
<1> QED
  BY <1>3, <1>4

\* A session expires.
LEMMA ExpireStep ==
  ASSUME IInv, NEW t \in Tokens, Expire(t)
  PROVE  IInv'
<1>0. /\ ServerTyped /\ LinkTyped /\ RootsTyped /\ TokensSound /\ Forget({t})
      /\ UNCHANGED <<phase, token, newToken, previous, stopped, tasks, queue, shown, serverRootId, refused>>
      /\ losses' \in 0..MaxLosses
  BY BoundsAssumption DEF IInv, Expire, rootVars, linkVars, LinkTyped
<1>1. /\ ServerTyped' /\ granted' = granted
      /\ \A x \in Tokens : serverRoot'[x] \in {0, serverRoot[x]}
      /\ \A x \in sessions' : x \in sessions /\ serverRoot'[x] = serverRoot[x]
  BY <1>0, ForgetKeeps
<1>2. \A u \in Viewers : RootSound(u)'
  BY <1>0, RootsUntouched
<1>3. RootsTyped' /\ LinkTyped'
  BY <1>0, <1>1 DEF RootsTyped, LinkTyped
<1>4. TokensSound'
  BY <1>0, <1>1, TokensUntouched
<1>5. ASSUME NEW u \in Viewers PROVE SessionSound(u)'
  BY <1>0, <1>1, SessionsUntouched
<1> QED
  BY <1>1, <1>2, <1>3, <1>4, <1>5 DEF IInv

\* Sockets that are cut leave their stores to the timer.
LEMMA CutKeeps ==
  ASSUME LinkTyped, NEW vs, phase' = CutSockets(vs)
  PROVE  /\ phase' \in [Viewers -> {"fresh", "posting", "granted", "connecting", "live", "timer",
                                    "reposting", "regranted", "gone"}]
         /\ \A u \in Viewers : phase'[u] \in {phase[u], "timer"}
BY DEF LinkTyped, CutSockets

\* The companion restarts: every session and every socket is lost.
LEMMA RestartStep ==
  ASSUME IInv, Restart
  PROVE  IInv'
<1>0. /\ ServerTyped /\ LinkTyped /\ RootsTyped /\ TokensSound /\ Forget(sessions)
      /\ UNCHANGED <<token, newToken, previous, stopped, tasks, queue, shown, serverRootId, refused>>
      /\ losses' \in 0..MaxLosses /\ phase' = CutSockets(Viewers)
  BY BoundsAssumption DEF IInv, Restart, rootVars, LinkTyped
<1>1. /\ ServerTyped' /\ granted' = granted
      /\ \A x \in Tokens : serverRoot'[x] \in {0, serverRoot[x]}
      /\ \A x \in sessions' : x \in sessions /\ serverRoot'[x] = serverRoot[x]
  BY <1>0, ForgetKeeps
<1>2. /\ phase' \in [Viewers -> {"fresh", "posting", "granted", "connecting", "live", "timer",
                                 "reposting", "regranted", "gone"}]
      /\ \A u \in Viewers : phase'[u] \in {phase[u], "timer"}
  BY <1>0, CutKeeps
<1>3. \A u \in Viewers : RootSound(u)'
  BY <1>0, RootsUntouched
<1>4. RootsTyped' /\ LinkTyped'
  BY <1>0, <1>1, <1>2 DEF RootsTyped, LinkTyped
<1>5. TokensSound'
  BY <1>0, <1>1, TokensUntouched
<1>6. ASSUME NEW u \in Viewers PROVE SessionSound(u)'
  <2>1. phase'[u] \in {phase[u], "timer"}
    BY <1>2
  <2> QED
    BY <1>0, <1>1, <2>1, SessionsUntouched
<1> QED
  BY <1>1, <1>3, <1>4, <1>5, <1>6 DEF IInv

\* The page appears; its socket connects; it is cut.
LEMMA SocketStep ==
  ASSUME IInv, NEW v \in Viewers, Mount(v) \/ Connect(v) \/ Cut(v)
  PROVE  IInv'
<1>0. /\ ServerTyped /\ LinkTyped /\ RootsTyped /\ TokensSound
      /\ UNCHANGED <<sessions, granted, serverRoot, token, newToken, previous, stopped, tasks, queue,
                     shown, serverRootId, refused>>
  BY DEF IInv, Mount, Connect, Cut, rootVars, serverVars
<1>1. losses' \in 0..MaxLosses
  BY <1>0, BoundsAssumption DEF Mount, Connect, Cut, LinkTyped
<1>2. /\ phase' \in [Viewers -> {"fresh", "posting", "granted", "connecting", "live", "timer",
                                 "reposting", "regranted", "gone"}]
      /\ \A u \in Viewers : phase'[u] \in {phase[u], "timer", "live"}
                            \/ (phase[u] = "fresh" /\ phase'[u] = "posting")
  <2>1. CASE Mount(v)
    BY <1>0, <2>1 DEF Mount, LinkTyped, Update
  <2>2. CASE Connect(v)
    BY <1>0, <2>2 DEF Connect, LinkTyped, Update
  <2>3. CASE Cut(v)
    BY <1>0, <2>3, CutKeeps DEF Cut
  <2> QED
    BY <2>1, <2>2, <2>3
<1>3. \A u \in Viewers : RootSound(u)'
  BY <1>0, RootsUntouched
<1>4. ServerTyped' /\ RootsTyped' /\ LinkTyped'
  BY <1>0, <1>1, <1>2 DEF ServerTyped, RootsTyped, LinkTyped
<1>5. TokensSound'
  BY <1>0 DEF TokensSound
<1>6. ASSUME NEW u \in Viewers PROVE SessionSound(u)'
  <2>1. phase'[u] \in {phase[u], "timer", "live"} \/ (phase[u] = "fresh" /\ phase'[u] = "posting")
    BY <1>2
  <2> QED
    BY <1>0, <2>1, SessionsUntouched
<1> QED
  BY <1>3, <1>4, <1>5, <1>6 DEF IInv

\* The timer finds the session, or that it has been lost: no root is held for it any more.
LEMMA ReconnectStep ==
  ASSUME IInv, NEW v \in Viewers, Reconnect(v)
  PROVE  IInv'
<1>0. /\ ServerTyped /\ LinkTyped /\ RootsTyped /\ TokensSound
      /\ UNCHANGED <<sessions, granted, serverRoot, losses, token, newToken, stopped, tasks, queue,
                     shown, serverRootId, refused>>
      /\ phase[v] = "timer" /\ ~Answered(v)
  BY DEF IInv, Reconnect, rootVars, serverVars
<1>1. \/ phase' = [phase EXCEPT ![v] = "connecting"] /\ previous' = previous
      \/ /\ token[v] \notin sessions /\ phase' = [phase EXCEPT ![v] = "reposting"]
         /\ previous' = [previous EXCEPT ![v] = shown[v]]
  BY DEF Reconnect, Update
<1>2. \A u \in Viewers : RootSound(u)'
  BY <1>0, RootsUntouched
<1>3. ServerTyped' /\ LinkTyped'
  BY <1>0, <1>1 DEF ServerTyped, LinkTyped
<1>4. RootsTyped'
  <2>1. previous' \in [Viewers -> Nat] /\ \A u \in Viewers : previous'[u] \in {previous[u], shown[u]}
    BY <1>0, <1>1 DEF RootsTyped
  <2> QED
    BY <1>0, <2>1 DEF RootsTyped
<1>5. TokensSound'
  BY <1>0 DEF TokensSound
<1>6. ASSUME NEW u \in Viewers PROVE SessionSound(u)'
  <2>1. CASE u = v /\ phase'[v] = "reposting"
    <3>1. SessionSound(v) /\ ~AnswersHead(tasks[v], queue[v]) /\ token[v] \notin sessions
      BY <1>0, <1>1, <2>1 DEF IInv, Answered, AnswersHead, LinkTyped
    <3> QED
      BY <1>0, <2>1, <3>1 DEF SessionSound, Expected
  <2>2. CASE u # v \/ phase'[v] # "reposting"
    <3>1. phase'[u] \in {phase[u], "connecting"}
      BY <1>0, <1>1, <2>2 DEF LinkTyped
    <3> QED
      BY <1>0, <3>1, SessionsUntouched
  <2> QED
    BY <2>1, <2>2
<1> QED
  BY <1>2, <1>3, <1>4, <1>5, <1>6 DEF IInv

\* The page goes away, and again once its tasks have ended.
LEMMA StopStep ==
  ASSUME IInv, NEW v \in Viewers, Stop(v) \/ StopAgain(v)
  PROVE  IInv'
<1>0. /\ ServerTyped /\ LinkTyped /\ RootsTyped /\ TokensSound /\ Goodbye(v, token[v])
      /\ UNCHANGED <<losses, token, newToken, previous, tasks, queue, shown, serverRootId, refused>>
  BY DEF IInv, Stop, StopAgain, rootVars
<1>1. /\ stopped' \in [Viewers -> BOOLEAN] /\ \A u \in Viewers : stopped[u] => stopped'[u]
      /\ phase' \in [Viewers -> {"fresh", "posting", "granted", "connecting", "live", "timer",
                                 "reposting", "regranted", "gone"}]
      /\ \A u \in Viewers : phase'[u] \in {phase[u], "gone"}
  <2>1. CASE Stop(v)
    BY <1>0, <2>1 DEF Stop, Update, LinkTyped
  <2>2. CASE StopAgain(v)
    BY <1>0, <2>2 DEF StopAgain, LinkTyped
  <2> QED
    BY <2>1, <2>2
<1>2. /\ ServerTyped' /\ granted' = granted
      /\ \A x \in Tokens : serverRoot'[x] \in {0, serverRoot[x]}
      /\ \A x \in sessions' : x \in sessions /\ serverRoot'[x] = serverRoot[x]
  BY <1>0, GoodbyeKeeps
<1>3. \A u \in Viewers : RootSound(u)'
  BY <1>0, <1>1, RootsUntouched
<1>4. RootsTyped' /\ LinkTyped'
  BY <1>0, <1>1, <1>2 DEF RootsTyped, LinkTyped
<1>5. TokensSound'
  BY <1>0, <1>2, TokensUntouched
<1>6. ASSUME NEW u \in Viewers PROVE SessionSound(u)'
  <2>1. phase'[u] \in {phase[u], "gone"}
    BY <1>1
  <2> QED
    BY <1>0, <1>2, <2>1, SessionsUntouched
<1> QED
  BY <1>2, <1>3, <1>4, <1>5, <1>6 DEF IInv

\* A store is given the token that an answer carried.
LEMMA TokenHandled ==
  ASSUME ServerTyped, LinkTyped, TokensSound, NEW v \in Viewers, UNCHANGED granted,
         token' = [token EXCEPT ![v] = newToken[v]], newToken' = [newToken EXCEPT ![v] = 0],
         \A t \in Tokens : serverRoot'[t] \in {0, serverRoot[t]},
         \A t \in sessions' : t \in sessions /\ t \in Tokens /\ serverRoot'[t] = serverRoot[t]
  PROVE  /\ TokensSound'
         /\ token'[v] \in sessions' => serverRoot'[token'[v]] = 0
         /\ token' \in [Viewers -> 0..granted'] /\ newToken' \in [Viewers -> 0..granted']
         /\ \A u \in Viewers : u # v => token'[u] = token[u]
<1>0. granted \in Nat
  BY BoundsAssumption DEF ServerTyped
<1>1. /\ token'[v] = newToken[v] /\ newToken'[v] = 0
      /\ \A u \in Viewers : u # v => token'[u] = token[u] /\ newToken'[u] = newToken[u]
      /\ token' \in [Viewers -> 0..granted'] /\ newToken' \in [Viewers -> 0..granted']
  BY <1>0 DEF LinkTyped
<1>2. \A u, w \in Viewers : token'[u] = token'[w] /\ token'[u] # 0 => u = w
  <2>1. SUFFICES ASSUME NEW u \in Viewers, NEW w \in Viewers, token'[u] = token'[w], token'[u] # 0, u # w
                 PROVE  FALSE
    OBVIOUS
  <2>2. CASE u = v
    BY <1>1, <2>1, <2>2 DEF TokensSound
  <2>3. CASE w = v
    BY <1>1, <2>1, <2>3 DEF TokensSound
  <2>4. CASE u # v /\ w # v
    BY <1>1, <2>1, <2>4 DEF TokensSound
  <2> QED
    BY <2>2, <2>3, <2>4
<1>3. \A u, w \in Viewers : newToken'[u] = newToken'[w] /\ newToken'[u] # 0 => u = w
  <2>1. SUFFICES ASSUME NEW u \in Viewers, NEW w \in Viewers,
                        newToken'[u] = newToken'[w], newToken'[u] # 0, u # w
                 PROVE  FALSE
    OBVIOUS
  <2>2. u # v /\ w # v
    BY <1>1, <2>1
  <2> QED
    BY <1>1, <2>1, <2>2 DEF TokensSound
<1>4. ASSUME NEW u \in Viewers, NEW w \in Viewers, token'[u] = newToken'[w]
      PROVE  token'[u] = 0
  <2>1. CASE w = v
    BY <1>1, <1>4, <2>1
  <2>2. CASE w # v /\ u # v
    BY <1>1, <1>4, <2>2 DEF TokensSound
  <2>3. CASE w # v /\ u = v
    <3>1. newToken[v] = newToken[w]
      BY <1>1, <1>4, <2>3
    <3> QED
      BY <1>1, <2>3, <3>1 DEF TokensSound
  <2> QED
    BY <2>1, <2>2, <2>3
<1>5. ASSUME NEW t \in Tokens, t > granted' \/ (\E w \in Viewers : newToken'[w] = t)
      PROVE  serverRoot'[t] = 0
  <2>1. t # 0 /\ t \in Nat
    BY BoundsAssumption DEF Tokens
  <2>2. t > granted \/ (\E w \in Viewers : newToken[w] = t)
    BY <1>1, <1>5, <2>1
  <2>3. serverRoot[t] = 0
    BY <2>2 DEF TokensSound
  <2> QED
    BY <2>3
<1>6. ASSUME token'[v] \in sessions' PROVE serverRoot'[token'[v]] = 0
  <2>1. /\ newToken[v] \in Tokens /\ serverRoot'[newToken[v]] = serverRoot[newToken[v]]
    BY <1>1, <1>6
  <2>2. serverRoot[newToken[v]] = 0
    BY <2>1 DEF TokensSound
  <2> QED
    BY <1>1, <2>1, <2>2
<1> QED
  BY <1>1, <1>2, <1>3, <1>4, <1>5, <1>6 DEF TokensSound

\* The answer to the first request for a session.
LEMMA InitializedStep ==
  ASSUME IInv, NEW v \in Viewers, Initialized(v)
  PROVE  IInv'
<1>0. /\ ServerTyped /\ LinkTyped /\ RootsTyped /\ TokensSound /\ SessionSound(v)
      /\ UNCHANGED <<losses, previous, stopped, tasks, queue, shown, serverRootId, refused>>
      /\ token' = [token EXCEPT ![v] = newToken[v]] /\ newToken' = [newToken EXCEPT ![v] = 0]
      /\ phase[v] = "granted"
      /\ phase' = [phase EXCEPT ![v] = IF stopped[v] THEN "gone" ELSE "connecting"]
  BY DEF IInv, Initialized, rootVars, Update
<1>1. /\ ServerTyped' /\ granted' = granted
      /\ \A x \in Tokens : serverRoot'[x] \in {0, serverRoot[x]}
      /\ \A x \in sessions' : x \in sessions /\ x \in Tokens /\ serverRoot'[x] = serverRoot[x]
  <2>1. CASE stopped[v]
    BY <1>0, <2>1, GoodbyeKeeps DEF Initialized
  <2>2. CASE ~stopped[v]
    <3>1. UNCHANGED <<sessions, granted, serverRoot>>
      BY <2>2 DEF Initialized, serverVars
    <3> QED
      BY <1>0, <3>1, BoundsAssumption DEF ServerTyped, Tokens
  <2> QED
    BY <2>1, <2>2
<1>2. /\ TokensSound'
      /\ token'[v] \in sessions' => serverRoot'[token'[v]] = 0
      /\ token' \in [Viewers -> 0..granted'] /\ newToken' \in [Viewers -> 0..granted']
      /\ \A u \in Viewers : u # v => token'[u] = token[u]
  BY <1>0, <1>1, TokenHandled
<1>3. \A u \in Viewers : RootSound(u)'
  BY <1>0, RootsUntouched
<1>4. RootsTyped' /\ LinkTyped'
  BY <1>0, <1>1, <1>2 DEF RootsTyped, LinkTyped
<1>5. ASSUME NEW u \in Viewers PROVE SessionSound(u)'
  <2>1. CASE u # v
    <3>1. phase'[u] = phase[u] /\ token'[u] = token[u]
      BY <1>0, <1>2, <2>1 DEF LinkTyped
    <3> QED
      BY <1>0, <1>1, <3>1, SessionsUntouched
  <2>2. CASE u = v
    <3>1. phase'[v] \in {"gone", "connecting"}
      BY <1>0 DEF LinkTyped
    <3>2. serverRootId[v] = 0 /\ NoOpening(tasks[v])
      BY <1>0 DEF SessionSound
    <3>3. Expected(tasks[v], queue[v], 0) = 0
      <4>1. PICK ts : ts = tasks[v]
        OBVIOUS
      <4>2. PICK q : q = queue[v]
        OBVIOUS
      <4>3. StoreSound(ts, q) /\ NoOpening(ts)
        BY <3>2, <4>1, <4>2 DEF IInv, RootSound
      <4>4. q # <<>> => Head(q) \in 1..Len(ts)
        BY <4>3, QueueFacts
      <4>5. Expected(ts, q, 0) = 0
        BY <4>3, <4>4 DEF Expected, Received, NoOpening, AnswersHead
      <4> QED
        BY <4>1, <4>2, <4>5
    <3> QED
      BY <1>0, <1>2, <2>2, <3>1, <3>2, <3>3 DEF SessionSound, Holds
  <2> QED
    BY <2>1, <2>2
<1> QED
  BY <1>1, <1>2, <1>3, <1>4, <1>5 DEF IInv
-----------------------------------------------------------------------------
(* The steps of the tasks *)

\* A step of one store leaves the roots of the others.
LEMMA OtherStores ==
  ASSUME IInv, NEW v \in Viewers, NEW ts, NEW q, NEW s, NEW r,
         tasks' = [tasks EXCEPT ![v] = ts], queue' = [queue EXCEPT ![v] = q],
         shown' = [shown EXCEPT ![v] = s], serverRootId' = [serverRootId EXCEPT ![v] = r],
         UNCHANGED <<stopped, previous>>, refused' = refused \/ refused' \in [Viewers -> SUBSET Nat],
         s \in 0..Len(ts), r \in 0..Len(ts), Len(ts) \in Nat, Len(tasks[v]) <= Len(ts),
         StoreSound(ts, q), ~stopped[v] /\ s # 0 => ShownSound(ts, q, s, r), ClosureSound(ts, q, r)
  PROVE  /\ RootsTyped' /\ \A u \in Viewers : RootSound(u)'
         /\ tasks'[v] = ts /\ queue'[v] = q /\ shown'[v] = s /\ serverRootId'[v] = r
         /\ \A u \in Viewers : u # v => /\ tasks'[u] = tasks[u] /\ queue'[u] = queue[u]
                                        /\ serverRootId'[u] = serverRootId[u]
<1>0. RootsTyped /\ stopped' = stopped /\ previous' = previous
  BY DEF IInv
<1>1. tasks'[v] = ts /\ queue'[v] = q /\ shown'[v] = s /\ serverRootId'[v] = r
  BY <1>0 DEF RootsTyped
<1>2. /\ tasks' = [u \in Viewers |-> tasks'[u]] /\ queue' = [u \in Viewers |-> queue'[u]]
      /\ \A u \in Viewers : u # v => tasks'[u] = tasks[u] /\ queue'[u] = queue[u]
  BY <1>0 DEF RootsTyped
<1>3. /\ shown' \in [Viewers -> Nat] /\ serverRootId' \in [Viewers -> Nat]
      /\ \A u \in Viewers : u # v => shown'[u] = shown[u] /\ serverRootId'[u] = serverRootId[u]
  BY <1>0 DEF RootsTyped
<1>4. RootsTyped'
  <2>1. ASSUME NEW u \in Viewers
        PROVE  /\ shown'[u] \in 0..Len(tasks'[u]) /\ serverRootId'[u] \in 0..Len(tasks'[u])
               /\ previous'[u] \in 0..Len(tasks'[u])
    <3>1. CASE u = v
      <4>1. previous[v] \in Nat /\ previous[v] <= Len(tasks[v]) /\ Len(tasks[v]) \in Nat
        <5>1. Len(tasks[v]) \in Nat
          BY DEF IInv, RootSound, StoreSound, TasksSound
        <5> QED
          BY <1>0, <5>1 DEF RootsTyped
      <4> QED
        BY <1>0, <1>1, <3>1, <4>1
    <3>2. CASE u # v
      BY <1>0, <1>2, <1>3, <3>2 DEF RootsTyped
    <3> QED
      BY <3>1, <3>2
  <2> QED
    BY <1>0, <1>2, <1>3, <2>1 DEF RootsTyped
<1>5. ASSUME NEW u \in Viewers PROVE RootSound(u)'
  <2>1. CASE u = v
    BY <1>0, <1>1, <2>1 DEF RootSound
  <2>2. CASE u # v
    <3>1. RootSound(u)
      BY DEF IInv
    <3> QED
      BY <1>0, <1>2, <1>3, <2>2, <3>1 DEF RootSound
  <2> QED
    BY <2>1, <2>2
<1> QED
  BY <1>1, <1>2, <1>3, <1>4, <1>5

\* A store's session goes on while no answer comes in or is handled.
LEMMA SessionGoesOn ==
  ASSUME IInv, NEW v \in Viewers, UNCHANGED <<token, sessions, serverRoot>>,
         phase'[v] \in {"fresh", "posting", "granted"} => phase[v] \in {"fresh", "posting", "granted"},
         phase'[v] \in {"reposting", "regranted"} => phase[v] \in {"reposting", "regranted"},
         serverRootId'[v] = serverRootId[v], refused'[v] = refused[v],
         \A r : Expected(tasks'[v], queue'[v], r) = Expected(tasks[v], queue[v], r),
         NoOpening(tasks[v]) => NoOpening(tasks'[v])
  PROVE  SessionSound(v)'
<1>1. SessionSound(v)
  BY DEF IInv
<1> QED
  BY <1>1 DEF SessionSound

\* What is left to be shown of a step of the tasks, once the store it is about is known.
LEMMA StoreStep ==
  ASSUME IInv, NEW v \in Viewers, RootsTyped', \A u \in Viewers : RootSound(u)',
         UNCHANGED <<sessions, granted, serverRoot, losses, token, newToken, stopped>>,
         \A u \in Viewers : u # v => /\ tasks'[u] = tasks[u] /\ queue'[u] = queue[u]
                                     /\ serverRootId'[u] = serverRootId[u]
                                     /\ refused'[u] = refused[u],
         phase' = phase \/ (phase[v] = "fresh" /\ phase' = [phase EXCEPT ![v] = "posting"]),
         SessionSound(v)'
  PROVE  IInv'
<1>0. ServerTyped /\ LinkTyped /\ TokensSound
  BY DEF IInv
<1>1. ServerTyped' /\ LinkTyped' /\ TokensSound'
  BY <1>0 DEF ServerTyped, LinkTyped, TokensSound
<1>2. ASSUME NEW u \in Viewers, u # v PROVE SessionSound(u)'
  <2>1. phase'[u] = phase[u]
    BY <1>0, <1>2 DEF LinkTyped
  <2> QED
    BY <1>2, <2>1, SessionsUntouched
<1> QED
  BY <1>1, <1>2 DEF IInv

\* The tasks that are awaited are the last ones of their kind.
LEMMA PendingSame ==
  ASSUME NEW v, NEW kind
  PROVE  Pending(v, kind) = PendingIn(tasks[v], kind)
BY DEF Pending, PendingIn, Numbers, Ended

\* The user opens a root.
LEMMA OpenStep ==
  ASSUME IInv, NEW v \in Viewers, Open(v)
  PROVE  IInv'
<1>0. /\ RootsTyped /\ RootSound(v)
      /\ UNCHANGED <<sessions, granted, serverRoot, losses, phase, token, newToken, previous, stopped,
                     shown, serverRootId, refused, queue>>
  BY DEF IInv, Open, serverVars, linkVars
<1>1. PICK ts : ts = tasks[v]
  OBVIOUS
<1>2. PICK q : q = queue[v]
  OBVIOUS
<1>3. PICK s : s = shown[v]
  OBVIOUS
<1>4. PICK r : r = serverRootId[v]
  OBVIOUS
<1>5. PICK us : us = Added(ts, "open", PendingIn(ts, "close"))
  OBVIOUS
<1>6. /\ StoreSound(ts, q) /\ Len(ts) \in Nat /\ s \in 0..Len(ts) /\ r \in 0..Len(ts)
      /\ ~stopped[v] /\ s # 0 => ShownSound(ts, q, s, r)
  BY <1>0, <1>1, <1>2, <1>3, <1>4 DEF RootSound, RootsTyped, StoreSound, TasksSound
<1>7. tasks' = [tasks EXCEPT ![v] = us]
  <2>1. Pending(v, "close") = PendingIn(ts, "close")
    BY <1>1, PendingSame
  <2> QED
    BY <1>0, <1>1, <1>5, <2>1 DEF Open, Added
<1>8. /\ StoreSound(us, q) /\ Len(us) = Len(ts) + 1 /\ \A m \in 1..Len(ts) : us[m] = ts[m]
      /\ us[Len(us)].root = 0
      /\ \A x : ClosureSound(us, q, x) /\ Expected(us, q, x) = Expected(ts, q, x)
      /\ \A y, x : ShownSound(ts, q, y, x) => ShownSound(us, q, y, x)
  <2>1. StoreSound(ts, q)
    BY <1>6
  <2>2. /\ StoreSound(us, q) /\ Len(us) = Len(ts) + 1 /\ \A m \in 1..Len(ts) : us[m] = ts[m]
        /\ us[Len(us)].root = 0
    BY <1>5, <2>1, OpeningAdded
  <2>3. \A x : ClosureSound(us, q, x)
    BY <1>5, <2>1, OpeningAdded
  <2>5. \A x : Expected(us, q, x) = Expected(ts, q, x)
    <3>1. q # <<>> => Head(q) \in 1..Len(ts)
      BY <2>1, QueueFacts
    <3>2. q # <<>> => us[Head(q)] = ts[Head(q)]
      BY <2>2, <3>1
    <3> QED
      BY <3>2 DEF Expected, AnswersHead
  <2>4. ASSUME NEW y, NEW x, ShownSound(ts, q, y, x) PROVE ShownSound(us, q, y, x)
    BY <1>5, <2>1, <2>4, OpeningAdded
  <2> QED
    BY <2>2, <2>3, <2>4, <2>5
<1>9. /\ queue' = [queue EXCEPT ![v] = q] /\ shown' = [shown EXCEPT ![v] = s]
      /\ serverRootId' = [serverRootId EXCEPT ![v] = r]
  BY <1>0, <1>2, <1>3, <1>4 DEF RootsTyped
<1>10. /\ s \in 0..Len(us) /\ r \in 0..Len(us) /\ Len(us) \in Nat /\ Len(tasks[v]) <= Len(us)
       /\ ~stopped[v] /\ s # 0 => ShownSound(us, q, s, r)
  BY <1>1, <1>6, <1>8
<1>11. /\ RootsTyped' /\ \A u \in Viewers : RootSound(u)'
       /\ tasks'[v] = us /\ queue'[v] = q /\ shown'[v] = s /\ serverRootId'[v] = r
       /\ \A u \in Viewers : u # v => /\ tasks'[u] = tasks[u] /\ queue'[u] = queue[u]
                                      /\ serverRootId'[u] = serverRootId[u]
  BY <1>0, <1>7, <1>8, <1>9, <1>10, OtherStores
<1>12. SessionSound(v)'
  <2>1. NoOpening(ts) => NoOpening(us)
    <3>1. \A m \in 1..Len(us) : m \in 1..Len(ts) \/ m = Len(us)
      BY <1>6, <1>8
    <3> QED
      BY <1>8, <3>1 DEF NoOpening
  <2> QED
    BY <1>0, <1>1, <1>2, <1>4, <1>8, <1>11, <2>1, SessionGoesOn
<1> QED
  BY <1>0, <1>11, <1>12, StoreStep

\* The user closes the root: it is shown no more.
LEMMA CloseRootStep ==
  ASSUME IInv, NEW v \in Viewers, CloseRoot(v)
  PROVE  IInv'
<1>0. /\ RootsTyped /\ RootSound(v) /\ shown' = [shown EXCEPT ![v] = 0]
      /\ UNCHANGED <<sessions, granted, serverRoot, losses, phase, token, newToken, previous, stopped,
                     serverRootId, queue, refused>>
  BY DEF IInv, CloseRoot, serverVars, linkVars, Update
<1>1. PICK ts : ts = tasks[v]
  OBVIOUS
<1>2. PICK q : q = queue[v]
  OBVIOUS
<1>3. PICK r : r = serverRootId[v]
  OBVIOUS
<1>4. PICK us : us = Added(ts, "close", PendingIn(ts, "close") \cup PendingIn(ts, "open"))
  OBVIOUS
<1>5. StoreSound(ts, q) /\ Len(ts) \in Nat /\ r \in 0..Len(ts)
  BY <1>0, <1>1, <1>2, <1>3 DEF RootSound, RootsTyped, StoreSound, TasksSound
<1>6. tasks' = [tasks EXCEPT ![v] = us]
  <2>1. Pending(v, "close") = PendingIn(ts, "close") /\ Pending(v, "open") = PendingIn(ts, "open")
    BY <1>1, PendingSame
  <2> QED
    BY <1>0, <1>1, <1>4, <2>1 DEF CloseRoot, Added, AwaitedByClosure
<1>7. /\ StoreSound(us, q) /\ Len(us) = Len(ts) + 1 /\ \A m \in 1..Len(ts) : us[m] = ts[m]
      /\ us[Len(us)].kind = "close"
      /\ \A x : ClosureSound(us, q, x) /\ Expected(us, q, x) = Expected(ts, q, x)
  BY <1>4, <1>5, ClosureAdded
<1>9. PICK s : s = 0
  OBVIOUS
<1>8. /\ queue' = [queue EXCEPT ![v] = q] /\ serverRootId' = [serverRootId EXCEPT ![v] = r]
      /\ shown' = [shown EXCEPT ![v] = s] /\ UNCHANGED <<stopped, previous>>
  BY <1>0, <1>2, <1>3, <1>9 DEF RootsTyped
<1>10. /\ s \in 0..Len(us) /\ r \in 0..Len(us) /\ Len(us) \in Nat /\ Len(tasks[v]) <= Len(us)
       /\ ~stopped[v] /\ s # 0 => ShownSound(us, q, s, r)
  BY <1>1, <1>5, <1>7, <1>9
<1>11. /\ RootsTyped' /\ \A u \in Viewers : RootSound(u)'
       /\ tasks'[v] = us /\ queue'[v] = q /\ shown'[v] = s /\ serverRootId'[v] = r
       /\ \A u \in Viewers : u # v => /\ tasks'[u] = tasks[u] /\ queue'[u] = queue[u]
                                      /\ serverRootId'[u] = serverRootId[u]
  <2>1. ClosureSound(us, q, r)
    BY <1>7
  <2> QED
    BY <1>0, <1>6, <1>7, <1>8, <1>10, <2>1, OtherStores
<1>12. SessionSound(v)'
  <2>1. NoOpening(ts) => NoOpening(us)
    <3>1. \A m \in 1..Len(us) : m \in 1..Len(ts) \/ m = Len(us)
      BY <1>5, <1>7
    <3> QED
      BY <1>7, <3>1 DEF NoOpening
  <2> QED
    BY <1>0, <1>1, <1>2, <1>3, <1>7, <1>11, <2>1, SessionGoesOn
<1> QED
  BY <1>0, <1>11, <1>12, StoreStep

Stepped(task, pc) == [task EXCEPT !.pc = pc]
Moved(task, pc, root) == [task EXCEPT !.pc = pc, !.root = root]

\* A task of which a field or two have changed.
LEMMA TaskMoved ==
  ASSUME NEW k \in Nat, NEW task \in TaskRecords(k), NEW pc \in Steps, NEW root \in 0..k, NEW t,
         t = Moved(task, pc, root) \/ (t = Stepped(task, pc) /\ root = task.root)
  PROVE  /\ t \in TaskRecords(k) /\ t.kind = task.kind /\ t.awaited = task.awaited
         /\ t.pc = pc /\ t.root = root
<1>1. /\ task = [kind |-> task.kind, pc |-> task.pc, awaited |-> task.awaited, root |-> task.root]
      /\ task.kind \in {"open", "close"} /\ task.awaited \in SUBSET (1..k)
  BY DEF TaskRecords
<1>2. t = [kind |-> task.kind, pc |-> pc, awaited |-> task.awaited, root |-> root]
  BY DEF TaskRecords, Moved, Stepped
<1>3. t.kind = task.kind /\ t.awaited = task.awaited /\ t.pc = pc /\ t.root = root
  BY <1>2
<1>4. t \in TaskRecords(k)
  BY <1>1, <1>2 DEF TaskRecords
<1> QED
  BY <1>3, <1>4

\* The tasks of a store are task records.
LEMMA TaskTyped ==
  ASSUME NEW ts, TasksSound(ts), NEW n \in 1..Len(ts)
  PROVE  ts[n] \in TaskRecords(Len(ts)) /\ Len(ts) \in Nat
<1>1. PICK R : R = TaskRecords(Len(ts))
  OBVIOUS
<1>2. ts \in Seq(R)
  BY <1>1 DEF TasksSound
<1> QED
  BY <1>1, <1>2

\* An opening gives up, asks for a session, or sends its request.
LEMMA ProceedOpenStep ==
  ASSUME IInv, NEW v \in Viewers, NEW n \in Numbers(v), ProceedOpen(v, n)
  PROVE  IInv'
<1>0. /\ RootsTyped /\ RootSound(v)
      /\ UNCHANGED <<sessions, granted, serverRoot, losses, token, newToken, previous, stopped,
                     shown, serverRootId, refused>>
      /\ phase' = phase \/ (phase[v] = "fresh" /\ phase' = [phase EXCEPT ![v] = "posting"])
  BY DEF IInv, ProceedOpen, serverVars, Update
<1>1. PICK ts : ts = tasks[v]
  OBVIOUS
<1>2. PICK q : q = queue[v]
  OBVIOUS
<1>3. PICK s : s = shown[v]
  OBVIOUS
<1>4. PICK r : r = serverRootId[v]
  OBVIOUS
<1>5. /\ StoreSound(ts, q) /\ Len(ts) \in Nat /\ s \in 0..Len(ts) /\ r \in 0..Len(ts) /\ r \in Nat
      /\ ~stopped[v] /\ s # 0 => ShownSound(ts, q, s, r)
      /\ ClosureSound(ts, q, r)
  BY <1>0, <1>1, <1>2, <1>3, <1>4 DEF RootSound, RootsTyped, StoreSound, TasksSound
<1>6. /\ n \in 1..Len(ts) /\ ts[n] \in TaskRecords(Len(ts))
      /\ ts[n].kind = "open" /\ \A m \in ts[n].awaited : Ended(ts, m)
  <2>1. n \in 1..Len(ts)
    BY <1>1 DEF Numbers
  <2>2. ts[n] \in TaskRecords(Len(ts))
    BY <1>5, <2>1, TaskTyped DEF StoreSound
  <2>3. ts[n].kind = "open" /\ \A m \in ts[n].awaited : Ended(ts, m)
    BY <1>1 DEF ProceedOpen, Awaited, Ended
  <2> QED
    BY <2>1, <2>2, <2>3
<1>7. PICK pc \in {"done", "initializes", "queued"} :
        /\ Proceed(v, n, [ts[n] EXCEPT !.pc = pc])
        /\ pc # "queued" => ts[n].pc \in {"awaits", "initializes"}
        /\ pc = "queued" => ts[n].pc = "initializes" /\ n = Len(ts)
  BY <1>1 DEF ProceedOpen, Latest, RootRevision
<1>8. PICK t : t = Stepped(ts[n], pc)
  OBVIOUS
<1>9. /\ t \in TaskRecords(Len(ts)) /\ t.kind = ts[n].kind /\ t.awaited = ts[n].awaited
      /\ t.pc = pc /\ t.root = ts[n].root
  <2>1. pc \in Steps /\ ts[n].root \in 0..Len(ts)
    BY <1>6, <1>7 DEF Steps, TaskRecords
  <2> QED
    BY <1>5, <1>6, <1>8, <2>1, TaskMoved
<1>10. PICK us : us = With(ts, n, t)
  OBVIOUS
<1>11. PICK p : p = IF pc = "queued" THEN Longer(q, n) ELSE q
  OBVIOUS
<1>12. tasks' = [tasks EXCEPT ![v] = us] /\ queue' = [queue EXCEPT ![v] = p]
  <2>1. Proceed(v, n, t)
    BY <1>7, <1>8 DEF Stepped
  <2>2. tasks' = [tasks EXCEPT ![v] = us]
    BY <1>0, <1>1, <1>10, <2>1 DEF Proceed, With
  <2>3. CASE pc = "queued"
    <3>1. t.pc = "queued" /\ p = Append(q, n)
      BY <1>9, <1>11, <2>3 DEF Longer
    <3>2. queue' = [queue EXCEPT ![v] = Append(queue[v], n)]
      BY <2>1, <3>1 DEF Proceed, Update
    <3> QED
      BY <1>2, <2>2, <3>1, <3>2
  <2>4. CASE pc # "queued"
    <3>1. t.pc # "queued" /\ p = q
      BY <1>9, <1>11, <2>4
    <3>2. queue' = queue
      BY <2>1, <3>1 DEF Proceed
    <3> QED
      BY <1>0, <1>2, <2>2, <3>1, <3>2 DEF RootsTyped
  <2> QED
    BY <2>2, <2>3, <2>4
<1>13. /\ StoreSound(us, p) /\ Len(us) = Len(ts)
       /\ us[n] = t /\ \A m \in 1..Len(ts) : m # n => us[m] = ts[m]
       /\ ClosureSound(us, p, r)
       /\ \A x : Expected(us, p, x) = Expected(ts, q, x)
       /\ ShownSound(ts, q, s, r) => ShownSound(us, p, s, r)
  <2>1. CASE pc = "queued"
    <3>1. p = Longer(q, n) /\ ts[n].pc = "initializes" /\ n = Len(ts) /\ t.pc = "queued" /\ t.kind = "open"
      BY <1>6, <1>7, <1>9, <1>11, <2>1
    <3>2. /\ StoreSound(us, p) /\ Len(us) = Len(ts)
          /\ us[n] = t /\ \A m \in 1..Len(ts) : m # n => us[m] = ts[m]
          /\ \A x : ClosureSound(us, p, x) /\ Expected(us, p, x) = Expected(ts, q, x)
          /\ \A y, x : ShownSound(ts, q, y, x) => ShownSound(us, p, y, x)
      BY <1>5, <1>6, <1>9, <1>10, <3>1, OpeningSent
    <3> QED
      BY <3>2
  <2>2. CASE pc # "queued"
    <3>1. /\ p = q /\ ts[n].pc \in {"awaits", "initializes"} /\ t.pc \in {"initializes", "done"}
          /\ t.kind = "open"
      BY <1>6, <1>7, <1>9, <1>11, <2>2
    <3>2. /\ StoreSound(us, q) /\ Len(us) = Len(ts)
          /\ us[n] = t /\ \A m \in 1..Len(ts) : m # n => us[m] = ts[m]
          /\ \A x : Expected(us, q, x) = Expected(ts, q, x)
          /\ \A x \in Nat : ClosureSound(ts, q, x) => ClosureSound(us, q, x)
          /\ \A y, x : ShownSound(ts, q, y, x) => ShownSound(us, q, y, x)
      BY <1>5, <1>6, <1>9, <1>10, <3>1, OpeningGoesOn
    <3> QED
      BY <1>5, <3>1, <3>2
  <2> QED
    BY <2>1, <2>2
<1>14. shown' = [shown EXCEPT ![v] = s] /\ serverRootId' = [serverRootId EXCEPT ![v] = r]
  BY <1>0, <1>3, <1>4 DEF RootsTyped
<1>15. /\ s \in 0..Len(us) /\ r \in 0..Len(us) /\ Len(us) \in Nat /\ Len(tasks[v]) <= Len(us)
       /\ ~stopped[v] /\ s # 0 => ShownSound(us, p, s, r)
  BY <1>1, <1>5, <1>13
<1>16. /\ RootsTyped' /\ \A u \in Viewers : RootSound(u)'
       /\ tasks'[v] = us /\ queue'[v] = p /\ shown'[v] = s /\ serverRootId'[v] = r
       /\ \A u \in Viewers : u # v => /\ tasks'[u] = tasks[u] /\ queue'[u] = queue[u]
                                      /\ serverRootId'[u] = serverRootId[u]
  BY <1>0, <1>12, <1>13, <1>14, <1>15, OtherStores
<1>17. SessionSound(v)'
  <2>1. NoOpening(ts) => NoOpening(us)
    BY <1>9, <1>13 DEF NoOpening
  <2>2. phase'[v] = phase[v] \/ (phase[v] = "fresh" /\ phase'[v] = "posting")
    BY <1>0 DEF IInv, LinkTyped
  <2>3. \A x : Expected(tasks'[v], queue'[v], x) = Expected(tasks[v], queue[v], x)
    BY <1>1, <1>2, <1>13, <1>16
  <2> QED
    BY <1>0, <1>1, <1>4, <1>16, <2>1, <2>2, <2>3, SessionGoesOn
<1> QED
  BY <1>0, <1>16, <1>17, StoreStep

\* A closure sends its request, or finds nothing to close.
LEMMA ProceedCloseStep ==
  ASSUME IInv, NEW v \in Viewers, NEW n \in Numbers(v), ProceedClose(v, n)
  PROVE  IInv'
<1>0. /\ RootsTyped /\ RootSound(v)
      /\ UNCHANGED <<sessions, granted, serverRoot, losses, phase, token, newToken, previous, stopped,
                     shown>>
  BY DEF IInv, ProceedClose, serverVars, linkVars
<1>1. PICK ts : ts = tasks[v]
  OBVIOUS
<1>2. PICK q : q = queue[v]
  OBVIOUS
<1>3. PICK s : s = shown[v]
  OBVIOUS
<1>4. PICK r : r = serverRootId[v]
  OBVIOUS
<1>5. /\ StoreSound(ts, q) /\ Len(ts) \in Nat /\ s \in 0..Len(ts) /\ r \in 0..Len(ts) /\ r \in Nat
      /\ ~stopped[v] /\ s # 0 => ShownSound(ts, q, s, r)
      /\ ClosureSound(ts, q, r)
  BY <1>0, <1>1, <1>2, <1>3, <1>4 DEF RootSound, RootsTyped, StoreSound, TasksSound
<1>6. /\ n \in 1..Len(ts) /\ ts[n] \in TaskRecords(Len(ts))
      /\ ts[n].kind = "close" /\ ts[n].pc = "awaits" /\ \A m \in ts[n].awaited : Ended(ts, m)
  <2>1. n \in 1..Len(ts)
    BY <1>1 DEF Numbers
  <2>2. ts[n] \in TaskRecords(Len(ts))
    BY <1>5, <2>1, TaskTyped DEF StoreSound
  <2>3. ts[n].kind = "close" /\ ts[n].pc = "awaits" /\ \A m \in ts[n].awaited : Ended(ts, m)
    BY <1>1 DEF ProceedClose, Awaited, Ended
  <2> QED
    BY <2>1, <2>2, <2>3
<1>20. PICK x \in {0, r} :
         /\ Proceed(v, n, [ts[n] EXCEPT !.pc = IF x = 0 THEN "done" ELSE "queued", !.root = x])
         /\ serverRootId' = [serverRootId EXCEPT ![v] = x]
         /\ x = r => refused' = refused
         /\ x # r => x = 0 /\ refused' = [refused EXCEPT ![v] = refused[v] \cup {r}]
  BY <1>1, <1>4 DEF ProceedClose, Refuse, Update
<1>7. PICK pc : pc = IF x = 0 THEN "done" ELSE "queued"
  OBVIOUS
<1>8. PICK t : t = Moved(ts[n], pc, x)
  OBVIOUS
<1>9. /\ t \in TaskRecords(Len(ts)) /\ t.kind = "close" /\ t.awaited = ts[n].awaited
      /\ t.pc = pc /\ t.root = x /\ x \in Nat
  <2>1. pc \in Steps /\ x \in 0..Len(ts) /\ x \in Nat
    BY <1>5, <1>7, <1>20 DEF Steps
  <2> QED
    BY <1>5, <1>6, <1>8, <2>1, TaskMoved
<1>10. PICK us : us = With(ts, n, t)
  OBVIOUS
<1>11. PICK p : p = IF x = 0 THEN q ELSE Longer(q, n)
  OBVIOUS
<1>12. tasks' = [tasks EXCEPT ![v] = us] /\ queue' = [queue EXCEPT ![v] = p]
  <2>1. Proceed(v, n, t)
    BY <1>7, <1>8, <1>20 DEF Moved
  <2>2. tasks' = [tasks EXCEPT ![v] = us]
    BY <1>0, <1>1, <1>10, <2>1 DEF Proceed, With
  <2>3. CASE x # 0
    <3>1. t.pc = "queued" /\ p = Append(q, n)
      BY <1>7, <1>9, <1>11, <2>3 DEF Longer
    <3>2. queue' = [queue EXCEPT ![v] = Append(queue[v], n)]
      BY <2>1, <3>1 DEF Proceed, Update
    <3> QED
      BY <1>2, <2>2, <3>1, <3>2
  <2>4. CASE x = 0
    <3>1. t.pc # "queued" /\ p = q
      BY <1>7, <1>9, <1>11, <2>4
    <3>2. queue' = queue
      BY <2>1, <3>1 DEF Proceed
    <3> QED
      BY <1>0, <1>2, <2>2, <3>1, <3>2 DEF RootsTyped
  <2> QED
    BY <2>2, <2>3, <2>4
<1>13. /\ StoreSound(us, p) /\ Len(us) = Len(ts)
       /\ us[n] = t /\ \A m \in 1..Len(ts) : m # n => us[m] = ts[m]
       /\ ClosureSound(us, p, x)
       /\ \A y : Expected(us, p, y) = Expected(ts, q, y)
  BY <1>5, <1>6, <1>7, <1>9, <1>10, <1>11, ClosureBegins
<1>14. shown' = [shown EXCEPT ![v] = s] /\ serverRootId' = [serverRootId EXCEPT ![v] = x]
  BY <1>0, <1>3, <1>20 DEF RootsTyped
<1>15. /\ s \in 0..Len(us) /\ x \in 0..Len(us) /\ Len(us) \in Nat /\ Len(tasks[v]) <= Len(us)
       /\ ~stopped[v] /\ s # 0 => ShownSound(us, p, s, x)
  <2>1. ~Ended(ts, n)
    BY <1>6 DEF Ended
  <2>2. ~ShownSound(ts, q, s, r)
    BY <1>5, <1>6, <2>1, ClosureInTheWay
  <2> QED
    BY <1>1, <1>5, <1>9, <1>13, <1>20, <2>2
<1>21. /\ refused' \in [Viewers -> SUBSET Nat]
       /\ \A u \in Viewers : u # v => refused'[u] = refused[u]
       /\ x # r => refused'[v] = refused[v] \cup {r}
  <2>1. refused \in [Viewers -> SUBSET Nat]
    BY <1>0 DEF RootsTyped
  <2>2. refused[v] \cup {r} \in SUBSET Nat
    BY <1>5, <2>1
  <2> QED
    BY <1>20, <2>1, <2>2
<1>16. /\ RootsTyped' /\ \A u \in Viewers : RootSound(u)'
       /\ tasks'[v] = us /\ queue'[v] = p /\ shown'[v] = s /\ serverRootId'[v] = x
       /\ \A u \in Viewers : u # v => /\ tasks'[u] = tasks[u] /\ queue'[u] = queue[u]
                                      /\ serverRootId'[u] = serverRootId[u]
  BY <1>0, <1>12, <1>13, <1>14, <1>15, <1>21, OtherStores
<1>17. SessionSound(v)'
  <2>1. NoOpening(ts) => NoOpening(us)
    BY <1>9, <1>13 DEF NoOpening
  <2>2. \A y : Expected(tasks'[v], queue'[v], y) = Expected(tasks[v], queue[v], y)
    BY <1>1, <1>2, <1>13, <1>16
  <2>3. CASE x = r
    BY <1>0, <1>1, <1>4, <1>16, <1>20, <2>1, <2>2, <2>3, SessionGoesOn
  <2>4. CASE x # r
    <3>1. SessionSound(v) /\ x = 0 /\ r # 0
      BY <1>20, <2>4 DEF IInv
    <3>2. phase'[v] = phase[v] /\ token'[v] = token[v] /\ sessions' = sessions
          /\ serverRoot' = serverRoot
      BY <1>0
    <3>3. phase[v] \notin {"fresh", "posting", "granted"}
      BY <1>4, <3>1 DEF SessionSound
    <3>4. ASSUME phase[v] \in {"reposting", "regranted"}
          PROVE  token[v] \notin sessions /\ Expected(tasks'[v], queue'[v], 0) = 0
      BY <2>2, <3>1, <3>4 DEF SessionSound
    <3>5. ASSUME token[v] \in sessions
          PROVE  Holds(serverRoot[token[v]], Expected(tasks'[v], queue'[v], 0), refused'[v])
      <4>1. Holds(serverRoot[token[v]], Expected(ts, q, r), refused[v])
        BY <1>1, <1>2, <1>4, <3>1, <3>5 DEF SessionSound
      <4>2. Expected(ts, q, 0) = Expected(ts, q, r) \/ (Expected(ts, q, 0) = 0 /\ Expected(ts, q, r) \in {0, r})
        BY DEF Expected, Received
      <4>3. Holds(serverRoot[token[v]], Expected(ts, q, 0), refused'[v])
        BY <1>21, <2>4, <4>1, <4>2 DEF Holds
      <4> QED
        BY <1>1, <1>2, <2>2, <4>3
    <3> QED
      BY <1>16, <3>1, <3>2, <3>3, <3>4, <3>5 DEF SessionSound
  <2> QED
    BY <2>3, <2>4
<1> QED
  BY <1>0, <1>16, <1>17, <1>21, StoreStep

\* A request is served, if the session is still there; or a closure is refused.
ServedWell(v, t, n) ==
    /\ token[v] \in sessions =>
          serverRoot' = [serverRoot EXCEPT ![token[v]] = Received(t, n, serverRoot[token[v]])]
    /\ token[v] \notin sessions => serverRoot' = serverRoot
    /\ refused' = refused
ServedNot(v, t) ==
    /\ t.kind = "close" /\ serverRoot' = serverRoot
    /\ refused' = [refused EXCEPT ![v] = refused[v] \cup {t.root}]

\* The session holds what its store will know of, or what it will have given up.
LEMMA HoldsServed ==
  ASSUME NEW x, NEW r, NEW rs, Holds(x, r, rs), NEW t, NEW n, NEW y, NEW us,
         \/ y = Received(t, n, x) /\ us = rs
         \/ t.kind = "close" /\ y = x /\ us = rs \cup {t.root}
  PROVE  Holds(y, Received(t, n, r), us)
<1>1. CASE y = Received(t, n, x) /\ us = rs
  BY <1>1 DEF Holds, Received
<1>2. CASE t.kind = "close" /\ y = x /\ us = rs \cup {t.root}
  BY <1>2 DEF Holds, Received
<1> QED
  BY <1>1, <1>2

\* What the answer to a request does to the root of the session.
LEMMA ServedTask ==
  ASSUME IInv, NEW v \in Viewers, Serve(v), NEW ts, ts = tasks[v], NEW q, q = queue[v],
         NEW n, n = Head(q)
  PROVE  \E t \in TaskRecords(Len(ts)) :
           /\ t.kind = ts[n].kind /\ t.awaited = ts[n].awaited /\ t.pc = "answered"
           /\ t.kind = "open" => t.root \in {0, n}
           /\ t.kind = "close" => t.root = ts[n].root
           /\ t.kind = "open" /\ token[v] \notin sessions => t.root = 0
           /\ tasks' = [tasks EXCEPT ![v] = With(ts, n, t)]
           /\ ServedWell(v, t, n) \/ ServedNot(v, t)
<1>0. /\ StoreSound(ts, q) /\ RootsTyped /\ serverRoot \in [Tokens -> Nat]
      /\ q # <<>> /\ ts[n].pc = "queued"
  BY DEF IInv, RootSound, ServerTyped, Serve
<1>1. n \in 1..Len(ts) /\ ts[n] \in TaskRecords(Len(ts)) /\ Len(ts) \in Nat /\ TaskSound(ts[n], n)
  <2>1. n \in 1..Len(ts)
    BY <1>0, QueueFacts
  <2>2. TasksSound(ts)
    BY <1>0 DEF StoreSound
  <2> QED
    BY <2>1, <2>2, TaskTyped DEF TasksSound
<1>2. /\ "answered" \in Steps /\ ts[n].root \in 0..Len(ts) /\ n \in 0..Len(ts)
      /\ ts[n].kind \in {"open", "close"}
  BY <1>1 DEF Steps, TaskRecords
<1>3. CASE /\ ts[n].kind = "open" /\ token[v] \in sessions
           /\ serverRoot' = [serverRoot EXCEPT ![token[v]] = n]
           /\ tasks' = [tasks EXCEPT ![v][n].pc = "answered", ![v][n].root = n]
           /\ refused' = refused
  <2>1. PICK t : t = Moved(ts[n], "answered", n)
    OBVIOUS
  <2>2. /\ t \in TaskRecords(Len(ts)) /\ t.kind = ts[n].kind /\ t.awaited = ts[n].awaited
        /\ t.pc = "answered" /\ t.root = n
    BY <1>1, <1>2, <2>1, TaskMoved
  <2>3. tasks' = [tasks EXCEPT ![v] = With(ts, n, t)]
    <3>1. PICK a : a = [ts EXCEPT ![n].pc = "answered"]
      OBVIOUS
    <3>2. PICK b : b = [a EXCEPT ![n].root = n]
      OBVIOUS
    <3>3. b = With(ts, n, t)
      <4>1. PICK R : R = TaskRecords(Len(ts))
        OBVIOUS
      <4>2. ts \in Seq(R)
        BY <1>0, <4>1 DEF StoreSound, TasksSound
      <4>3. ts = [m \in 1..Len(ts) |-> ts[m]]
        BY <4>2
      <4>4. a = [m \in 1..Len(ts) |-> IF m = n THEN [ts[n] EXCEPT !.pc = "answered"] ELSE ts[m]]
        BY <1>1, <3>1, <4>3
      <4>5. b = [m \in 1..Len(ts) |-> IF m = n THEN [[ts[n] EXCEPT !.pc = "answered"] EXCEPT !.root = n]
                                        ELSE ts[m]]
        BY <1>1, <3>2, <4>4
      <4>6. t = [[ts[n] EXCEPT !.pc = "answered"] EXCEPT !.root = n]
        BY <2>1 DEF Moved
      <4>7. With(ts, n, t) = [m \in 1..Len(ts) |-> IF m = n THEN t ELSE ts[m]]
        BY <1>1, <4>3 DEF With
      <4> QED
        BY <4>5, <4>6, <4>7
    <3>4. tasks' = [tasks EXCEPT ![v] = b]
      <4>1. PICK f : f = [tasks EXCEPT ![v][n].pc = "answered"]
        OBVIOUS
      <4>2. f = [u \in Viewers |-> IF u = v THEN a ELSE tasks[u]]
        BY <1>0, <3>1, <4>1 DEF RootsTyped
      <4>3. tasks' = [f EXCEPT ![v][n].root = n]
        BY <1>3, <4>1
      <4>4. tasks' = [u \in Viewers |-> IF u = v THEN b ELSE tasks[u]]
        BY <3>2, <4>2, <4>3
      <4>5. [tasks EXCEPT ![v] = b] = [u \in Viewers |-> IF u = v THEN b ELSE tasks[u]]
        BY <1>0 DEF RootsTyped
      <4> QED
        BY <4>4, <4>5
    <3> QED
      BY <3>3, <3>4
  <2>4. Received(t, n, serverRoot[token[v]]) = n
    BY <1>1, <1>3, <2>2 DEF Received
  <2> QED
    BY <1>3, <2>2, <2>3, <2>4 DEF ServedWell
<1>4. CASE /\ ts[n].kind = "open" /\ serverRoot' = serverRoot /\ refused' = refused
           /\ tasks' = [tasks EXCEPT ![v][n].pc = "answered"]
  <2>1. PICK t : t = Stepped(ts[n], "answered")
    OBVIOUS
  <2>2. /\ t \in TaskRecords(Len(ts)) /\ t.kind = ts[n].kind /\ t.awaited = ts[n].awaited
        /\ t.pc = "answered" /\ t.root = ts[n].root
    BY <1>1, <1>2, <2>1, TaskMoved
  <2>3. tasks' = [tasks EXCEPT ![v] = With(ts, n, t)]
    BY <1>0, <1>4, <2>1 DEF With, Stepped, RootsTyped
  <2>4. t.root = 0
    BY <1>0, <1>1, <1>4, <2>2 DEF TaskSound
  <2>5. Received(t, n, serverRoot[token[v]]) = serverRoot[token[v]]
    BY <1>4, <2>2, <2>4 DEF Received
  <2>6. serverRoot' = [serverRoot EXCEPT ![token[v]] = serverRoot[token[v]]]
    BY <1>0, <1>4
  <2> QED
    BY <1>4, <2>2, <2>3, <2>4, <2>5, <2>6 DEF ServedWell
<1>5. CASE /\ ts[n].kind # "open"
           /\ serverRoot' = IF token[v] \in sessions /\ serverRoot[token[v]] = ts[n].root
                            THEN [serverRoot EXCEPT ![token[v]] = 0] ELSE serverRoot
           /\ tasks' = [tasks EXCEPT ![v][n].pc = "answered"] /\ refused' = refused
  <2>1. PICK t : t = Stepped(ts[n], "answered")
    OBVIOUS
  <2>2. /\ t \in TaskRecords(Len(ts)) /\ t.kind = ts[n].kind /\ t.awaited = ts[n].awaited
        /\ t.pc = "answered" /\ t.root = ts[n].root
    BY <1>1, <1>2, <2>1, TaskMoved
  <2>3. tasks' = [tasks EXCEPT ![v] = With(ts, n, t)]
    BY <1>0, <1>5, <2>1 DEF With, Stepped, RootsTyped
  <2>4. ASSUME token[v] \in sessions
        PROVE  serverRoot' = [serverRoot EXCEPT ![token[v]] = Received(t, n, serverRoot[token[v]])]
    <3>1. CASE serverRoot[token[v]] = ts[n].root
      <4>1. Received(t, n, serverRoot[token[v]]) = 0
        BY <1>5, <2>2, <3>1 DEF Received
      <4> QED
        BY <1>5, <2>4, <3>1, <4>1
    <3>2. CASE serverRoot[token[v]] # ts[n].root
      <4>1. Received(t, n, serverRoot[token[v]]) = serverRoot[token[v]]
        BY <1>5, <2>2, <3>2 DEF Received
      <4> QED
        BY <1>0, <1>5, <2>4, <3>2, <4>1
    <3> QED
      BY <3>1, <3>2
  <2>5. token[v] \notin sessions => serverRoot' = serverRoot
    BY <1>5
  <2> QED
    BY <1>2, <1>5, <2>2, <2>3, <2>4, <2>5 DEF ServedWell
<1>6. CASE /\ ts[n].kind # "open" /\ serverRoot' = serverRoot /\ Refuse(v, ts[n].root)
           /\ tasks' = [tasks EXCEPT ![v][n].pc = "answered"]
  <2>1. PICK t : t = Stepped(ts[n], "answered")
    OBVIOUS
  <2>2. /\ t \in TaskRecords(Len(ts)) /\ t.kind = ts[n].kind /\ t.awaited = ts[n].awaited
        /\ t.pc = "answered" /\ t.root = ts[n].root
    BY <1>1, <1>2, <2>1, TaskMoved
  <2>3. tasks' = [tasks EXCEPT ![v] = With(ts, n, t)]
    BY <1>0, <1>6, <2>1 DEF With, Stepped, RootsTyped
  <2>4. ServedNot(v, t)
    BY <1>2, <1>6, <2>2 DEF ServedNot, Refuse, Update
  <2> QED
    BY <1>2, <1>6, <2>2, <2>3, <2>4
<1> QED
  BY <1>3, <1>4, <1>5, <1>6 DEF Serve

\* The companion serves a request.
LEMMA ServeStep ==
  ASSUME IInv, NEW v \in Viewers, Serve(v)
  PROVE  IInv'
<1>0. /\ ServerTyped /\ LinkTyped /\ RootsTyped /\ TokensSound /\ RootSound(v) /\ SessionSound(v)
      /\ UNCHANGED <<sessions, granted, losses, phase, token, newToken, previous, stopped, again,
                     shown, serverRootId, queue>>
      /\ queue[v] # <<>> /\ tasks[v][Head(queue[v])].pc = "queued"
  BY DEF IInv, Serve, linkVars
<1>1. PICK ts : ts = tasks[v]
  OBVIOUS
<1>2. PICK q : q = queue[v]
  OBVIOUS
<1>3. PICK s : s = shown[v]
  OBVIOUS
<1>4. PICK r : r = serverRootId[v]
  OBVIOUS
<1>5. PICK n : n = Head(q)
  OBVIOUS
<1>6. /\ StoreSound(ts, q) /\ Len(ts) \in Nat /\ s \in 0..Len(ts) /\ r \in 0..Len(ts) /\ r \in Nat
      /\ ~stopped[v] /\ s # 0 => ShownSound(ts, q, s, r)
      /\ ClosureSound(ts, q, r) /\ q # <<>> /\ ts[n].pc = "queued"
  BY <1>0, <1>1, <1>2, <1>3, <1>4, <1>5 DEF RootSound, RootsTyped, StoreSound, TasksSound
<1>7. PICK t \in TaskRecords(Len(ts)) :
        /\ t.kind = ts[n].kind /\ t.awaited = ts[n].awaited /\ t.pc = "answered"
        /\ t.kind = "open" => t.root \in {0, n}
        /\ t.kind = "close" => t.root = ts[n].root
        /\ t.kind = "open" /\ token[v] \notin sessions => t.root = 0
        /\ tasks' = [tasks EXCEPT ![v] = With(ts, n, t)]
        /\ ServedWell(v, t, n) \/ ServedNot(v, t)
  BY <1>1, <1>2, <1>5, ServedTask
<1>8. PICK us : us = With(ts, n, t)
  OBVIOUS
<1>9. /\ StoreSound(us, q) /\ Len(us) = Len(ts) /\ n \in 1..Len(ts)
      /\ us[n] = t /\ \A m \in 1..Len(ts) : m # n => us[m] = ts[m]
      /\ \A x : Expected(ts, q, x) = x /\ Expected(us, q, x) = Received(t, n, x)
      /\ ClosureSound(us, q, r)
      /\ ShownSound(ts, q, s, r) => ShownSound(us, q, s, r)
  <2>1. /\ StoreSound(us, q) /\ Len(us) = Len(ts) /\ n \in 1..Len(ts)
        /\ us[n] = t /\ \A m \in 1..Len(ts) : m # n => us[m] = ts[m]
        /\ \A x : Expected(ts, q, x) = x /\ Expected(us, q, x) = Received(t, n, x)
        /\ \A x \in Nat : ClosureSound(ts, q, x) => ClosureSound(us, q, x)
        /\ \A y, x : ShownSound(ts, q, y, x) => ShownSound(us, q, y, x)
    BY <1>5, <1>6, <1>7, <1>8, RequestServed
  <2> QED
    BY <1>6, <2>1
<1>10. /\ tasks' = [tasks EXCEPT ![v] = us] /\ queue' = [queue EXCEPT ![v] = q]
       /\ shown' = [shown EXCEPT ![v] = s] /\ serverRootId' = [serverRootId EXCEPT ![v] = r]
  BY <1>0, <1>2, <1>3, <1>4, <1>7, <1>8 DEF RootsTyped
<1>11. /\ s \in 0..Len(us) /\ r \in 0..Len(us) /\ Len(us) \in Nat /\ Len(tasks[v]) <= Len(us)
       /\ ~stopped[v] /\ s # 0 => ShownSound(us, q, s, r)
  BY <1>1, <1>6, <1>9
<1>19. /\ refused' \in [Viewers -> SUBSET Nat]
       /\ \A u \in Viewers : u # v => refused'[u] = refused[u]
       /\ ServedWell(v, t, n) => refused'[v] = refused[v]
       /\ ServedNot(v, t) => refused'[v] = refused[v] \cup {t.root}
  <2>1. refused \in [Viewers -> SUBSET Nat]
    BY <1>0 DEF RootsTyped
  <2>2. t.root \in Nat
    BY <1>6, <1>7 DEF TaskRecords
  <2>3. CASE refused' = refused
    <3>1. ASSUME ServedNot(v, t) PROVE refused'[v] = refused[v] \cup {t.root}
      BY <2>1, <3>1 DEF ServedNot
    <3> QED
      BY <2>1, <2>3, <3>1
  <2>4. CASE refused' = [refused EXCEPT ![v] = refused[v] \cup {t.root}]
    <3>1. ASSUME ServedWell(v, t, n) PROVE refused'[v] = refused[v]
      BY <3>1 DEF ServedWell
    <3>2. refused[v] \cup {t.root} \in SUBSET Nat
      BY <2>1, <2>2
    <3> QED
      BY <2>1, <2>4, <3>1, <3>2
  <2> QED
    BY <1>7, <2>3, <2>4 DEF ServedWell, ServedNot
<1>12. /\ RootsTyped' /\ \A u \in Viewers : RootSound(u)'
       /\ tasks'[v] = us /\ queue'[v] = q /\ shown'[v] = s /\ serverRootId'[v] = r
       /\ \A u \in Viewers : u # v => /\ tasks'[u] = tasks[u] /\ queue'[u] = queue[u]
                                      /\ serverRootId'[u] = serverRootId[u]
  BY <1>0, <1>9, <1>10, <1>11, <1>19, OtherStores
<1>13. sessions \subseteq Tokens /\ (\A x \in sessions : x # 0 /\ x \in 1..granted) /\ granted \in Nat
  <2>1. sessions \subseteq 1..granted /\ granted \in 0..MaxSessions /\ MaxSessions \in Nat
    BY <1>0, BoundsAssumption DEF ServerTyped
  <2> QED
    BY <2>1 DEF Tokens
<1>14. token[v] \in sessions =>
         /\ serverRoot[token[v]] \in Nat /\ Received(t, n, serverRoot[token[v]]) \in Nat
  <2>1. ASSUME token[v] \in sessions PROVE serverRoot[token[v]] \in Nat
    BY <1>0, <1>13, <2>1 DEF ServerTyped
  <2>2. ASSUME NEW x \in Nat PROVE Received(t, n, x) \in Nat
    BY <1>6, <1>9 DEF Received
  <2> QED
    BY <2>1, <2>2
<1>15. /\ serverRoot' \in [Tokens -> Nat]
       /\ \A x \in Tokens : x # token[v] \/ token[v] \notin sessions => serverRoot'[x] = serverRoot[x]
       /\ token[v] \in sessions =>
             \/ /\ serverRoot'[token[v]] = Received(t, n, serverRoot[token[v]])
                /\ refused'[v] = refused[v]
             \/ /\ t.kind = "close" /\ serverRoot'[token[v]] = serverRoot[token[v]]
                /\ refused'[v] = refused[v] \cup {t.root}
  <2>1. CASE token[v] \in sessions /\ ServedWell(v, t, n)
    <3>1. serverRoot' = [serverRoot EXCEPT ![token[v]] = Received(t, n, serverRoot[token[v]])]
      BY <2>1 DEF ServedWell
    <3> QED
      BY <1>0, <1>13, <1>14, <1>19, <2>1, <3>1 DEF ServerTyped
  <2>2. CASE token[v] \notin sessions /\ ServedWell(v, t, n)
    <3>1. serverRoot' = serverRoot
      BY <2>2 DEF ServedWell
    <3> QED
      BY <1>0, <2>2, <3>1 DEF ServerTyped
  <2>3. CASE ServedNot(v, t)
    <3>1. t.kind = "close" /\ serverRoot' = serverRoot
      BY <2>3 DEF ServedNot
    <3> QED
      BY <1>0, <1>19, <2>3, <3>1 DEF ServerTyped
  <2> QED
    BY <1>7, <2>1, <2>2, <2>3
<1>16. ServerTyped' /\ LinkTyped'
  BY <1>0, <1>15 DEF ServerTyped, LinkTyped
<1>17. TokensSound'
  <2>1. ASSUME NEW x \in Tokens, x > granted \/ (\E u \in Viewers : newToken[u] = x)
        PROVE  serverRoot'[x] = 0
    <3>1. x # token[v] \/ token[v] \notin sessions
      BY <1>0, <1>13, <2>1 DEF TokensSound
    <3>2. serverRoot[x] = 0
      BY <1>0, <2>1 DEF TokensSound
    <3> QED
      BY <1>15, <3>1, <3>2
  <2> QED
    BY <1>0, <2>1 DEF TokensSound
<1>18. ASSUME NEW u \in Viewers PROVE SessionSound(u)'
  <2>1. CASE u # v
    <3>1. token[u] \in sessions => serverRoot'[token[u]] = serverRoot[token[u]]
      <4>1. ASSUME token[u] \in sessions PROVE token[u] # token[v] /\ token[u] \in Tokens
        BY <1>0, <1>13, <2>1, <4>1 DEF TokensSound
      <4> QED
        BY <1>15, <4>1
    <3> QED
      BY <1>0, <1>12, <1>19, <2>1, <3>1, SessionsUntouched
  <2>2. CASE u = v
    <3>1. ASSUME phase[v] \in {"fresh", "posting", "granted"}
          PROVE  token[v] = 0 /\ r = 0 /\ NoOpening(us)
      <4>1. token[v] = 0 /\ r = 0 /\ NoOpening(ts)
        BY <1>0, <1>1, <1>4, <3>1 DEF SessionSound
      <4>2. token[v] \notin sessions
        BY <1>13, <4>1
      <4> QED
        BY <1>7, <1>9, <4>1, <4>2 DEF NoOpening
    <3>2. ASSUME phase[v] \in {"reposting", "regranted"}
          PROVE  token[v] \notin sessions /\ Expected(us, q, 0) = 0
      <4>1. token[v] \notin sessions
        BY <1>0, <3>2 DEF SessionSound
      <4>2. Received(t, n, 0) = 0
        BY <1>7, <4>1 DEF Received
      <4> QED
        BY <1>9, <4>1, <4>2
    <3>3. ASSUME token[v] \in sessions
          PROVE  Holds(serverRoot'[token[v]], Expected(us, q, r), refused'[v])
      <4>1. Holds(serverRoot[token[v]], Expected(ts, q, r), refused[v])
        BY <1>0, <1>1, <1>2, <1>4, <3>3 DEF SessionSound
      <4>2. Holds(serverRoot[token[v]], r, refused[v])
        BY <1>9, <4>1
      <4>3. Holds(serverRoot'[token[v]], Received(t, n, r), refused'[v])
        BY <1>15, <3>3, <4>2, HoldsServed
      <4> QED
        BY <1>9, <4>3
    <3> QED
      BY <1>0, <1>12, <2>2, <3>1, <3>2, <3>3 DEF SessionSound
  <2> QED
    BY <2>1, <2>2
<1> QED
  BY <1>12, <1>16, <1>17, <1>18 DEF IInv

\* The store receives an answer.
LEMMA ReceiveStep ==
  ASSUME IInv, NEW v \in Viewers, Receive(v)
  PROVE  IInv'
<1>0. /\ ServerTyped /\ LinkTyped /\ RootsTyped /\ TokensSound /\ RootSound(v) /\ SessionSound(v)
      /\ UNCHANGED <<sessions, granted, serverRoot, losses, phase, token, newToken, previous, stopped, refused>>
      /\ queue[v] # <<>> /\ tasks[v][Head(queue[v])].pc = "answered"
  BY DEF IInv, Receive, linkVars, serverVars
<1>1. PICK ts : ts = tasks[v]
  OBVIOUS
<1>2. PICK q : q = queue[v]
  OBVIOUS
<1>3. PICK s : s = shown[v]
  OBVIOUS
<1>4. PICK r : r = serverRootId[v]
  OBVIOUS
<1>5. PICK n : n = Head(q)
  OBVIOUS
<1>6. /\ StoreSound(ts, q) /\ Len(ts) \in Nat /\ s \in 0..Len(ts) /\ r \in 0..Len(ts) /\ r \in Nat
      /\ ~stopped[v] /\ s # 0 => ShownSound(ts, q, s, r)
      /\ ClosureSound(ts, q, r) /\ q # <<>> /\ ts[n].pc = "answered"
  BY <1>0, <1>1, <1>2, <1>3, <1>4, <1>5 DEF RootSound, RootsTyped, StoreSound, TasksSound
<1>7. n \in 1..Len(ts) /\ ts[n] \in TaskRecords(Len(ts)) /\ ts[n].root \in 0..Len(ts)
  <2>1. n \in 1..Len(ts)
    BY <1>5, <1>6, QueueFacts
  <2>2. ts[n] \in TaskRecords(Len(ts))
    BY <1>6, <2>1, TaskTyped DEF StoreSound
  <2> QED
    BY <2>1, <2>2 DEF TaskRecords
<1>8. PICK t : t = Stepped(ts[n], "done")
  OBVIOUS
<1>9. /\ t \in TaskRecords(Len(ts)) /\ t.kind = ts[n].kind /\ t.awaited = ts[n].awaited
      /\ t.pc = "done" /\ t.root = ts[n].root
  <2>1. "done" \in Steps
    BY DEF Steps
  <2> QED
    BY <1>6, <1>7, <1>8, <2>1, TaskMoved
<1>10. PICK us : us = With(ts, n, t)
  OBVIOUS
<1>11. PICK p : p = Shorter(q)
  OBVIOUS
<1>12. PICK x : x = Received(t, n, r)
  OBVIOUS
<1>13. PICK y : y = IF t.kind = "open" /\ t.root # 0 /\ n = Len(ts) /\ ~stopped[v] THEN n ELSE s
  OBVIOUS
<1>14. /\ StoreSound(us, p) /\ Len(us) = Len(ts)
       /\ us[n] = t /\ \A m \in 1..Len(ts) : m # n => us[m] = ts[m]
       /\ \A z : Expected(us, p, z) = z
       /\ Expected(ts, q, r) = x /\ ClosureSound(us, p, x)
       /\ t.kind = "open" /\ t.root # 0 /\ n = Len(ts) => ShownSound(us, p, n, x)
       /\ ~(t.kind = "open" /\ t.root # 0 /\ n = Len(ts)) =>
             (ShownSound(ts, q, s, r) => ShownSound(us, p, s, x))
  <2>0. StoreSound(ts, q) /\ q # <<>> /\ ts[n].pc = "answered"
    BY <1>6
  <2>1. /\ StoreSound(us, p) /\ Len(us) = Len(ts)
        /\ us[n] = t /\ \A m \in 1..Len(ts) : m # n => us[m] = ts[m]
    BY <1>5, <1>9, <1>10, <1>11, <2>0, AnswerReceived
  <2>2. \A z : Expected(us, p, z) = z
    <3>1. ~AnswersHead(us, p)
      BY <1>5, <1>9, <1>10, <1>11, <2>0, AnswerReceived
    <3> QED
      BY <3>1 DEF Expected
  <2>3. Expected(ts, q, r) = x
    BY <1>5, <1>6, <1>9, <1>10, <1>11, <1>12, <2>0, AnswerReceived
  <2>4. ClosureSound(us, p, x)
    BY <1>5, <1>6, <1>9, <1>10, <1>11, <1>12, <2>0, AnswerReceived
  <2>5. t.kind = "open" /\ t.root # 0 /\ n = Len(ts) => ShownSound(us, p, n, x)
    BY <1>5, <1>9, <1>10, <1>11, <1>12, <2>0, AnswerReceived
  <2>6. ~(t.kind = "open" /\ t.root # 0 /\ n = Len(ts)) =>
           (ShownSound(ts, q, s, r) => ShownSound(us, p, s, x))
    BY <1>5, <1>9, <1>10, <1>11, <1>12, <2>0, AnswerReceived
  <2> QED
    BY <2>1, <2>2, <2>3, <2>4, <2>5, <2>6
<1>15. /\ tasks' = [tasks EXCEPT ![v] = us] /\ queue' = [queue EXCEPT ![v] = p]
       /\ shown' = [shown EXCEPT ![v] = y] /\ serverRootId' = [serverRootId EXCEPT ![v] = x]
  <2>1. tasks' = [tasks EXCEPT ![v] = us]
    BY <1>0, <1>1, <1>2, <1>5, <1>8, <1>10 DEF Receive, With, Stepped, RootsTyped
  <2>2. queue' = [queue EXCEPT ![v] = p]
    BY <1>2, <1>11 DEF Receive, Update, Shorter
  <2>3. ShownIfLatest(v, n) <=> t.kind = "open" /\ t.root # 0 /\ n = Len(ts) /\ ~stopped[v]
    BY <1>1, <1>9 DEF ShownIfLatest, Latest, RootRevision
  <2>4. shown' = [shown EXCEPT ![v] = y]
    <3>1. shown' = IF ShownIfLatest(v, n) THEN [shown EXCEPT ![v] = n] ELSE shown
      BY <1>2, <1>5 DEF Receive, Update
    <3> QED
      BY <1>0, <1>3, <1>13, <2>3, <3>1 DEF RootsTyped
  <2>5. serverRootId' = [serverRootId EXCEPT ![v] = x]
    <3>1. serverRootId' = [serverRootId EXCEPT ![v] =
            IF ts[n].kind = "open" THEN IF ts[n].root # 0 THEN n ELSE r
            ELSE IF r = ts[n].root THEN 0 ELSE r]
      BY <1>1, <1>2, <1>4, <1>5 DEF Receive, Update
    <3>2. x = IF ts[n].kind = "open" THEN IF ts[n].root # 0 THEN n ELSE r
              ELSE IF r = ts[n].root THEN 0 ELSE r
      BY <1>9, <1>12 DEF Received
    <3> QED
      BY <3>1, <3>2
  <2> QED
    BY <2>1, <2>2, <2>4, <2>5
<1>16. /\ y \in 0..Len(us) /\ x \in 0..Len(us) /\ Len(us) \in Nat /\ Len(tasks[v]) <= Len(us)
       /\ ~stopped[v] /\ y # 0 => ShownSound(us, p, y, x)
  <2>1. x \in {0, n, r}
    BY <1>12 DEF Received
  <2>2. y \in {n, s}
    BY <1>13
  <2>3. y \in 0..Len(us) /\ x \in 0..Len(us) /\ Len(us) \in Nat /\ Len(tasks[v]) <= Len(us)
    BY <1>1, <1>6, <1>7, <1>14, <2>1, <2>2
  <2>4. ASSUME ~stopped[v], y # 0 PROVE ShownSound(us, p, y, x)
    <3>1. CASE t.kind = "open" /\ t.root # 0 /\ n = Len(ts)
      <4>1. y = n
        BY <1>13, <2>4, <3>1
      <4> QED
        BY <1>14, <3>1, <4>1
    <3>2. CASE ~(t.kind = "open" /\ t.root # 0 /\ n = Len(ts))
      <4>1. y = s
        BY <1>13, <3>2
      <4> QED
        BY <1>6, <1>14, <2>4, <3>2, <4>1
    <3> QED
      BY <3>1, <3>2
  <2> QED
    BY <2>3, <2>4
<1>17. /\ RootsTyped' /\ \A u \in Viewers : RootSound(u)'
       /\ tasks'[v] = us /\ queue'[v] = p /\ shown'[v] = y /\ serverRootId'[v] = x
       /\ \A u \in Viewers : u # v => /\ tasks'[u] = tasks[u] /\ queue'[u] = queue[u]
                                      /\ serverRootId'[u] = serverRootId[u]
  <2>1. StoreSound(us, p) /\ ClosureSound(us, p, x)
    BY <1>14
  <2>2. UNCHANGED <<stopped, previous, refused>>
    BY <1>0
  <2> QED
    BY <1>15, <1>16, <2>1, <2>2, OtherStores
<1>18. SessionSound(v)'
  <2>1. ASSUME phase[v] \in {"fresh", "posting", "granted"}
        PROVE  token[v] = 0 /\ x = 0 /\ NoOpening(us)
    <3>1. token[v] = 0 /\ r = 0 /\ NoOpening(ts)
      BY <1>0, <1>1, <1>4, <2>1 DEF SessionSound
    <3>2. t.kind = "open" => t.root = 0
      BY <1>7, <1>9, <3>1 DEF NoOpening
    <3>3. x = 0
      BY <1>12, <3>1, <3>2 DEF Received
    <3>4. NoOpening(us)
      BY <1>14, <3>1, <3>2 DEF NoOpening
    <3> QED
      BY <3>1, <3>3, <3>4
  <2>2. ASSUME phase[v] \in {"reposting", "regranted"}
        PROVE  token[v] \notin sessions /\ Expected(us, p, 0) = 0
    BY <1>0, <1>14, <2>2 DEF SessionSound
  <2>3. ASSUME token[v] \in sessions
        PROVE  Holds(serverRoot[token[v]], Expected(us, p, x), refused[v])
    <3>1. Holds(serverRoot[token[v]], Expected(ts, q, r), refused[v])
      BY <1>0, <1>1, <1>2, <1>4, <2>3 DEF SessionSound
    <3> QED
      BY <1>14, <3>1
  <2> QED
    BY <1>0, <1>17, <2>1, <2>2, <2>3 DEF SessionSound
<1> QED
  BY <1>0, <1>17, <1>18, StoreStep

\* The answer to a request for another session: what was on show is opened again.
LEMMA ReinitializedStep ==
  ASSUME IInv, NEW v \in Viewers, Reinitialized(v)
  PROVE  IInv'
<1>0. /\ ServerTyped /\ LinkTyped /\ RootsTyped /\ TokensSound /\ RootSound(v) /\ SessionSound(v)
      /\ UNCHANGED <<sessions, granted, serverRoot, losses, previous, stopped, queue, refused>>
      /\ token' = [token EXCEPT ![v] = newToken[v]] /\ newToken' = [newToken EXCEPT ![v] = 0]
      /\ phase[v] = "regranted"
      /\ phase' = [phase EXCEPT ![v] = IF stopped[v] THEN "gone" ELSE "connecting"]
  BY DEF IInv, Reinitialized, serverVars, Update
<1>1. PICK ts : ts = tasks[v]
  OBVIOUS
<1>2. PICK q : q = queue[v]
  OBVIOUS
<1>3. PICK z : z = 0
  OBVIOUS
<1>4. /\ StoreSound(ts, q) /\ Len(ts) \in Nat /\ ClosureSound(ts, q, serverRootId[v])
      /\ Expected(ts, q, 0) = 0
  BY <1>0, <1>1, <1>2 DEF RootSound, SessionSound, StoreSound, TasksSound
<1>13. PICK us : us = IF previous[v] = 0 \/ stopped[v] THEN ts
                      ELSE Added(ts, "open", PendingIn(ts, "close"))
  OBVIOUS
<1>5. /\ tasks' = [tasks EXCEPT ![v] = us] /\ StoreSound(us, q)
      /\ Len(us) \in Nat /\ Len(ts) <= Len(us)
      /\ ClosureSound(us, q, 0) /\ Expected(us, q, 0) = 0
  <2>1. CASE previous[v] = 0 \/ stopped[v]
    <3>1. us = ts
      BY <1>13, <2>1
    <3>2. tasks' = [tasks EXCEPT ![v] = us]
      BY <1>0, <1>1, <2>1, <3>1 DEF Reinitialized, RootsTyped
    <3>3. ClosureSound(ts, q, 0)
      BY <1>4 DEF ClosureSound
    <3> QED
      BY <1>4, <3>1, <3>2, <3>3
  <2>2. CASE ~(previous[v] = 0 \/ stopped[v])
    <3>1. us = Added(ts, "open", PendingIn(ts, "close"))
      BY <1>13, <2>2
    <3>2. tasks' = [tasks EXCEPT ![v] = us]
      <4>1. Pending(v, "close") = PendingIn(ts, "close")
        BY <1>1, PendingSame
      <4> QED
        BY <1>0, <1>1, <2>2, <3>1, <4>1 DEF Reinitialized, Added
    <3>3. StoreSound(ts, q)
      BY <1>4
    <3>4. StoreSound(us, q) /\ Len(us) = Len(ts) + 1 /\ \A m \in 1..Len(ts) : us[m] = ts[m]
      BY <3>1, <3>3, OpeningAdded
    <3>5. \A x : ClosureSound(us, q, x)
      BY <3>1, <3>3, OpeningAdded
    <3>6. Expected(us, q, 0) = Expected(ts, q, 0)
      <4>1. q # <<>> => Head(q) \in 1..Len(ts)
        BY <3>3, QueueFacts
      <4>2. q # <<>> => us[Head(q)] = ts[Head(q)]
        BY <3>4, <4>1
      <4> QED
        BY <4>2 DEF Expected, AnswersHead
    <3> QED
      BY <1>4, <3>2, <3>4, <3>5, <3>6
  <2> QED
    BY <2>1, <2>2
<1>6. /\ queue' = [queue EXCEPT ![v] = q] /\ shown' = [shown EXCEPT ![v] = z]
      /\ serverRootId' = [serverRootId EXCEPT ![v] = z] /\ UNCHANGED <<stopped, previous>>
  BY <1>0, <1>2, <1>3 DEF Reinitialized, Update, RootsTyped
<1>7. /\ z \in 0..Len(us) /\ Len(us) \in Nat /\ Len(tasks[v]) <= Len(us)
      /\ ~stopped[v] /\ z # 0 => ShownSound(us, q, z, z)
  BY <1>1, <1>3, <1>5
<1>8. ClosureSound(us, q, z) /\ StoreSound(us, q) /\ tasks' = [tasks EXCEPT ![v] = us]
  BY <1>3, <1>5
<1>9. /\ RootsTyped' /\ \A u \in Viewers : RootSound(u)'
      /\ tasks'[v] = us /\ queue'[v] = q /\ shown'[v] = z /\ serverRootId'[v] = z
      /\ \A u \in Viewers : u # v => /\ tasks'[u] = tasks[u] /\ queue'[u] = queue[u]
                                     /\ serverRootId'[u] = serverRootId[u]
  BY <1>0, <1>6, <1>7, <1>8, OtherStores
<1>10. /\ TokensSound'
       /\ token'[v] \in sessions' => serverRoot'[token'[v]] = 0
       /\ token' \in [Viewers -> 0..granted'] /\ newToken' \in [Viewers -> 0..granted']
       /\ \A u \in Viewers : u # v => token'[u] = token[u]
  <2>1. /\ UNCHANGED granted /\ \A t \in Tokens : serverRoot'[t] \in {0, serverRoot[t]}
        /\ \A t \in sessions' : t \in sessions /\ t \in Tokens /\ serverRoot'[t] = serverRoot[t]
    BY <1>0, BoundsAssumption DEF ServerTyped, Tokens
  <2> QED
    BY <1>0, <2>1, TokenHandled
<1>11. ServerTyped' /\ LinkTyped'
  BY <1>0, <1>10 DEF ServerTyped, LinkTyped
<1>12. ASSUME NEW u \in Viewers PROVE SessionSound(u)'
  <2>1. CASE u # v
    <3>1. phase'[u] = phase[u] /\ token'[u] = token[u]
      BY <1>0, <1>10, <2>1 DEF LinkTyped
    <3> QED
      BY <1>0, <1>9, <2>1, <3>1, SessionsUntouched
  <2>2. CASE u = v
    <3>1. phase'[v] \in {"gone", "connecting"}
      BY <1>0 DEF LinkTyped
    <3> QED
      BY <1>3, <1>5, <1>9, <1>10, <2>2, <3>1 DEF SessionSound, Holds
  <2> QED
    BY <2>1, <2>2
<1> QED
  BY <1>9, <1>10, <1>11, <1>12 DEF IInv
-----------------------------------------------------------------------------
(* Theorems *)

\* The invariant is inductive.
LEMMA NextIInv ==
  ASSUME IInv, [Next]_vars
  PROVE  IInv'
<1>1. CASE UNCHANGED vars
  <2>1. /\ UNCHANGED <<sessions, granted, serverRoot, losses, phase, token, newToken, previous, stopped>>
        /\ UNCHANGED <<tasks, queue, shown, serverRootId, refused>>
    BY <1>1 DEF vars, serverVars, linkVars, rootVars
  <2>2. \A v \in Viewers : RootSound(v)'
    BY <2>1, RootsUntouched
  <2>3. \A v \in Viewers : SessionSound(v)'
    BY <2>1, SessionsUntouched
  <2>4. ServerTyped' /\ LinkTyped' /\ RootsTyped' /\ TokensSound'
    BY <2>1 DEF IInv, ServerTyped, LinkTyped, RootsTyped, TokensSound
  <2> QED
    BY <2>2, <2>3, <2>4 DEF IInv
<1>2. CASE Restart
  BY <1>2, RestartStep
<1>3. CASE \E t \in Tokens : Expire(t)
  BY <1>3, ExpireStep
<1>4. ASSUME NEW v \in Viewers, Viewer(v) PROVE IInv'
  <2>1. CASE Mount(v) \/ Connect(v) \/ Cut(v)
    BY <2>1, SocketStep
  <2>2. CASE Open(v)
    BY <2>2, OpenStep
  <2>3. CASE CloseRoot(v)
    BY <2>3, CloseRootStep
  <2>4. CASE Proceeds(v)
    BY <2>4, ProceedOpenStep, ProceedCloseStep DEF Proceeds
  <2>5. CASE Serve(v)
    BY <2>5, ServeStep
  <2>6. CASE Receive(v)
    BY <2>6, ReceiveStep
  <2>7. CASE Grant(v)
    BY <2>7, GrantStep
  <2>8. CASE Initialized(v)
    BY <2>8, InitializedStep
  <2>9. CASE Reconnect(v)
    BY <2>9, ReconnectStep
  <2>10. CASE Reinitialized(v)
    BY <2>10, ReinitializedStep
  <2>11. CASE Stop(v) \/ StopAgain(v)
    BY <2>11, StopStep
  <2> QED
    BY <1>4, <2>1, <2>2, <2>3, <2>4, <2>5, <2>6, <2>7, <2>8, <2>9, <2>10, <2>11 DEF Viewer, Link
<1> QED
  BY <1>1, <1>2, <1>3, <1>4 DEF Next

\* What a store holds and believes, with the answers in flight, in every behaviour.
THEOREM IInvHolds == Spec => []IInv
<1>1. IInv /\ [Next]_vars => IInv'
  BY NextIInv
<1> QED
  BY InitIInv, <1>1, PTL DEF Spec

\* What each task has come to is one of its steps, and no store knows of a root that it has
\* not asked for.
LEMMA IInvTypeOK == IInv => TypeOK
<1> SUFFICES ASSUME IInv PROVE TypeOK
  OBVIOUS
<1>0. ServerTyped /\ LinkTyped /\ RootsTyped
  BY DEF IInv
<1>1. ASSUME NEW v \in Viewers
      PROVE  /\ {shown[v], serverRootId[v], previous[v]} \subseteq 0..Len(tasks[v])
             /\ \A n \in Numbers(v) :
                   tasks[v][n].pc \in {"awaits", "initializes", "queued", "answered", "done"}
  <2>1. {shown[v], serverRootId[v], previous[v]} \subseteq 0..Len(tasks[v])
    BY <1>0 DEF RootsTyped
  <2>2. ASSUME NEW n \in Numbers(v)
        PROVE  tasks[v][n].pc \in {"awaits", "initializes", "queued", "answered", "done"}
    <3>1. PICK ts : ts = tasks[v]
      OBVIOUS
    <3>2. TasksSound(ts) /\ n \in 1..Len(ts)
      BY <3>1 DEF IInv, RootSound, StoreSound, Numbers
    <3>3. ts[n] \in TaskRecords(Len(ts))
      BY <3>2, TaskTyped
    <3> QED
      BY <3>1, <3>3 DEF TaskRecords, Steps
  <2> QED
    BY <2>1, <2>2
<1> QED
  BY <1>0, <1>1 DEF TypeOK, ServerTyped, LinkTyped, RootsTyped

\* The variables keep their types, and the companion never has more sessions than its
\* limit (lib.rs:353), however many stores ask for one.
THEOREM TypeCorrect == Spec => []TypeOK
BY IInvHolds, IInvTypeOK, PTL

\* A store whose tasks have ended has no request waiting.
LEMMA QuietQueue ==
  ASSUME NEW ts, NEW q, StoreSound(ts, q), \A n \in 1..Len(ts) : ts[n].pc = "done"
  PROVE  q = <<>> /\ \A r : Expected(ts, q, r) = r
<1>1. q = <<>>
  <2>1. ASSUME q # <<>> PROVE FALSE
    <3>1. 1 \in 1..Len(q)
      BY <2>1, QueueFacts
    <3>2. q[1] \in 1..Len(ts) /\ ~Ended(ts, q[1])
      BY <3>1, QueueFacts
    <3> QED
      BY <3>2 DEF Ended
  <2> QED
    BY <2>1
<1> QED
  BY <1>1 DEF Expected, AnswersHead

\* With the tasks ended, the invariant says what RootAgrees does.
LEMMA IInvRootAgrees == IInv => RootAgrees
<1> SUFFICES ASSUME IInv, NEW v \in Viewers, Quiet(v), shown[v] # 0, token[v] \in sessions, ~stopped[v]
             PROVE  /\ serverRoot[token[v]] = serverRootId[v]
                    /\ serverRootId[v] = shown[v] \/ FailedLast(v)
  BY DEF RootAgrees
<1>1. PICK ts : ts = tasks[v]
  OBVIOUS
<1>2. PICK q : q = queue[v]
  OBVIOUS
<1>3. PICK s : s = shown[v]
  OBVIOUS
<1>4. PICK r : r = serverRootId[v]
  OBVIOUS
<1>5. /\ StoreSound(ts, q) /\ Len(ts) \in Nat /\ ShownSound(ts, q, s, r)
      /\ Holds(serverRoot[token[v]], Expected(ts, q, r), refused[v])
  BY <1>1, <1>2, <1>3, <1>4 DEF IInv, RootSound, SessionSound, StoreSound, TasksSound
<1>6. \A n \in 1..Len(ts) : ts[n].pc = "done"
  BY <1>1 DEF Quiet, Numbers
<1>7. serverRoot[token[v]] = r
  <2>1. r # 0
    BY <1>5 DEF ShownSound
  <2>2. Expected(ts, q, r) = r
    BY <1>5, <1>6, QuietQueue
  <2> QED
    BY <1>5, <2>1, <2>2 DEF Holds
<1>8. ASSUME r # s PROVE ts[Len(ts)].kind = "open" /\ ts[Len(ts)].root = 0 /\ s < r
  <2>1. s \in 1..Len(ts) /\ s < r /\ r < Len(ts) /\ r \in Nat
    BY <1>5, <1>8 DEF ShownSound
  <2>2. Len(ts) \in (s + 1)..Len(ts) /\ Len(ts) \in 1..Len(ts) /\ s # Len(ts)
    BY <1>5, <2>1
  <2>3. Ended(ts, Len(ts))
    BY <1>6, <2>2 DEF Ended
  <2> QED
    BY <1>5, <2>1, <2>2, <2>3 DEF ShownSound
<1> QED
  BY <1>1, <1>3, <1>4, <1>7, <1>8 DEF FailedLast

\* A store that is at rest knows which root the companion holds for its session, and shows
\* it, unless an opening that had been superseded succeeded and the one that superseded it
\* failed (viewer-store.ts: the root is recorded when the answer comes, shown if still the
\* latest).
THEOREM RootAgreesHolds == Spec => []RootAgrees
BY IInvHolds, IInvRootAgrees, PTL

\* With the tasks ended, the invariant says what ClosureReleases does.
LEMMA IInvClosureReleases == IInv => ClosureReleases
<1> SUFFICES ASSUME IInv, NEW v \in Viewers, Quiet(v), tasks[v] # <<>>,
                    tasks[v][Len(tasks[v])].kind = "close", token[v] \in sessions,
                    serverRoot[token[v]] # 0
             PROVE  Overtaken(v, serverRoot[token[v]]) \/ serverRoot[token[v]] \in refused[v]
  BY DEF ClosureReleases
<1>1. PICK ts : ts = tasks[v]
  OBVIOUS
<1>2. PICK q : q = queue[v]
  OBVIOUS
<1>3. PICK r : r = serverRootId[v]
  OBVIOUS
<1>4. /\ StoreSound(ts, q) /\ ts \in Seq(TaskRecords(Len(ts))) /\ ClosureSound(ts, q, r)
      /\ Holds(serverRoot[token[v]], Expected(ts, q, r), refused[v])
  BY <1>1, <1>2, <1>3 DEF IInv, RootSound, SessionSound, StoreSound, TasksSound
<1>5. \A n \in 1..Len(ts) : ts[n].pc = "done"
  BY <1>1 DEF Quiet, Numbers
<1>6. serverRoot[token[v]] = r \/ serverRoot[token[v]] \in refused[v]
  <2>1. Expected(ts, q, r) = r
    BY <1>4, <1>5, QuietQueue
  <2> QED
    BY <1>4, <2>1 DEF Holds
<1>7. ts[Len(ts)].pc = "done"
  <2>1. Len(ts) \in 1..Len(ts)
    <3>1. PICK R : R = TaskRecords(Len(ts))
      OBVIOUS
    <3>2. ts \in Seq(R) /\ ts # <<>>
      BY <1>1, <1>4, <3>1
    <3> QED
      BY <3>2
  <2> QED
    BY <1>5, <2>1
<1>8. ASSUME serverRoot[token[v]] = r PROVE OvertakenIn(ts, r)
  BY <1>1, <1>4, <1>7, <1>8 DEF ClosureSound
<1> QED
  BY <1>1, <1>6, <1>8 DEF Overtaken, OvertakenIn

\* The closure asked for last, once it has ended, leaves the companion without a root for
\* the session, or with one of an opening that another one had overtaken, or with one whose
\* closure was refused, by the companion or before it was sent (viewer-store.ts:365-376).
THEOREM ClosureReleasesHolds == Spec => []ClosureReleases
BY IInvHolds, IInvClosureReleases, PTL
==============================================================================

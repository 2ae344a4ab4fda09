---------------------------- MODULE ScanJobProofs ----------------------------
(***************************************************************************)
(* An inventory job runs one scan at a time, and its published inventory   *)
(* never goes back, for any number of handlers, sessions and mutations.    *)
(***************************************************************************)
EXTENDS ScanJob, FiniteSetTheorems, TLAPS

\* At most one task is between the two changes of `running`.
Exclusive ==
    /\ \A s, t \in Scanning : s = t
    /\ running <=> Scanning # {}

\* What a task has read is no newer than the tree, and what it is about to
\* publish no older than the published inventory.
Fresh ==
    /\ snapshot <= version
    /\ \A s \in Scanners : seen[s] <= version /\ (pc[s] = "publish" => snapshot <= seen[s])

IndInv == TypeOK /\ Exclusive /\ Fresh

USE ThreadsAssumption, BoundAssumption

\* The job starts idle, with an inventory of the initial tree.
LEMMA InitIndInv == Init => IndInv
<1> SUFFICES ASSUME Init PROVE IndInv
  OBVIOUS
<1>1. TypeOK
  <2>1. DOMAIN pc = Threads /\ \A t \in Threads : pc[t] \in Labels(t)
    BY DEF Init, Threads, Labels
  <2>2. seen \in [Scanners -> 0..MaxVersion]
    BY DEF Init
  <2>3. running \in BOOLEAN /\ dirty \in BOOLEAN /\ recent \in BOOLEAN /\ open \in BOOLEAN
    BY DEF Init
  <2>4. version \in 0..MaxVersion /\ snapshot \in 0..MaxVersion
    BY DEF Init
  <2>5. cut \subseteq Scanners /\ whole \in BOOLEAN
    BY DEF Init
  <2> QED
    BY <2>1, <2>2, <2>3, <2>4, <2>5 DEF TypeOK
<1>2. Scanning = {}
  BY DEF Init, Scanning, Threads
<1>3. Exclusive
  BY <1>2 DEF Init, Exclusive
<1>4. Fresh
  BY DEF Init, Fresh, Threads
<1> QED
  BY <1>1, <1>3, <1>4 DEF IndInv

\* The types survive every step.
LEMMA TypeOKStep == TypeOK /\ [Next]_vars => TypeOK'
<1> SUFFICES ASSUME TypeOK, [Next]_vars PROVE TypeOK'
  OBVIOUS
<1> USE DEF TypeOK, Set, Threads, Labels, Finished
<1>1. ASSUME NEW m \in Mutators, Mutate(m) \/ Abandon(m) PROVE TypeOK'
  BY <1>1 DEF Mutate, Abandon
<1>2. ASSUME NEW k \in Kickers, Kick(k) PROVE TypeOK'
  BY <1>2 DEF Kick
<1>3. ASSUME NEW t \in Threads, StartScan(t) PROVE TypeOK'
  BY <1>3 DEF StartScan
<1>4. ASSUME NEW t \in Threads, AlreadyRunning(t) PROVE TypeOK'
  BY <1>4 DEF AlreadyRunning
<1>5. ASSUME NEW t \in Threads, MarkDirty(t) PROVE TypeOK'
  BY <1>5 DEF MarkDirty
<1>6. ASSUME NEW s \in Scanners, ScanStep(s) PROVE TypeOK'
  <2>1. CASE ScanRead(s)
    BY <2>1 DEF ScanRead
  <2>2. CASE ScanPublish(s)
    BY <2>2 DEF ScanPublish
  <2>3. CASE ScanStamp(s)
    BY <2>3 DEF ScanStamp
  <2>4. CASE ScanRelease(s)
    BY <2>4 DEF ScanRelease, ClearRunning
  <2>5. CASE ScanFollowUp(s)
    BY <2>5 DEF ScanFollowUp
  <2> QED
    BY <1>6, <2>1, <2>2, <2>3, <2>4, <2>5 DEF ScanStep
<1>7. CASE Minute
  BY <1>7 DEF Minute
<1>8. CASE CloseSession \/ Reopen
  BY <1>8 DEF CloseSession, Reopen
<1>9. CASE UNCHANGED vars
  BY <1>9 DEF vars
<1> QED
  BY <1>1, <1>2, <1>3, <1>4, <1>5, <1>6, <1>7, <1>8, <1>9 DEF Next, Invalidation

\* `running` is swapped to true by one task, and back by that task.
LEMMA ExclusiveStep == TypeOK /\ Exclusive /\ [Next]_vars => Exclusive'
<1> SUFFICES ASSUME TypeOK, Exclusive, [Next]_vars PROVE Exclusive'
  OBVIOUS
<1> USE DEF TypeOK, Exclusive, Scanning, Set, Threads, Labels, Finished
<1>1. ASSUME NEW m \in Mutators, Mutate(m) \/ Abandon(m) PROVE Exclusive'
  BY <1>1 DEF Mutate, Abandon
<1>2. ASSUME NEW k \in Kickers, Kick(k) PROVE Exclusive'
  BY <1>2 DEF Kick
<1>3. ASSUME NEW t \in Threads, StartScan(t) PROVE Exclusive'
  BY <1>3 DEF StartScan
<1>4. ASSUME NEW t \in Threads, AlreadyRunning(t) PROVE Exclusive'
  BY <1>4 DEF AlreadyRunning
<1>5. ASSUME NEW t \in Threads, MarkDirty(t) PROVE Exclusive'
  BY <1>5 DEF MarkDirty
<1>6. ASSUME NEW s \in Scanners, ScanStep(s) PROVE Exclusive'
  <2>1. CASE ScanRead(s)
    BY <2>1 DEF ScanRead
  <2>2. CASE ScanPublish(s)
    BY <2>2 DEF ScanPublish
  <2>3. CASE ScanStamp(s)
    BY <2>3 DEF ScanStamp
  <2>4. CASE ScanRelease(s)
    BY <2>4 DEF ScanRelease, ClearRunning
  <2>5. CASE ScanFollowUp(s)
    BY <2>5 DEF ScanFollowUp
  <2> QED
    BY <1>6, <2>1, <2>2, <2>3, <2>4, <2>5 DEF ScanStep
<1>7. CASE Minute
  BY <1>7 DEF Minute
<1>8. CASE CloseSession \/ Reopen
  BY <1>8 DEF CloseSession, Reopen
<1>9. CASE UNCHANGED vars
  BY <1>9 DEF vars
<1> QED
  BY <1>1, <1>2, <1>3, <1>4, <1>5, <1>6, <1>7, <1>8, <1>9 DEF Next, Invalidation

\* The tree only advances, and no other task publishes in between.
LEMMA FreshStep == IndInv /\ [Next]_vars => Fresh'
<1> SUFFICES ASSUME IndInv, [Next]_vars PROVE Fresh'
  OBVIOUS
<1> USE DEF IndInv, TypeOK, Exclusive, Scanning, Fresh, Set, Threads, Labels, Finished
<1>1. ASSUME NEW m \in Mutators, Mutate(m) \/ Abandon(m) PROVE Fresh'
  BY <1>1 DEF Mutate, Abandon
<1>2. ASSUME NEW k \in Kickers, Kick(k) PROVE Fresh'
  BY <1>2 DEF Kick
<1>3. ASSUME NEW t \in Threads, StartScan(t) PROVE Fresh'
  BY <1>3 DEF StartScan
<1>4. ASSUME NEW t \in Threads, AlreadyRunning(t) PROVE Fresh'
  BY <1>4 DEF AlreadyRunning
<1>5. ASSUME NEW t \in Threads, MarkDirty(t) PROVE Fresh'
  BY <1>5 DEF MarkDirty
<1>6. ASSUME NEW s \in Scanners, ScanStep(s) PROVE Fresh'
  <2>1. CASE ScanRead(s)
    BY <2>1 DEF ScanRead
  <2>2. CASE ScanPublish(s)
    <3>1. snapshot' <= version'
      BY <2>2 DEF ScanPublish
    <3>2. \A t \in Scanners : pc'[t] # "publish"
      BY <2>2 DEF ScanPublish
    <3>3. \A t \in Scanners : seen'[t] <= version'
      BY <2>2 DEF ScanPublish
    <3> QED
      BY <3>1, <3>2, <3>3 DEF Fresh
  <2>3. CASE ScanStamp(s)
    BY <2>3 DEF ScanStamp
  <2>4. CASE ScanRelease(s)
    BY <2>4 DEF ScanRelease, ClearRunning
  <2>5. CASE ScanFollowUp(s)
    BY <2>5 DEF ScanFollowUp
  <2> QED
    BY <1>6, <2>1, <2>2, <2>3, <2>4, <2>5 DEF ScanStep
<1>7. CASE Minute
  BY <1>7 DEF Minute
<1>8. CASE CloseSession \/ Reopen
  BY <1>8 DEF CloseSession, Reopen
<1>9. CASE UNCHANGED vars
  BY <1>9 DEF vars
<1> QED
  BY <1>1, <1>2, <1>3, <1>4, <1>5, <1>6, <1>7, <1>8, <1>9 DEF Next, Invalidation

\* The invariant holds in every reachable state.
LEMMA Inductive == Spec => []IndInv
<1>1. IndInv /\ [Next]_vars => IndInv'
  BY TypeOKStep, ExclusiveStep, FreshStep DEF IndInv
<1> QED
  BY InitIndInv, <1>1, PTL DEF Spec

\* The variables keep their types in every behaviour of the job.
THEOREM Types == Spec => []TypeOK
<1>1. IndInv => TypeOK
  BY DEF IndInv
<1> QED
  BY Inductive, <1>1, PTL

\* `running` excludes a second scan (`swap` in start_scan, `store` at its end),
\* and the interface's `busy` is exact, for any number of threads.
THEOREM SingleScan == Spec => []OneScan
<1>1. IndInv => OneScan
  <2> SUFFICES ASSUME IndInv PROVE Cardinality(Scanning) <= 1
    BY DEF IndInv, Exclusive, OneScan
  <2>1. CASE Scanning = {}
    BY <2>1, FS_EmptySet
  <2>2. CASE Scanning # {}
    <3> PICK s \in Scanning : Scanning = {s}
      BY <2>2 DEF IndInv, Exclusive
    <3>1. Cardinality({s}) = 1
      BY FS_Singleton
    <3> QED
      BY <3>1
  <2> QED
    BY <2>1, <2>2
<1> QED
  BY Inductive, <1>1, PTL

\* Publication is ordered: no scan overwrites the result of a later one.
THEOREM Monotone == Spec => SnapshotAdvances
<1>1. IndInv /\ [Next]_vars => [snapshot' >= snapshot]_vars
  <2> SUFFICES ASSUME IndInv, Next PROVE snapshot' >= snapshot
    OBVIOUS
  <2> snapshot \in Nat
    BY DEF IndInv, TypeOK
  <2>1. ASSUME NEW s \in Scanners, ScanPublish(s) PROVE snapshot' >= snapshot
    BY <2>1 DEF ScanPublish, IndInv, Fresh, TypeOK
  <2> QED
    BY <2>1 DEF Next, Mutate, Abandon, Kick, Invalidation, StartScan, AlreadyRunning, MarkDirty,
                ScanStep, ScanRead, ScanStamp, ScanRelease, ScanFollowUp, Minute, CloseSession,
                Reopen
<1> QED
  BY Inductive, <1>1, PTL DEF Spec, SnapshotAdvances
=============================================================================

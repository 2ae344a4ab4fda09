---------------------------- MODULE StorageProofs -----------------------------
(***************************************************************************)
(* Runs, companions and users over one root, for any number of them, any   *)
(* destinations and hours, with a crash at any step: what is published is  *)
(* complete and final, and nobody but a user makes a run fail.             *)
(***************************************************************************)
EXTENDS StorageSafety, SequenceTheorems, TLAPS

WriterType == [key : Keys, segment : 1..MaxSegments, buffered : 0..MaxLines]
FileState == [state : States, lines : 0..MaxLines, written : 0..MaxLines]
Pending == {"publish", "open", "create"}
Dead == {"closed", "failed", "crashed"}

\* The types of the variables.
Typed ==
    /\ DOMAIN files \subseteq Files /\ files = [f \in DOMAIN files |-> files[f]]
    /\ \A f \in DOMAIN files : files[f] \in FileState
    /\ days \subseteq Hours /\ gate \in Runs \cup Companions \cup {NoGate}
    /\ run \in [Runs -> [pc : Pcs, key : Keys \cup {NoKey}, file : Files \cup {NoFile}]]
    /\ writers \in [Runs -> Seq(WriterType)]
    /\ segment \in [Runs -> 0..MaxSegments]
    /\ companion \in [Companions -> [pc : {"scan", "recover", "rename"}, file : Files \cup {NoFile}]]
    /\ time \in Hours /\ written \in [Runs -> 0..MaxLines] /\ leases \subseteq Runs
    /\ recognized \in BOOLEAN /\ split \in BOOLEAN /\ cutOff \subseteq Runs

\* A file that a run has open is active, unless a user has deleted it.
Kept(f) == IF f \in DOMAIN files THEN files[f].state = "active" ELSE f.run \in cutOff

\* An open writer: every line is in its file or in its buffer.
Holds(r, w) ==
    /\ Kept(Id(r, w)) /\ w.segment <= segment[r] /\ w.buffered <= written[r]
    /\ Id(r, w) \in DOMAIN files =>
          files[Id(r, w)].lines + w.buffered = files[Id(r, w)].written

\* No two writers of a run have the same logical path.
Distinct(ws) == \A m, n \in DOMAIN ws : m # n => ws[m].key # ws[n].key

\* The open files of a run, which ends with it.
CacheSound(r) ==
    /\ Len(writers[r]) <= MaxWriters /\ (~Alive(r) => writers[r] = <<>>)
    /\ Distinct(writers[r])
    /\ \A n \in DOMAIN writers[r] : Holds(r, writers[r][n])

\* What a run that is publishing or opening a file relies on.
PublishSound(r) ==
    run[r].pc \in {"publish", "publishLast"} =>
       /\ run[r].file \in Files /\ run[r].file.run = r /\ Kept(run[r].file)
       /\ \A n \in DOMAIN writers[r] : Id(r, writers[r][n]) # run[r].file
       /\ run[r].file \in DOMAIN files => files[run[r].file].lines = files[run[r].file].written
OpenSound(r) ==
    /\ run[r].pc \in {"open", "create"} => run[r].key # NoKey
    /\ run[r].pc \in Pending /\ run[r].key # NoKey =>
          /\ segment[r] < MaxSegments /\ Len(writers[r]) < MaxWriters /\ written[r] > 0
          /\ \A n \in DOMAIN writers[r] : writers[r][n].key # run[r].key
    /\ run[r].pc = "create" =>
          split \/ (gate = r /\ (r \in cutOff \/ run[r].key[1] \in days))

\* The root is what it was when the run began, unless a user has taken its metadata.
RootSound(r) == Alive(r) => recognized \/ r \in cutOff

\* The files: none of a run that has not begun, none of a segment to come.
FileSound(f) ==
    /\ f.segment <= segment[f.run] /\ run[f.run].pc # "absent"
    /\ files[f].lines <= files[f].written /\ files[f].written <= written[f.run]
    /\ files[f].state = "closed" => files[f].lines = files[f].written

\* A companion renames the file of a run that has ended.
CompanionSound(c) ==
    companion[c].pc = "rename" => companion[c].file \in Files /\ run[companion[c].file.run].pc \in Dead

IInv ==
    /\ Typed /\ OnlyUsersFailRuns
    /\ \A r \in Runs : CacheSound(r) /\ PublishSound(r) /\ OpenSound(r) /\ RootSound(r)
    /\ \A f \in DOMAIN files : FileSound(f)
    /\ \A c \in Companions : CompanionSound(c)
-----------------------------------------------------------------------------
(* The sequence of open writers *)

USE WritersAssumption, OwnersAssumption, BoundsAssumption DEF meta

\* Closing one writer keeps the others, in their order.
LEMMA Removed ==
  ASSUME NEW s \in Seq(WriterType), NEW n \in DOMAIN s, Distinct(s)
  PROVE  /\ RemoveAt(s, n) \in Seq(WriterType) /\ Len(RemoveAt(s, n)) = Len(s) - 1
         /\ \A m \in 1..Len(s) - 1 : RemoveAt(s, n)[m] = IF m < n THEN s[m] ELSE s[m + 1]
         /\ Distinct(RemoveAt(s, n))
<1> DEFINE a == SubSeq(s, 1, n - 1)
           b == SubSeq(s, n + 1, Len(s))
<1>1. n \in 1..Len(s) /\ Len(s) \in Nat
  OBVIOUS
<1>2. /\ a \in Seq(WriterType) /\ Len(a) = n - 1
      /\ \A i \in 1..n - 1 : a[i] = s[i]
  <2>1. \A i \in 1..n - 1 : s[i] \in WriterType
    BY <1>1
  <2>2. /\ a \in Seq(WriterType) /\ Len(a) = IF 1 <= n - 1 THEN n - 1 - 1 + 1 ELSE 0
        /\ \A i \in 1..n - 1 - 1 + 1 : a[i] = s[1 + i - 1]
    BY <1>1, <2>1, SubSeqProperties
  <2> QED
    BY <1>1, <2>2
<1>3. /\ b \in Seq(WriterType) /\ Len(b) = Len(s) - n
      /\ \A i \in 1..Len(s) - n : b[i] = s[n + i]
  <2>1. \A i \in n + 1..Len(s) : s[i] \in WriterType
    BY <1>1
  <2>2. /\ b \in Seq(WriterType)
        /\ Len(b) = IF n + 1 <= Len(s) THEN Len(s) - (n + 1) + 1 ELSE 0
        /\ \A i \in 1..Len(s) - (n + 1) + 1 : b[i] = s[n + 1 + i - 1]
    BY <1>1, <2>1, SubSeqProperties
  <2> QED
    BY <1>1, <2>2
<1>4. RemoveAt(s, n) = a \o b
  BY DEF RemoveAt
<1> HIDE DEF a, b
<1>5. /\ RemoveAt(s, n) \in Seq(WriterType) /\ Len(RemoveAt(s, n)) = Len(s) - 1
      /\ \A m \in 1..Len(s) - 1 : RemoveAt(s, n)[m] = IF m < n THEN s[m] ELSE s[m + 1]
  <2>1. /\ a \o b \in Seq(WriterType) /\ Len(a \o b) = Len(a) + Len(b)
        /\ \A i \in 1..Len(a) + Len(b) : (a \o b)[i] = IF i <= Len(a) THEN a[i] ELSE b[i - Len(a)]
    BY ZenonT(60), <1>2, <1>3, ConcatProperties
  <2>2. ASSUME NEW m \in 1..Len(s) - 1
        PROVE  RemoveAt(s, n)[m] = IF m < n THEN s[m] ELSE s[m + 1]
    <3>1. CASE m < n
      BY SMTT(30), <1>1, <1>2, <1>3, <1>4, <2>1, <3>1
    <3>2. CASE m >= n
      <4>1. m - (n - 1) \in 1..Len(s) - n /\ n + (m - (n - 1)) = m + 1
        BY <1>1, <3>2
      <4>2. m \in 1..Len(a) + Len(b) /\ ~(m <= Len(a)) /\ Len(a) = n - 1
        BY <1>1, <1>2, <1>3, <3>2
      <4>3. (a \o b)[m] = b[m - (n - 1)]
        BY <2>1, <4>2
      <4>4. b[m - (n - 1)] = s[m + 1]
        BY <1>3, <4>1
      <4> QED
        BY <1>1, <1>4, <3>2, <4>3, <4>4
    <3> QED
      BY <1>1, <3>1, <3>2
  <2>3. Len(a) + Len(b) = Len(s) - 1
    BY <1>1, <1>2, <1>3
  <2> QED
    BY <1>4, <2>1, <2>2, <2>3
<1>6. Distinct(RemoveAt(s, n))
  <2> DEFINE t == RemoveAt(s, n)
             at(m) == IF m < n THEN m ELSE m + 1
  <2>1. DOMAIN t = 1..Len(s) - 1 /\ DOMAIN s = 1..Len(s)
    BY <1>5
  <2>2. \A m \in 1..Len(s) - 1 : at(m) \in 1..Len(s) /\ t[m] = s[at(m)]
    BY <1>1, <1>5
  <2>3. \A k, m \in 1..Len(s) - 1 : k # m => at(k) # at(m)
    BY <1>1
  <2> HIDE DEF t, at
  <2>4. Distinct(t)
    BY <2>1, <2>2, <2>3 DEF Distinct
  <2> QED
    BY <2>4 DEF t
<1> QED
  BY <1>5, <1>6

\* Each writer that is left was there, and is not the one closed.
LEMMA Left ==
  ASSUME NEW s \in Seq(WriterType), NEW n \in DOMAIN s, Distinct(s),
         NEW m \in DOMAIN RemoveAt(s, n)
  PROVE  \E i \in DOMAIN s : RemoveAt(s, n)[m] = s[i] /\ s[i].key # s[n].key
<1>1. /\ RemoveAt(s, n) \in Seq(WriterType) /\ Len(RemoveAt(s, n)) = Len(s) - 1
      /\ \A k \in 1..Len(s) - 1 : RemoveAt(s, n)[k] = IF k < n THEN s[k] ELSE s[k + 1]
  BY Removed
<1>2. m \in 1..Len(s) - 1 /\ n \in 1..Len(s) /\ DOMAIN s = 1..Len(s)
  BY <1>1
<1>3. CASE m < n
  BY <1>1, <1>2, <1>3 DEF Distinct
<1>4. CASE m >= n
  <2>1. m + 1 \in DOMAIN s /\ RemoveAt(s, n)[m] = s[m + 1] /\ m + 1 # n
    BY <1>1, <1>2, <1>4
  <2> QED
    BY <2>1 DEF Distinct
<1> QED
  BY <1>2, <1>3, <1>4

\* A writer with a path of its own is added at the end.
LEMMA Added ==
  ASSUME NEW s \in Seq(WriterType), NEW w \in WriterType, Distinct(s),
         \A i \in DOMAIN s : s[i].key # w.key
  PROVE  /\ Append(s, w) \in Seq(WriterType) /\ Len(Append(s, w)) = Len(s) + 1
         /\ Distinct(Append(s, w))
         /\ \A m \in DOMAIN Append(s, w) : Append(s, w)[m] = w \/ \E i \in DOMAIN s : Append(s, w)[m] = s[i]
<1>1. /\ Append(s, w) \in Seq(WriterType) /\ Len(Append(s, w)) = Len(s) + 1
      /\ DOMAIN Append(s, w) = 1..Len(s) + 1 /\ DOMAIN s = 1..Len(s) /\ Len(s) \in Nat
      /\ \A m \in 1..Len(s) : Append(s, w)[m] = s[m]
      /\ Append(s, w)[Len(s) + 1] = w
  OBVIOUS
<1>2. \A m \in DOMAIN Append(s, w) : m = Len(s) + 1 \/ m \in DOMAIN s
  BY <1>1
<1> QED
  BY <1>1, <1>2 DEF Distinct

\* The placeholders are no file and no path.
LEMMA Placeholders == NoFile \notin Files /\ NoKey \notin Keys
<1>1. NoFile \notin Files
  BY DEF NoFile, Files
<1>2. NoKey \notin Keys
  BY DEF NoKey, Keys
<1> QED
  BY <1>1, <1>2
-----------------------------------------------------------------------------
(* What a step leaves as it is *)

\* A file is written and finalised only by its run, and removed only as no
\* longer active or by a user.
FilesKept(r) ==
    \A f \in Files : f.run = r =>
       /\ f \in DOMAIN files' => f \in DOMAIN files /\ files'[f] = files[f]
       /\ f \in DOMAIN files /\ f \notin DOMAIN files' => files[f].state # "active" \/ f.run \in cutOff'

RunKept(r) ==
    run'[r] = run[r] /\ writers'[r] = writers[r] /\ segment'[r] = segment[r] /\ written'[r] = written[r]

\* The directory and the gate are left to a run that is opening a file, and the
\* metadata to one that lives, or else a user has taken them.
StillGated(r) ==
    run[r].pc = "create" =>
       split' \/ (gate' = r /\ (r \in cutOff' \/ run[r].key[1] \in days'))
StillRooted(r) == Alive(r) => recognized' \/ r \in cutOff'

\* An open writer is of a file of its run.
LEMMA IdFile ==
  ASSUME NEW r \in Runs, NEW w \in WriterType
  PROVE  /\ Id(r, w) \in Files /\ Id(r, w).run = r
         /\ Id(r, w).key = w.key /\ Id(r, w).segment = w.segment
BY DEF Id, Files, WriterType

\* A file that is left alone stays what its run expects of it.
LEMMA KeptStays ==
  ASSUME NEW r \in Runs, NEW f \in Files, f.run = r, Kept(f), FilesKept(r), cutOff \subseteq cutOff'
  PROVE  Kept(f)' /\ (f \in DOMAIN files' => f \in DOMAIN files /\ files'[f] = files[f])
BY DEF Kept, FilesKept

\* What holds of a run's state keeps holding when the step is not the run's.
LEMMA RunStays ==
  ASSUME Typed, NEW r \in Runs, CacheSound(r), PublishSound(r), OpenSound(r),
         RunKept(r), cutOff \subseteq cutOff', FilesKept(r) \/ run[r].pc \in Dead, StillGated(r)
  PROVE  CacheSound(r)' /\ PublishSound(r)' /\ OpenSound(r)'
<1>1. CacheSound(r)'
  <2>1. Alive(r)' <=> Alive(r)
    BY DEF Alive, RunKept
  <2>2. ASSUME NEW n \in DOMAIN writers[r]
        PROVE  Holds(r, writers[r][n])'
    <3>1. writers[r][n] \in WriterType /\ Holds(r, writers[r][n]) /\ writers'[r] = writers[r]
      BY DEF Typed, CacheSound, RunKept
    <3>2. writers[r] # <<>> /\ FilesKept(r)
      BY DEF CacheSound, Alive, Dead
    <3>3. /\ Kept(Id(r, writers[r][n]))'
          /\ Id(r, writers[r][n]) \in DOMAIN files' =>
                /\ Id(r, writers[r][n]) \in DOMAIN files
                /\ files'[Id(r, writers[r][n])] = files[Id(r, writers[r][n])]
      BY <3>1, <3>2, IdFile, KeptStays DEF Holds
    <3> QED
      BY <3>1, <3>3 DEF Holds, RunKept, Id
  <2>3. \A n \in DOMAIN writers'[r] : Holds(r, writers[r][n])' /\ writers'[r] = writers[r]
    BY <2>2 DEF RunKept
  <2> QED
    BY <2>1, <2>3 DEF CacheSound, RunKept, Distinct
<1>2. PublishSound(r)'
  <2> SUFFICES ASSUME run[r].pc \in {"publish", "publishLast"} PROVE PublishSound(r)'
    BY DEF PublishSound, RunKept
  <2>1. FilesKept(r) /\ run[r].file \in Files /\ run[r].file.run = r /\ Kept(run[r].file)
    BY DEF PublishSound, Dead
  <2>2. PICK f \in Files : f = run[r].file
    BY <2>1
  <2>3. Kept(f)' /\ (f \in DOMAIN files' => f \in DOMAIN files /\ files'[f] = files[f])
    BY <2>1, <2>2, KeptStays
  <2>4. run'[r] = run[r] /\ writers'[r] = writers[r]
    BY DEF RunKept
  <2>5. Kept(run[r].file)'
    BY <2>2, <2>3, <2>4 DEF Kept
  <2> QED
    BY <2>1, <2>2, <2>3, <2>4, <2>5 DEF PublishSound, Id
<1>3. OpenSound(r)'
  BY DEF OpenSound, RunKept, Pending, StillGated
<1> QED
  BY <1>1, <1>2, <1>3

\* A file that is left alone is as sound as it was.
LEMMA FileStays ==
  ASSUME Typed, Typed', NEW f \in DOMAIN files, FileSound(f), f \in Files,
         f \in DOMAIN files', files'[f] = files[f],
         segment[f.run] <= segment'[f.run], written[f.run] <= written'[f.run],
         run'[f.run].pc # "absent"
  PROVE  FileSound(f)'
<1>1. f.run \in Runs /\ f.segment \in Nat
  BY DEF Files
<1>2. /\ segment[f.run] \in Nat /\ segment'[f.run] \in Nat
      /\ written[f.run] \in Nat /\ written'[f.run] \in Nat
      /\ files[f].written \in Nat
  BY <1>1 DEF Typed, FileState
<1> QED
  BY <1>1, <1>2 DEF FileSound

\* The end of a run is final: it never leaves it.
DeadStay == \A r \in Runs : run[r].pc \in Dead => run'[r] = run[r]

\* A companion that is about to rename is not disturbed.
LEMMA CompanionStays ==
  ASSUME NEW c \in Companions, CompanionSound(c), companion'[c] = companion[c],
         DeadStay
  PROVE  CompanionSound(c)'
BY DEF CompanionSound, DeadStay, Files

\* The initial state.
LEMMA InitIInv == Init => IInv
<1> SUFFICES ASSUME Init PROVE IInv
  OBVIOUS
<1>1. Typed
  <2>1. DOMAIN files = {} /\ files = [f \in DOMAIN files |-> files[f]]
    BY DEF Init
  <2>2. run \in [Runs -> [pc : Pcs, key : Keys \cup {NoKey}, file : Files \cup {NoFile}]]
    BY DEF Init, Pcs
  <2>3. companion \in [Companions -> [pc : {"scan", "recover", "rename"}, file : Files \cup {NoFile}]]
    BY DEF Init, Resting
  <2>4. writers \in [Runs -> Seq(WriterType)] /\ segment \in [Runs -> 0..MaxSegments]
        /\ written \in [Runs -> 0..MaxLines] /\ time \in Hours
    BY DEF Init, Hours
  <2> QED
    BY <2>1, <2>2, <2>3, <2>4 DEF Init, Typed
<1>2. OnlyUsersFailRuns
  BY DEF Init, OnlyUsersFailRuns
<1>3. ASSUME NEW r \in Runs PROVE CacheSound(r) /\ PublishSound(r) /\ OpenSound(r) /\ RootSound(r)
  BY DEF Init, CacheSound, PublishSound, OpenSound, RootSound, Alive, Distinct, Pending
<1>4. ASSUME NEW c \in Companions PROVE CompanionSound(c)
  BY DEF Init, CompanionSound, Resting
<1> QED
  BY <1>1, <1>2, <1>3, <1>4 DEF IInv, Init
-----------------------------------------------------------------------------
(* The steps of a run *)

\* A step of one run leaves the files and the state of the others alone, ...
OthersKept(r) == \A s \in Runs : s # r => RunKept(s) /\ FilesKept(s)

\* ... what the runs share with the companions, and a gate held by another.
SharedKept(r) ==
    /\ companion' = companion /\ cutOff' = cutOff /\ days \subseteq days'
    /\ recognized => recognized'
    /\ split' = split /\ (split \/ \A x \in Runs \cup Companions : x # r /\ gate = x => gate' = x)

\* So a step of a run preserves the invariant if it does for the run itself.
LEMMA OneRun ==
  ASSUME IInv, Typed', NEW r \in Runs, run[r].pc \notin Dead, OthersKept(r), SharedKept(r),
         CacheSound(r)', PublishSound(r)', OpenSound(r)',
         run'[r].pc = "failed" => r \in cutOff \/ split, run[r].pc = "absent" => recognized',
         \A f \in DOMAIN files' : f.run = r => FileSound(f)'
  PROVE  IInv'
<1>1. ASSUME NEW s \in Runs, s # r
      PROVE  CacheSound(s)' /\ PublishSound(s)' /\ OpenSound(s)' /\ RootSound(s)'
  <2>1. RunKept(s) /\ FilesKept(s)
    BY <1>1 DEF OthersKept
  <2>2. StillGated(s)
    BY <1>1 DEF IInv, OpenSound, SharedKept, StillGated
  <2>3. cutOff \subseteq cutOff'
    BY DEF SharedKept
  <2>4. Typed /\ CacheSound(s) /\ PublishSound(s) /\ OpenSound(s)
    BY DEF IInv
  <2>5. RootSound(s)'
    BY <2>1 DEF IInv, RootSound, RunKept, SharedKept, Alive
  <2> QED
    BY <2>1, <2>2, <2>3, <2>4, <2>5, RunStays
<1>2. OnlyUsersFailRuns'
  BY DEF IInv, OnlyUsersFailRuns, OthersKept, RunKept, SharedKept
<1>3. ASSUME NEW f \in DOMAIN files', f.run # r
      PROVE  FileSound(f)'
  <2>1. f \in Files /\ f.run \in Runs
    BY DEF Typed, Files
  <2>2. RunKept(f.run) /\ f \in DOMAIN files /\ files'[f] = files[f]
    BY <1>3, <2>1 DEF OthersKept, FilesKept
  <2>3. FileSound(f)
    BY <2>2 DEF IInv
  <2>4. /\ segment[f.run] <= segment'[f.run] /\ written[f.run] <= written'[f.run]
        /\ run'[f.run].pc # "absent"
    <3>1. segment[f.run] \in Nat /\ written[f.run] \in Nat
      BY <2>1 DEF IInv, Typed
    <3> QED
      BY <2>1, <2>2, <2>3, <3>1 DEF RunKept, FileSound
  <2> QED
    BY <2>1, <2>2, <2>3, <2>4, FileStays DEF IInv
<1>4. ASSUME NEW c \in Companions
      PROVE  CompanionSound(c)'
  <2>1. DeadStay
    BY DEF DeadStay, OthersKept, RunKept
  <2>2. companion'[c] = companion[c]
    BY DEF SharedKept
  <2> QED
    BY <2>1, <2>2, CompanionStays DEF IInv
<1>5. RootSound(r)'
  BY DEF IInv, RootSound, SharedKept, Alive, Dead
<1> QED
  BY <1>1, <1>2, <1>3, <1>4, <1>5 DEF IInv

\* A step of a run that leaves all files alone.
LEMMA FilesUnchanged ==
  ASSUME Typed, files' = files PROVE \A s \in Runs : FilesKept(s)
BY DEF FilesKept

\* The counters of a run are numbers.
LEMMA Counters ==
  ASSUME Typed, NEW r \in Runs PROVE segment[r] \in Nat /\ written[r] \in Nat
BY DEF Typed

\* The files of a run that a step leaves alone.
LEMMA OwnFilesStay ==
  ASSUME IInv, Typed', NEW r \in Runs, files' = files, run'[r].pc # "absent",
         segment[r] <= segment'[r], written[r] <= written'[r]
  PROVE  \A f \in DOMAIN files' : f.run = r => FileSound(f)'
BY FileStays DEF IInv, Typed

\* The state that `Goto` sets, ...
LEMMA GotoSets ==
  ASSUME Typed, NEW r \in Runs, NEW pc, NEW key, NEW file, Goto(r, pc, key, file)
  PROVE  /\ run'[r] = [pc |-> pc, key |-> key, file |-> file]
         /\ \A s \in Runs : s # r => run'[s] = run[s]
BY DEF Goto, Typed

\* ... which is of the type of the runs.
LEMMA GotoTyped ==
  ASSUME Typed, NEW r \in Runs, NEW pc \in Pcs, NEW key \in Keys \cup {NoKey},
         NEW file \in Files \cup {NoFile}, Goto(r, pc, key, file)
  PROVE  run' \in [Runs -> [pc : Pcs, key : Keys \cup {NoKey}, file : Files \cup {NoFile}]]
BY DEF Goto, Typed

\* The gate is given back.
LEMMA Released ==
  ASSUME Typed, NEW p
  PROVE  /\ Release(p) \in Runs \cup Companions \cup {NoGate}
         /\ \A x \in Runs \cup Companions : x # p /\ gate = x => Release(p) = x
BY DEF Release, Typed

\* The start of a run finds nothing of its own.
LEMMA StartSound == ASSUME IInv, NEW r \in Runs, Start(r) PROVE IInv'
<1> USE DEF Start
<1>1. /\ run'[r] = [pc |-> "idle", key |-> NoKey, file |-> NoFile]
      /\ \A s \in Runs : s # r => run'[s] = run[s]
      /\ run' \in [Runs -> [pc : Pcs, key : Keys \cup {NoKey}, file : Files \cup {NoFile}]]
  <2>1. Goto(r, "idle", NoKey, NoFile) /\ "idle" \in Pcs
    BY DEF Pcs
  <2>2. run' \in [Runs -> [pc : Pcs, key : Keys \cup {NoKey}, file : Files \cup {NoFile}]]
    BY <2>1, GotoTyped DEF IInv
  <2> QED
    BY <2>1, <2>2, GotoSets DEF IInv
<1>2. Typed'
  BY <1>1 DEF IInv, Typed
<1>3. OthersKept(r) /\ SharedKept(r)
  BY <1>1, FilesUnchanged DEF IInv, OthersKept, RunKept, SharedKept
<1>4. CacheSound(r)' /\ PublishSound(r)' /\ OpenSound(r)'
  <2>1. writers'[r] = <<>>
    BY DEF IInv, CacheSound, Alive
  <2> QED
    BY <1>1, <2>1 DEF CacheSound, PublishSound, OpenSound, Distinct, Pending
<1>5. \A f \in DOMAIN files' : f.run = r => FileSound(f)'
  BY <1>1, <1>2, Counters, OwnFilesStay DEF IInv
<1> QED
  BY <1>1, <1>2, <1>3, <1>4, <1>5, OneRun DEF Dead

\* `close_all` begins, with the writers as they are.
LEMMA StopSound == ASSUME IInv, NEW r \in Runs, Stop(r) \/ Stopped(r) PROVE IInv'
<1> USE DEF Stop, Stopped
<1>1. /\ run'[r].pc \in {"closing", "closed"} /\ run[r].pc \in {"idle", "closing"}
      /\ run'[r].pc = "closed" => writers[r] = <<>>
      /\ \A s \in Runs : s # r => run'[s] = run[s]
      /\ run' \in [Runs -> [pc : Pcs, key : Keys \cup {NoKey}, file : Files \cup {NoFile}]]
  <2>1. Goto(r, "closing", NoKey, NoFile) \/ Goto(r, "closed", NoKey, NoFile)
    OBVIOUS
  <2>2. "closing" \in Pcs /\ "closed" \in Pcs
    BY DEF Pcs
  <2>3. run' \in [Runs -> [pc : Pcs, key : Keys \cup {NoKey}, file : Files \cup {NoFile}]]
    BY <2>1, <2>2, GotoTyped DEF IInv
  <2>4. /\ \/ run'[r] = [pc |-> "closing", key |-> NoKey, file |-> NoFile]
           \/ run'[r] = [pc |-> "closed", key |-> NoKey, file |-> NoFile] /\ writers[r] = <<>>
        /\ \A s \in Runs : s # r => run'[s] = run[s]
    BY GotoSets DEF IInv
  <2> QED
    BY <2>3, <2>4
<1>2. Typed'
  BY <1>1 DEF IInv, Typed
<1>3. OthersKept(r) /\ SharedKept(r)
  BY <1>1, FilesUnchanged DEF IInv, OthersKept, RunKept, SharedKept
<1>4. CacheSound(r)'
  <2>1. CacheSound(r) /\ writers'[r] = writers[r]
    BY DEF IInv
  <2>2. \A n \in DOMAIN writers'[r] : Holds(r, writers[r][n])'
    BY <2>1 DEF CacheSound, Holds, Kept, Id
  <2>3. ~Alive(r)' => writers[r] = <<>>
    BY <1>1 DEF Alive
  <2> QED
    BY <2>1, <2>2, <2>3 DEF CacheSound, Distinct
<1>5. PublishSound(r)' /\ OpenSound(r)'
  BY <1>1 DEF PublishSound, OpenSound, Pending
<1>6. \A f \in DOMAIN files' : f.run = r => FileSound(f)'
  BY <1>1, <1>2, Counters, OwnFilesStay DEF IInv
<1> QED
  BY <1>1, <1>2, <1>3, <1>4, <1>5, <1>6, OneRun DEF Dead

\* A crash drops the writers; what was flushed stays in the files.
LEMMA CrashSound == ASSUME IInv, NEW r \in Runs, Crash(r) PROVE IInv'
<1> USE DEF Crash
<1>1. /\ run'[r].pc = "crashed" /\ run[r].pc \notin Dead /\ run[r].pc # "absent"
      /\ \A s \in Runs : s # r => run'[s] = run[s]
      /\ run' \in [Runs -> [pc : Pcs, key : Keys \cup {NoKey}, file : Files \cup {NoFile}]]
  <2>1. Goto(r, "crashed", NoKey, NoFile) /\ "crashed" \in Pcs
    BY DEF Pcs
  <2>2. run' \in [Runs -> [pc : Pcs, key : Keys \cup {NoKey}, file : Files \cup {NoFile}]]
    BY <2>1, GotoTyped DEF IInv
  <2>3. run[r].pc \notin Dead /\ run[r].pc # "absent"
    BY DEF Alive, Dead
  <2> QED
    BY <2>1, <2>2, <2>3, GotoSets DEF IInv
<1>2. writers'[r] = <<>> /\ writers' \in [Runs -> Seq(WriterType)]
      /\ \A s \in Runs : s # r => writers'[s] = writers[s]
  BY DEF IInv, Typed
<1>3. Typed'
  BY <1>1, <1>2, Released DEF IInv, Typed
<1>4. OthersKept(r) /\ SharedKept(r)
  BY <1>1, <1>2, FilesUnchanged, Released DEF IInv, OthersKept, RunKept, SharedKept
<1>5. CacheSound(r)' /\ PublishSound(r)' /\ OpenSound(r)'
  BY <1>1, <1>2 DEF CacheSound, PublishSound, OpenSound, Distinct, Pending
<1>6. \A f \in DOMAIN files' : f.run = r => FileSound(f)'
  BY <1>1, <1>3, Counters, OwnFilesStay DEF IInv
<1> QED
  BY <1>1, <1>3, <1>4, <1>5, <1>6, OneRun
-----------------------------------------------------------------------------
(* Writing, flushing and closing *)

\* The files as `Typed` has them.
FilesTyped ==
    /\ DOMAIN files \subseteq Files /\ files = [f \in DOMAIN files |-> files[f]]
    /\ \A f \in DOMAIN files : files[f] \in FileState

\* One file gets a new state.
LEMMA OneFile ==
  ASSUME Typed, NEW f \in DOMAIN files, NEW v \in FileState, files' = [files EXCEPT ![f] = v]
  PROVE  /\ FilesTyped' /\ DOMAIN files' = DOMAIN files /\ files'[f] = v
         /\ \A g \in DOMAIN files : g # f => files'[g] = files[g]
BY DEF Typed, FilesTyped

\* A writer whose file is left alone.
LEMMA HoldsStays ==
  ASSUME Typed, NEW r \in Runs, NEW w \in WriterType, Holds(r, w),
         segment[r] <= segment'[r], segment'[r] \in Nat,
         written[r] <= written'[r], written'[r] \in Nat, cutOff' = cutOff,
         Id(r, w) \in DOMAIN files' <=> Id(r, w) \in DOMAIN files,
         Id(r, w) \in DOMAIN files => files'[Id(r, w)] = files[Id(r, w)]
  PROVE  Holds(r, w)'
<1>1. segment[r] \in Nat /\ written[r] \in Nat /\ w.segment \in Nat /\ w.buffered \in Nat
  BY Counters DEF WriterType
<1>2. Kept(Id(r, w))'
  BY DEF Holds, Kept, Id
<1>3. w.segment <= segment'[r] /\ w.buffered <= written'[r]
  BY <1>1 DEF Holds
<1>4. Id(r, w)' = Id(r, w)
  BY DEF Id
<1> QED
  BY <1>2, <1>3, <1>4 DEF Holds

\* Different paths have different files.
LEMMA IdsDiffer ==
  ASSUME NEW r \in Runs, NEW v \in WriterType, NEW w \in WriterType, v.key # w.key
  PROVE  Id(r, v) # Id(r, w)
BY IdFile

\* A line goes to the buffer of an open file, within the bound of the run.
LEMMA HitSound == ASSUME IInv, NEW r \in Runs, NEW n, WriteHit(r, n) PROVE IInv'
<1>0. PICK w \in WriterType : w = writers[r][n]
  <2>1. n \in DOMAIN writers[r] /\ writers[r] \in Seq(WriterType)
    BY DEF WriteHit, IInv, Typed
  <2>2. writers[r][n] \in WriterType
    BY <2>1
  <2> QED
    BY <2>2
<1> DEFINE x == [w EXCEPT !.buffered = @ + 1]
           t == RemoveAt(writers[r], n)
           f == Id(r, w)
<1>1. /\ run[r].pc = "idle" /\ n \in DOMAIN writers[r] /\ written[r] < MaxLines
      /\ written' = [written EXCEPT ![r] = @ + 1]
      /\ writers' = [writers EXCEPT ![r] = Append(RemoveAt(@, n), x)]
      /\ files' = Counted(f)
      /\ UNCHANGED <<days, gate, run, segment, companion, meta, cutOff>>
  BY <1>0 DEF WriteHit, Wrote
<1>2. /\ Typed /\ CacheSound(r) /\ writers[r] \in Seq(WriterType) /\ written[r] \in 0..MaxLines
      /\ segment[r] \in Nat
  BY Counters DEF IInv, Typed
<1>3. /\ w \in WriterType /\ Holds(r, w) /\ Distinct(writers[r]) /\ w.buffered \in Nat
      /\ w.segment \in Nat
  <2>1. Holds(r, writers[r][n]) /\ Distinct(writers[r])
    BY <1>1, <1>2 DEF CacheSound
  <2>2. w.buffered \in Nat /\ w.segment \in Nat
    BY DEF WriterType
  <2> QED
    BY <1>0, <2>1, <2>2
<1>4. x \in WriterType /\ x.key = w.key /\ x.segment = w.segment /\ x.buffered = w.buffered + 1
  <2>1. w.buffered + 1 \in 0..MaxLines
    BY <1>1, <1>2, <1>3 DEF Holds
  <2> QED
    BY <1>3, <2>1 DEF WriterType
<1>5. t \in Seq(WriterType) /\ Len(t) = Len(writers[r]) - 1 /\ Distinct(t)
  BY <1>1, <1>2, <1>3, Removed
<1>6. \A i \in DOMAIN t : \E j \in DOMAIN writers[r] :
                             t[i] = writers[r][j] /\ writers[r][j].key # w.key
  <2> SUFFICES ASSUME NEW i \in DOMAIN t
               PROVE  \E j \in DOMAIN writers[r] : t[i] = writers[r][j] /\ writers[r][j].key # w.key
    OBVIOUS
  <2>1. \E j \in DOMAIN writers[r] :
           t[i] = writers[r][j] /\ writers[r][j].key # writers[r][n].key
    <3>1. PICK ws \in Seq(WriterType) : ws = writers[r]
      BY <1>2
    <3>2. n \in DOMAIN ws /\ Distinct(ws) /\ i \in DOMAIN RemoveAt(ws, n)
      BY <1>1, <1>3, <3>1
    <3>3. \E j \in DOMAIN ws : RemoveAt(ws, n)[i] = ws[j] /\ ws[j].key # ws[n].key
      BY <3>2, Left
    <3> QED
      BY <3>1, <3>3
  <2> QED
    BY <1>0, <2>1
<1>7. /\ writers'[r] = Append(t, x) /\ \A s \in Runs : s # r => writers'[s] = writers[s]
      /\ written'[r] = written[r] + 1 /\ \A s \in Runs : s # r => written'[s] = written[s]
      /\ written'[r] \in 0..MaxLines
  BY <1>1, <1>2 DEF Typed
<1>8. f \in Files /\ f.run = r
  BY <1>3, IdFile
<1> HIDE DEF x, t, f
<1>9. /\ Append(t, x) \in Seq(WriterType) /\ Len(Append(t, x)) = Len(writers[r])
      /\ Distinct(Append(t, x))
      /\ \A i \in DOMAIN Append(t, x) : Append(t, x)[i] = x \/ \E j \in DOMAIN t : Append(t, x)[i] = t[j]
  <2>1. \A i \in DOMAIN t : t[i].key # x.key
    BY <1>4, <1>6
  <2>2. Len(t) + 1 = Len(writers[r])
    BY <1>2, <1>5
  <2> QED
    BY <1>4, <1>5, <2>1, <2>2, Added
<1>10. /\ FilesTyped' /\ DOMAIN files' = DOMAIN files
       /\ \A g \in DOMAIN files : g # f => files'[g] = files[g]
       /\ f \in DOMAIN files =>
             /\ files[f].written <= written[r] /\ files[f].written \in Nat
             /\ files'[f] = [files[f] EXCEPT !.written = @ + 1]
  <2>1. CASE f \in DOMAIN files
    <3>1. files[f] \in FileState /\ FileSound(f)
      BY <2>1 DEF IInv, Typed
    <3>2. files[f].written <= written[r]
      BY <1>8, <3>1 DEF FileSound
    <3>3. [files[f] EXCEPT !.written = @ + 1] \in FileState
      <4>1. files[f].written + 1 \in 0..MaxLines
        BY <1>1, <1>2, <3>1, <3>2 DEF FileState
      <4> QED
        BY <3>1, <4>1 DEF FileState
    <3>4. files' = [files EXCEPT ![f] = [files[f] EXCEPT !.written = @ + 1]]
      BY <1>1, <2>1 DEF Counted
    <3>5. files[f].written \in Nat
      BY <3>1 DEF FileState
    <3> QED
      BY <1>2, <2>1, <3>2, <3>3, <3>4, <3>5, OneFile
  <2>2. CASE f \notin DOMAIN files
    <3>1. files' = files
      BY <1>1, <2>2 DEF Counted
    <3>2. FilesTyped'
      BY <1>2, <3>1 DEF Typed, FilesTyped
    <3> QED
      BY <2>2, <3>1, <3>2
  <2> QED
    BY <2>1, <2>2
<1>11. Typed'
  <2>1. writers' \in [Runs -> Seq(WriterType)]
    BY <1>1, <1>2, <1>7, <1>9 DEF Typed
  <2>2. written' \in [Runs -> 0..MaxLines]
    BY <1>1, <1>2, <1>7 DEF Typed
  <2>3. time' \in Hours
    BY <1>2 DEF WriteHit, Typed
  <2> QED
    BY <1>1, <1>2, <1>10, <2>1, <2>2, <2>3 DEF Typed, FilesTyped
<1>12. OthersKept(r) /\ SharedKept(r)
  BY <1>1, <1>7, <1>8, <1>10 DEF OthersKept, RunKept, FilesKept, SharedKept
<1>13. CacheSound(r)'
  <2>1. Holds(r, x)'
    <3>1. Id(r, w) = f /\ Id(r, x) = f /\ Id(r, x)' = f
      BY <1>3, <1>4 DEF f, Id
    <3>2. Kept(f)'
      <4>1. Kept(f) /\ (f \in DOMAIN files => files'[f].state = files[f].state)
        BY <1>2, <1>3, <1>10, <3>1 DEF Holds, Typed, FileState
      <4> QED
        BY <1>1, <1>10, <4>1 DEF Kept
    <3>3. x.segment <= segment'[r] /\ x.buffered <= written'[r]
      BY <1>1, <1>2, <1>3, <1>4, <1>7 DEF Holds
    <3>4. f \in DOMAIN files' => files'[f].lines + x.buffered = files'[f].written
      <4> SUFFICES ASSUME f \in DOMAIN files PROVE files'[f].lines + x.buffered = files'[f].written
        BY <1>10
      <4>1. /\ files'[f].lines = files[f].lines /\ files'[f].written = files[f].written + 1
            /\ files[f].lines \in Nat
        BY <1>2, <1>10 DEF Typed, FileState
      <4>2. files[f].lines + w.buffered = files[f].written
        BY <1>3, <3>1 DEF Holds
      <4> QED
        BY <1>3, <1>4, <1>10, <4>1, <4>2
    <3> QED
      BY <3>1, <3>2, <3>3, <3>4 DEF Holds
  <2>2. ASSUME NEW v \in WriterType, v.key # w.key, Holds(r, v)
        PROVE  Holds(r, v)'
    <3>1. Id(r, v) # f
      BY <2>2, IdsDiffer DEF f
    <3> QED
      BY <1>1, <1>2, <1>7, <1>10, <2>2, <3>1, HoldsStays
  <2>3. ASSUME NEW i \in DOMAIN writers'[r]
        PROVE  Holds(r, writers[r][i])'
    <3>1. PICK v : v = writers'[r][i]
      OBVIOUS
    <3>2. CASE v = x
      BY <2>1, <3>1, <3>2 DEF Holds, Id
    <3>3. ASSUME NEW j \in DOMAIN writers[r], v = writers[r][j], writers[r][j].key # w.key
          PROVE  Holds(r, writers[r][i])'
      <4>1. v \in WriterType /\ Holds(r, v)
        BY <1>2, <3>3 DEF CacheSound
      <4>2. Holds(r, v)'
        BY <2>2, <3>3, <4>1
      <4> QED
        BY <3>1, <4>2 DEF Holds, Id
    <3> QED
      BY <1>6, <1>7, <1>9, <3>1, <3>2, <3>3
  <2>4. Alive(r)' <=> Alive(r)
    BY <1>1 DEF Alive
  <2>5. Alive(r) /\ Len(writers'[r]) <= MaxWriters /\ Distinct(writers'[r])
    BY <1>1, <1>2, <1>7, <1>9 DEF CacheSound, Alive
  <2> QED
    BY <2>3, <2>4, <2>5 DEF CacheSound, Distinct
<1>14. PublishSound(r)' /\ OpenSound(r)'
  BY <1>1 DEF PublishSound, OpenSound, Pending
<1>15. ASSUME NEW g \in DOMAIN files', g.run = r
       PROVE  FileSound(g)'
  <2>1. g \in DOMAIN files /\ FileSound(g) /\ g \in Files
    BY <1>10, <1>15 DEF IInv, Typed
  <2>2. CASE g # f
    BY SMTT(30), <1>1, <1>2, <1>7, <1>10, <1>11, <1>15, <2>1, <2>2, FileStays, Counters
       DEF FileSound
  <2>3. CASE g = f
    <3>1. /\ files'[f].lines = files[f].lines /\ files'[f].written = files[f].written + 1
          /\ files'[f].state = files[f].state /\ files[f].lines \in Nat
      BY <1>2, <1>10, <2>1, <2>3 DEF Typed, FileState
    <3>2. files[f].state = "active"
      BY <1>3, <2>1, <2>3 DEF Holds, Kept, f
    <3> QED
      BY SMTT(30), <1>1, <1>2, <1>7, <1>8, <1>10, <2>1, <2>3, <3>1, <3>2 DEF FileSound
  <2> QED
    BY <2>2, <2>3
<1> QED
  BY <1>1, <1>11, <1>12, <1>13, <1>14, <1>15, OneRun DEF Dead

\* Closing a writer, for whatever reason: its buffer goes to the file, which
\* waits to be published; a file that is opened next has its place.
LEMMA CloseSound ==
  ASSUME IInv, NEW r \in Runs, NEW n, n \in DOMAIN writers[r], NEW key \in Keys \cup {NoKey},
         CloseWriter(r, n, key), run[r].pc \in {"idle", "closing"},
         UNCHANGED <<days, gate, segment, companion, time, meta, cutOff>>,
         written' \in [Runs -> 0..MaxLines], written[r] <= written'[r],
         \A s \in Runs : s # r => written'[s] = written[s],
         key # NoKey => /\ run[r].pc = "idle" /\ segment[r] < MaxSegments /\ written'[r] > 0
                        /\ \A i \in DOMAIN writers[r] : writers[r][i].key # key
  PROVE  IInv'
<1>0. PICK w \in WriterType : w = writers[r][n]
  <2>1. writers[r] \in Seq(WriterType)
    BY DEF IInv, Typed
  <2>2. writers[r][n] \in WriterType
    BY <2>1
  <2> QED
    BY <2>2
<1> DEFINE t == RemoveAt(writers[r], n)
           f == Id(r, w)
           pc == IF run[r].pc = "closing" THEN "publishLast" ELSE "publish"
<1>1. /\ writers' = [writers EXCEPT ![r] = RemoveAt(@, n)]
      /\ files' = FlushBuffer(f, w.buffered)
      /\ Goto(r, pc, key, f)
  BY <1>0 DEF CloseWriter
<1>2. /\ Typed /\ CacheSound(r) /\ writers[r] \in Seq(WriterType)
      /\ segment[r] \in Nat /\ written'[r] \in Nat
  BY Counters DEF IInv, Typed
<1>3. Holds(r, w) /\ Distinct(writers[r]) /\ w.buffered \in Nat
  <2>1. Holds(r, writers[r][n]) /\ Distinct(writers[r])
    BY <1>2 DEF CacheSound
  <2>2. w.buffered \in Nat
    BY DEF WriterType
  <2> QED
    BY <1>0, <2>1, <2>2
<1>4. t \in Seq(WriterType) /\ Len(t) = Len(writers[r]) - 1 /\ Distinct(t)
  BY <1>2, <1>3, Removed
<1>5. \A i \in DOMAIN t : \E j \in DOMAIN writers[r] :
                             t[i] = writers[r][j] /\ writers[r][j].key # w.key
  <2> SUFFICES ASSUME NEW i \in DOMAIN t
               PROVE  \E j \in DOMAIN writers[r] : t[i] = writers[r][j] /\ writers[r][j].key # w.key
    OBVIOUS
  <2>1. \E j \in DOMAIN writers[r] :
           t[i] = writers[r][j] /\ writers[r][j].key # writers[r][n].key
    BY <1>2, <1>3, Left
  <2> QED
    BY <1>0, <2>1
<1>6. writers'[r] = t /\ \A s \in Runs : s # r => writers'[s] = writers[s]
  BY <1>1, <1>2 DEF Typed
<1>7. f \in Files /\ f.run = r
  BY IdFile
<1>8. /\ run'[r].pc \in {"publish", "publishLast"} /\ run'[r].key = key /\ run'[r].file = f
      /\ \A s \in Runs : s # r => run'[s] = run[s]
      /\ run' \in [Runs -> [pc : Pcs, key : Keys \cup {NoKey}, file : Files \cup {NoFile}]]
  <2>1. pc \in Pcs /\ pc \in {"publish", "publishLast"}
    BY DEF Pcs
  <2> HIDE DEF pc, f, t
  <2>2. run' \in [Runs -> [pc : Pcs, key : Keys \cup {NoKey}, file : Files \cup {NoFile}]]
    BY <1>1, <1>2, <1>7, <2>1 DEF Goto, Typed
  <2>3. run'[r] = [pc |-> pc, key |-> key, file |-> f] /\ \A s \in Runs : s # r => run'[s] = run[s]
    BY <1>1, <1>2 DEF Goto, Typed
  <2> QED
    BY <2>1, <2>2, <2>3
<1> HIDE DEF t, f, pc
<1>9. /\ FilesTyped' /\ DOMAIN files' = DOMAIN files
      /\ \A g \in DOMAIN files : g # f => files'[g] = files[g]
      /\ f \in DOMAIN files =>
            /\ files'[f].lines = files[f].written /\ files'[f].written = files[f].written
            /\ files'[f].state = files[f].state
  <2>1. CASE f \in DOMAIN files
    <3>1. /\ files[f] \in FileState /\ files[f].lines \in Nat
          /\ files[f].lines + w.buffered = files[f].written
      BY <1>2, <1>3, <2>1 DEF Typed, FileState, Holds, f
    <3>2. [files[f] EXCEPT !.lines = @ + w.buffered] \in FileState
      BY <3>1 DEF FileState
    <3>3. files' = [files EXCEPT ![f] = [files[f] EXCEPT !.lines = @ + w.buffered]]
      BY <1>1, <2>1 DEF FlushBuffer
    <3>4. files'[f] = [files[f] EXCEPT !.lines = @ + w.buffered]
      BY <1>2, <2>1, <3>2, <3>3, OneFile
    <3> QED
      BY <1>2, <2>1, <3>1, <3>2, <3>3, <3>4, OneFile DEF FileState
  <2>2. CASE f \notin DOMAIN files
    <3>1. files' = files
      BY <1>1, <2>2 DEF FlushBuffer
    <3>2. FilesTyped'
      BY <1>2, <3>1 DEF Typed, FilesTyped
    <3> QED
      BY <2>2, <3>1, <3>2
  <2> QED
    BY <2>1, <2>2
<1>10. Typed'
  <2>1. writers' \in [Runs -> Seq(WriterType)]
    BY <1>1, <1>2, <1>4, <1>6 DEF Typed
  <2> QED
    BY <1>2, <1>8, <1>9, <2>1 DEF Typed, FilesTyped
<1>11. OthersKept(r) /\ SharedKept(r)
  BY <1>6, <1>7, <1>8, <1>9 DEF OthersKept, RunKept, FilesKept, SharedKept
<1>12. ASSUME NEW i \in DOMAIN t
       PROVE  t[i] \in WriterType /\ t[i].key # w.key /\ Holds(r, t[i])
  <2>1. PICK j \in DOMAIN writers[r] : t[i] = writers[r][j] /\ writers[r][j].key # w.key
    BY <1>5
  <2> QED
    BY <1>2, <2>1 DEF CacheSound
<1>13. CacheSound(r)'
  <2>1. ASSUME NEW i \in DOMAIN writers'[r]
        PROVE  Holds(r, writers[r][i])'
    <3>1. PICK v \in WriterType : v = writers'[r][i] /\ v.key # w.key /\ Holds(r, v)
      BY <1>6, <1>12
    <3>2. Id(r, v) # f
      BY <3>1, IdsDiffer DEF f
    <3>3. Holds(r, v)'
      BY <1>2, <1>9, <3>1, <3>2, HoldsStays
    <3> QED
      BY <3>1, <3>3 DEF Holds, Id
  <2>2. Alive(r) /\ Alive(r)'
    BY <1>8 DEF Alive
  <2>3. Len(writers'[r]) <= MaxWriters /\ Distinct(writers'[r])
    BY <1>2, <1>4, <1>6 DEF CacheSound
  <2> QED
    BY <2>1, <2>2, <2>3 DEF CacheSound, Distinct
<1>14. PublishSound(r)'
  <2>1. Kept(f)'
    <3>1. Kept(f) /\ (f \in DOMAIN files => files'[f].state = files[f].state)
      BY <1>3, <1>9 DEF Holds, f
    <3> QED
      BY <1>9, <3>1 DEF Kept
  <2>2. ASSUME NEW i \in DOMAIN writers'[r] PROVE Id(r, writers[r][i])' # f
    <3>1. PICK v \in WriterType : v = writers'[r][i] /\ v.key # w.key
      BY <1>6, <1>12
    <3> QED
      BY <3>1, IdsDiffer DEF f, Id
  <2>3. Kept(run[r].file)'
    BY <1>8, <2>1 DEF Kept
  <2> QED
    BY <1>7, <1>8, <1>9, <2>2, <2>3 DEF PublishSound, Id
<1>15. OpenSound(r)'
  <2> SUFFICES ASSUME key # NoKey, run'[r].pc = "publish"
               PROVE  /\ segment'[r] < MaxSegments /\ Len(writers'[r]) < MaxWriters
                      /\ written'[r] > 0
                      /\ \A i \in DOMAIN writers'[r] : writers'[r][i].key # key
    BY <1>8 DEF OpenSound, Pending
  <2>1. Len(t) < MaxWriters
    BY <1>2, <1>4 DEF CacheSound
  <2>2. \A i \in DOMAIN t : t[i].key # key
    BY <1>5
  <2> QED
    BY <1>6, <2>1, <2>2
<1>16. ASSUME NEW g \in DOMAIN files', g.run = r
       PROVE  FileSound(g)'
  <2>1. g \in DOMAIN files /\ FileSound(g) /\ g \in Files
    BY <1>2, <1>9, <1>16 DEF IInv, Typed
  <2>2. run'[r].pc # "absent" /\ segment'[r] = segment[r]
    BY <1>8
  <2>3. CASE g # f
    BY <1>2, <1>9, <1>10, <1>16, <2>1, <2>2, <2>3, FileStays
  <2>4. CASE g = f
    <3>1. files[f].written \in Nat /\ written[r] \in Nat
      BY <1>2, <2>1, <2>4, Counters DEF Typed, FileState
    <3> QED
      BY <1>2, <1>9, <1>16, <2>1, <2>2, <2>4, <3>1 DEF FileSound
  <2> QED
    BY <2>3, <2>4
<1> QED
  BY <1>8, <1>10, <1>11, <1>13, <1>14, <1>15, <1>16, OneRun DEF Dead

\* The three reasons to close a writer: its hour has ended, the run stops, ...
LEMMA ClosesSound ==
  ASSUME IInv, NEW r \in Runs, NEW n, CloseExpired(r, n) \/ CloseNext(r, n) PROVE IInv'
<1>1. /\ n \in DOMAIN writers[r] /\ CloseWriter(r, n, NoKey) /\ run[r].pc \in {"idle", "closing"}
      /\ UNCHANGED <<days, gate, segment, companion, time, meta, cutOff, written>>
  BY DEF CloseExpired, CloseNext
<1>2. written' \in [Runs -> 0..MaxLines] /\ written[r] <= written'[r]
  BY <1>1, Counters DEF IInv, Typed
<1> QED
  BY <1>1, <1>2, CloseSound

\* ... or another file needs its place.
LEMMA MissSound == ASSUME IInv, NEW r \in Runs, NEW k \in Keys, WriteMiss(r, k) PROVE IInv'
<1>1. /\ run[r].pc = "idle" /\ segment[r] < MaxSegments /\ written[r] < MaxLines
      /\ written' = [written EXCEPT ![r] = @ + 1]
      /\ \A i \in DOMAIN writers[r] : writers[r][i].key # k
      /\ UNCHANGED <<days, gate, segment, companion, time, meta, cutOff>>
  BY DEF WriteMiss, Wrote, IsOpen, ToSet
<1>2. /\ Typed /\ CacheSound(r) /\ writers[r] \in Seq(WriterType) /\ written[r] \in Nat
      /\ segment[r] \in Nat
  BY Counters DEF IInv, Typed
<1>3. /\ written' \in [Runs -> 0..MaxLines] /\ written'[r] = written[r] + 1
      /\ \A s \in Runs : s # r => written'[s] = written[s]
  <2>1. written[r] + 1 \in 0..MaxLines
    BY <1>1, <1>2
  <2> QED
    BY <1>1, <1>2, <2>1 DEF Typed
<1>4. written[r] <= written'[r] /\ written'[r] > 0
  BY <1>2, <1>3
<1>5. CASE Full(r)
  <2>1. 1 \in DOMAIN writers[r]
    BY <1>2, <1>5 DEF Full
  <2>2. CloseWriter(r, 1, k)
    BY <1>5 DEF WriteMiss
  <2> QED
    BY <1>1, <1>3, <1>4, <2>1, <2>2, CloseSound
<1>6. CASE ~Full(r)
  <2>1. Goto(r, "open", k, NoFile) /\ files' = files /\ writers' = writers
    BY <1>6 DEF WriteMiss
  <2>2. run' \in [Runs -> [pc : Pcs, key : Keys \cup {NoKey}, file : Files \cup {NoFile}]]
    BY <1>2, <2>1, GotoTyped DEF Pcs
  <2>3. /\ run'[r] = [pc |-> "open", key |-> k, file |-> NoFile]
        /\ \A s \in Runs : s # r => run'[s] = run[s]
    BY <1>2, <2>1, GotoSets
  <2>4. Typed'
    BY <1>1, <1>2, <1>3, <2>1, <2>2 DEF Typed
  <2>5. OthersKept(r) /\ SharedKept(r)
    BY <1>1, <1>2, <1>3, <2>1, <2>3, FilesUnchanged DEF OthersKept, RunKept, SharedKept
  <2>6. CacheSound(r)'
    <3>1. ASSUME NEW i \in DOMAIN writers'[r] PROVE Holds(r, writers[r][i])'
      <4>1. PICK v \in WriterType : v = writers'[r][i] /\ Holds(r, v)
        BY <1>2, <2>1 DEF CacheSound
      <4>2. Holds(r, v)'
        BY <1>1, <1>2, <1>3, <1>4, <2>1, <4>1, HoldsStays
      <4> QED
        BY <4>1, <4>2 DEF Holds, Id
    <3>2. Alive(r)'
      BY <2>3 DEF Alive
    <3> QED
      BY <1>2, <2>1, <3>1, <3>2 DEF CacheSound, Distinct
  <2>7. PublishSound(r)' /\ OpenSound(r)'
    <3>1. Len(writers[r]) < MaxWriters /\ k # NoKey
      BY <1>2, <1>6, Placeholders DEF Full
    <3> QED
      BY <1>1, <1>4, <2>1, <2>3, <3>1 DEF PublishSound, OpenSound, Pending
  <2>8. \A g \in DOMAIN files' : g.run = r => FileSound(g)'
    <3>1. segment[r] <= segment'[r]
      BY <1>1, <1>2
    <3> QED
      BY <1>4, <2>1, <2>3, <2>4, <3>1, OwnFilesStay
  <2> QED
    BY <1>1, <2>3, <2>4, <2>5, <2>6, <2>7, <2>8, OneRun DEF Dead
<1> QED
  BY <1>5, <1>6
-----------------------------------------------------------------------------
(* Publishing and opening *)

\* An open file that is not the one a step changes stays open.
LEMMA CacheStays ==
  ASSUME Typed, NEW r \in Runs, CacheSound(r), writers'[r] = writers[r],
         Alive(r)', segment' = segment, written' = written, cutOff' = cutOff, NEW f,
         \A i \in DOMAIN writers[r] : Id(r, writers[r][i]) # f,
         DOMAIN files' = DOMAIN files, \A g \in DOMAIN files : g # f => files'[g] = files[g]
  PROVE  CacheSound(r)'
<1>1. writers'[r] = writers[r] /\ writers[r] \in Seq(WriterType)
  BY DEF Typed
<1>2. ASSUME NEW i \in DOMAIN writers'[r] PROVE Holds(r, writers[r][i])'
  <2>1. PICK v \in WriterType : v = writers'[r][i] /\ Holds(r, v) /\ Id(r, v) # f
    BY <1>1 DEF CacheSound
  <2>2. Holds(r, v)'
    BY <2>1, HoldsStays, Counters
  <2> QED
    BY <2>1, <2>2 DEF Holds, Id
<1> QED
  BY <1>1, <1>2 DEF CacheSound, Distinct

\* A run that fails loses its writers and nothing else changes.
LEMMA FailSound ==
  ASSUME IInv, NEW r \in Runs, Goto(r, "failed", NoKey, NoFile),
         writers' = [writers EXCEPT ![r] = <<>>], run[r].pc \notin Dead,
         UNCHANGED <<files, days, segment, companion, time, written, meta, cutOff>>,
         \A x \in Runs \cup Companions : x # r /\ gate = x => gate' = x,
         gate' \in Runs \cup Companions \cup {NoGate}, r \in cutOff \/ split, run[r].pc # "absent"
  PROVE  IInv'
<1>1. /\ run'[r] = [pc |-> "failed", key |-> NoKey, file |-> NoFile]
      /\ \A s \in Runs : s # r => run'[s] = run[s]
      /\ run' \in [Runs -> [pc : Pcs, key : Keys \cup {NoKey}, file : Files \cup {NoFile}]]
  BY GotoSets, GotoTyped DEF IInv, Pcs
<1>2. writers'[r] = <<>> /\ writers' \in [Runs -> Seq(WriterType)]
      /\ \A s \in Runs : s # r => writers'[s] = writers[s]
  BY DEF IInv, Typed
<1>3. Typed'
  BY <1>1, <1>2 DEF IInv, Typed
<1>4. OthersKept(r) /\ SharedKept(r)
  BY <1>1, <1>2, FilesUnchanged DEF IInv, OthersKept, RunKept, SharedKept
<1>5. CacheSound(r)' /\ PublishSound(r)' /\ OpenSound(r)'
  BY <1>1, <1>2 DEF CacheSound, PublishSound, OpenSound, Distinct, Pending
<1>6. \A f \in DOMAIN files' : f.run = r => FileSound(f)'
  BY <1>1, <1>3, Counters, OwnFilesStay DEF IInv
<1> QED
  BY <1>1, <1>3, <1>4, <1>5, <1>6, OneRun

\* Publication: the file is there, unless a user has deleted it while it was active;
\* then the run fails, as without the marker or the gate, and only then.
LEMMA PublishStepSound == ASSUME IInv, NEW r \in Runs, Publish(r) PROVE IInv'
<1>1. PICK f : f = run[r].file
  OBVIOUS
<1>2. /\ run[r].pc \in {"publish", "publishLast"}
      /\ UNCHANGED <<days, gate, segment, companion, user, time, written, meta, cutOff>>
  BY DEF Publish
<1>3. /\ Typed /\ CacheSound(r) /\ OpenSound(r) /\ f \in Files /\ f.run = r /\ Kept(f)
      /\ \A i \in DOMAIN writers[r] : Id(r, writers[r][i]) # f
      /\ f \in DOMAIN files => files[f].lines = files[f].written
  BY <1>1, <1>2 DEF IInv, PublishSound
<1>4. CASE ~(recognized /\ f \in DOMAIN files)
  <2>1. Goto(r, "failed", NoKey, NoFile) /\ writers' = [writers EXCEPT ![r] = <<>>] /\ files' = files
    BY <1>1, <1>4 DEF Publish
  <2>2. r \in cutOff
    BY <1>2, <1>3, <1>4 DEF Kept, IInv, RootSound, Alive
  <2>3. gate' \in Runs \cup Companions \cup {NoGate}
    BY <1>2, <1>3 DEF Typed
  <2> QED
    BY <1>2, <1>3, <2>1, <2>2, <2>3, FailSound DEF Dead
<1>5. CASE recognized /\ f \in DOMAIN files
  <2> DEFINE pc == IF run[r].pc = "publishLast" THEN "closing"
                   ELSE IF run[r].key = NoKey THEN "idle" ELSE "open"
  <2>1. files[f].state = "active" /\ files[f] \in FileState
    BY <1>3, <1>5 DEF Kept, Typed
  <2>2. /\ files' = [files EXCEPT ![f] = [files[f] EXCEPT !.state = "closed"]]
        /\ Goto(r, pc, run[r].key, NoFile) /\ writers' = writers
    <3>1. /\ files' = [files EXCEPT ![f].state = "closed"]
          /\ Goto(r, pc, run[r].key, NoFile) /\ UNCHANGED writers
      <4> HIDE DEF pc
      <4>1. recognized /\ run[r].file \in DOMAIN files /\ files[run[r].file].state = "active"
        BY <1>1, <1>5, <2>1
      <4> QED
        BY <1>1, <4>1, Zenon DEF Publish, pc
    <3> QED
      BY <3>1, Zenon
  <2>3. [files[f] EXCEPT !.state = "closed"] \in FileState
    BY <2>1 DEF FileState, States
  <2>4. /\ FilesTyped' /\ DOMAIN files' = DOMAIN files
        /\ \A g \in DOMAIN files : g # f => files'[g] = files[g]
        /\ files'[f] = [files[f] EXCEPT !.state = "closed"]
    BY <1>3, <1>5, <2>2, <2>3, OneFile
  <2>5. pc \in Pcs /\ pc \in {"closing", "idle", "open"}
    BY DEF Pcs
  <2>6. run[r].key \in Keys \cup {NoKey}
    BY <1>3 DEF Typed
  <2>7. pc = "open" => run[r].pc = "publish" /\ run[r].key # NoKey
    BY <1>2
  <2> HIDE DEF pc
  <2>8. run' \in [Runs -> [pc : Pcs, key : Keys \cup {NoKey}, file : Files \cup {NoFile}]]
    BY <1>3, <2>2, <2>5, <2>6 DEF Goto, Typed
  <2>9. /\ run'[r] = [pc |-> pc, key |-> run[r].key, file |-> NoFile]
        /\ \A s \in Runs : s # r => run'[s] = run[s]
    BY <1>3, <2>2 DEF Goto, Typed
  <2>10. Typed'
    BY <1>2, <1>3, <2>2, <2>4, <2>8 DEF Typed, FilesTyped
  <2>11. OthersKept(r) /\ SharedKept(r)
    BY <1>2, <1>3, <2>2, <2>4, <2>9 DEF OthersKept, RunKept, FilesKept, SharedKept
  <2>12. CacheSound(r)'
    <3>1. Alive(r)'
      BY <2>5, <2>9 DEF Alive
    <3> QED
      BY <1>2, <1>3, <2>2, <2>4, <3>1, CacheStays
  <2>13. PublishSound(r)' /\ OpenSound(r)'
    BY <1>2, <1>3, <2>2, <2>5, <2>7, <2>9 DEF PublishSound, OpenSound, Pending
  <2>14. ASSUME NEW g \in DOMAIN files', g.run = r PROVE FileSound(g)'
    <3>1. g \in DOMAIN files /\ FileSound(g) /\ g \in Files
      BY <1>3, <2>4, <2>14 DEF IInv, Typed
    <3>2. CASE g # f
      BY <1>2, <1>3, <2>4, <2>5, <2>9, <2>10, <2>14, <3>1, <3>2, Counters, FileStays
    <3>3. CASE g = f
      <4>1. files'[f].lines = files[f].lines /\ files'[f].written = files[f].written
        BY <2>1, <2>4 DEF FileState
      <4> QED
        BY <1>2, <1>3, <2>5, <2>9, <2>14, <3>1, <3>3, <4>1 DEF FileSound
    <3> QED
      BY <3>2, <3>3
  <2> QED
    BY <1>2, <2>5, <2>9, <2>10, <2>11, <2>12, <2>13, <2>14, OneRun DEF Dead
<1> QED
  BY <1>4, <1>5

\* The directory is made under the gate, which the run then holds; without the
\* gate, of which a user has deprived it, the run fails.
LEMMA DirectorySound == ASSUME IInv, NEW r \in Runs, OpenDirectory(r) PROVE IInv'
<1>0. CASE ~recognized
  <2>1. /\ Goto(r, "failed", NoKey, NoFile) /\ writers' = [writers EXCEPT ![r] = <<>>]
        /\ run[r].pc = "open" /\ UNCHANGED <<files, days, gate, segment, companion, time, written, meta, cutOff>>
    BY <1>0 DEF OpenDirectory
  <2>2. r \in cutOff /\ gate' \in Runs \cup Companions \cup {NoGate}
    BY <1>0, <2>1 DEF IInv, RootSound, Alive, Typed
  <2> QED
    BY <2>1, <2>2, FailSound DEF Dead
<1> SUFFICES ASSUME recognized PROVE IInv'
  BY <1>0
<1>1. /\ run[r].pc = "open" /\ GateFree /\ gate' = r /\ days' = days \cup {run[r].key[1]}
      /\ Goto(r, "create", run[r].key, NoFile)
      /\ UNCHANGED <<files, writers, segment, companion, user, time, written, meta, cutOff>>
  BY DEF OpenDirectory, HoldGate
<1>2. /\ Typed /\ CacheSound(r) /\ OpenSound(r) /\ run[r].key \in Keys /\ run[r].key[1] \in Hours
  <2>1. run[r].key \in Keys
    BY <1>1 DEF IInv, Typed, OpenSound
  <2> QED
    BY <2>1 DEF IInv, Keys
<1>3. run' \in [Runs -> [pc : Pcs, key : Keys \cup {NoKey}, file : Files \cup {NoFile}]]
  BY <1>1, <1>2 DEF Goto, Typed, Pcs
<1>4. /\ run'[r] = [pc |-> "create", key |-> run[r].key, file |-> NoFile]
      /\ \A s \in Runs : s # r => run'[s] = run[s]
  BY <1>1, <1>2 DEF Goto, Typed
<1>5. Typed'
  BY <1>1, <1>2, <1>3 DEF Typed
<1>6. OthersKept(r) /\ SharedKept(r)
  BY <1>1, <1>2, <1>4, FilesUnchanged DEF OthersKept, RunKept, SharedKept, GateFree
<1>7. CacheSound(r)'
  <2>1. Alive(r)'
    BY <1>4 DEF Alive
  <2>2. ASSUME NEW i \in DOMAIN writers[r] PROVE Id(r, writers[r][i]) # NoFile
    BY <1>2, IdFile, Placeholders DEF Typed
  <2> QED
    BY <1>1, <1>2, <2>1, <2>2, CacheStays
<1>8. PublishSound(r)' /\ OpenSound(r)'
  BY <1>1, <1>2, <1>4 DEF PublishSound, OpenSound, Pending
<1>9. \A g \in DOMAIN files' : g.run = r => FileSound(g)'
  BY <1>1, <1>2, <1>4, <1>5, Counters, OwnFilesStay
<1> QED
  BY <1>1, <1>4, <1>5, <1>6, <1>7, <1>8, <1>9, OneRun DEF Dead

\* The file is made while the gate is held: its directory is still there, unless a
\* user has taken it or split the gate, and its segment makes it a file that never was.
LEMMA CreateSound == ASSUME IInv, NEW r \in Runs, OpenCreate(r) PROVE IInv'
<1>1. PICK k \in Keys : k = run[r].key
  BY DEF OpenCreate, IInv, Typed, OpenSound
<1>0. CASE k[1] \notin days
  <2>1. /\ Goto(r, "failed", NoKey, NoFile) /\ writers' = [writers EXCEPT ![r] = <<>>]
        /\ run[r].pc = "create" /\ UNCHANGED <<files, days, segment, companion, time, written, meta, cutOff>>
        /\ gate' = Release(r)
    BY <1>0, <1>1 DEF OpenCreate
  <2>2. r \in cutOff \/ split
    BY <1>0, <1>1, <2>1 DEF IInv, OpenSound
  <2>3. Typed
    BY DEF IInv
  <2> QED
    BY <2>1, <2>2, <2>3, Released, FailSound DEF Dead
<1> SUFFICES ASSUME k[1] \in days PROVE IInv'
  BY <1>0
<1>2. /\ Typed /\ CacheSound(r) /\ OpenSound(r) /\ run[r].pc = "create" /\ k # NoKey
      /\ writers[r] \in Seq(WriterType)
  BY <1>1, Placeholders DEF OpenCreate, IInv, OpenSound, Typed
<1>3. PICK n \in Nat : n = segment[r]
  BY <1>2, Counters
<1> DEFINE f == [run |-> r, key |-> k, segment |-> n + 1]
           w == [key |-> k, segment |-> n + 1, buffered |-> 1]
           v == [state |-> "active", lines |-> 0, written |-> 1]
<1>4. /\ gate' = Release(r) /\ segment' = [segment EXCEPT ![r] = @ + 1]
      /\ files' = [g \in DOMAIN files \cup {f} |-> IF g = f THEN v ELSE files[g]]
      /\ writers' = [writers EXCEPT ![r] = Append(@, w)]
      /\ Goto(r, "idle", NoKey, NoFile)
      /\ UNCHANGED <<days, companion, user, time, written, meta, cutOff>>
  BY <1>1, <1>2, <1>3 DEF OpenCreate
<1>5. /\ n < MaxSegments /\ Len(writers[r]) < MaxWriters /\ written[r] > 0
      /\ written[r] \in 0..MaxLines /\ \A i \in DOMAIN writers[r] : writers[r][i].key # k
  BY <1>1, <1>2, <1>3 DEF OpenSound, Pending, Typed
<1>6. f \in Files /\ w \in WriterType /\ v \in FileState
  <2>1. n + 1 \in 1..MaxSegments /\ 1 \in 0..MaxLines /\ 0 \in 0..MaxLines
    BY <1>5
  <2> QED
    BY <2>1 DEF Files, WriterType, FileState, States
<1>7. f \notin DOMAIN files
  <2> SUFFICES ASSUME f \in DOMAIN files PROVE FALSE
    OBVIOUS
  <2>1. FileSound(f)
    BY DEF IInv
  <2>2. n + 1 <= n
    BY <1>3, <2>1 DEF FileSound
  <2> QED
    BY <2>2
<1>8. Id(r, w) = f /\ Id(r, w)' = f /\ w.key = k /\ w.buffered = 1 /\ w.segment = n + 1
  BY DEF Id
<1>9. f.run = r /\ f.segment = n + 1 /\ v.state = "active" /\ v.lines = 0 /\ v.written = 1
  OBVIOUS
<1> HIDE DEF f, w, v
<1>10. /\ DOMAIN files' = DOMAIN files \cup {f} /\ files'[f] = v
       /\ \A g \in DOMAIN files : files'[g] = files[g]
       /\ files' = [g \in DOMAIN files' |-> files'[g]]
  BY <1>4, <1>7
<1>11. /\ segment' \in [Runs -> 0..MaxSegments] /\ segment'[r] = n + 1
       /\ \A s \in Runs : s # r => segment'[s] = segment[s]
  <2>1. n + 1 \in 0..MaxSegments
    BY <1>5
  <2> QED
    BY <1>2, <1>3, <1>4, <2>1 DEF Typed
<1>12. /\ Append(writers[r], w) \in Seq(WriterType)
       /\ Len(Append(writers[r], w)) = Len(writers[r]) + 1 /\ Distinct(Append(writers[r], w))
       /\ \A m \in DOMAIN Append(writers[r], w) :
             \/ Append(writers[r], w)[m] = w
             \/ \E i \in DOMAIN writers[r] : Append(writers[r], w)[m] = writers[r][i]
  BY <1>2, <1>5, <1>6, <1>8, Added DEF CacheSound
<1>13. /\ writers'[r] = Append(writers[r], w) /\ writers' \in [Runs -> Seq(WriterType)]
       /\ \A s \in Runs : s # r => writers'[s] = writers[s]
  BY <1>2, <1>4, <1>12 DEF Typed
<1>14. /\ run'[r] = [pc |-> "idle", key |-> NoKey, file |-> NoFile]
       /\ \A s \in Runs : s # r => run'[s] = run[s]
       /\ run' \in [Runs -> [pc : Pcs, key : Keys \cup {NoKey}, file : Files \cup {NoFile}]]
  <2>1. Goto(r, "idle", NoKey, NoFile) /\ "idle" \in Pcs /\ Typed
    BY <1>2, <1>4 DEF Pcs
  <2>2. run' \in [Runs -> [pc : Pcs, key : Keys \cup {NoKey}, file : Files \cup {NoFile}]]
    BY <2>1, GotoTyped
  <2> QED
    BY <2>1, <2>2, GotoSets
<1>15. Typed'
  <2>1. DOMAIN files' \subseteq Files /\ \A g \in DOMAIN files' : files'[g] \in FileState
    BY <1>2, <1>6, <1>10 DEF Typed
  <2> QED
    BY <1>2, <1>4, <1>10, <1>11, <1>13, <1>14, <2>1, Released DEF Typed
<1>16. OthersKept(r) /\ SharedKept(r)
  <2>1. OthersKept(r)
    BY <1>4, <1>9, <1>10, <1>11, <1>13, <1>14 DEF OthersKept, RunKept, FilesKept
  <2>2. SharedKept(r)
    BY <1>2, <1>4, Released DEF SharedKept
  <2> QED
    BY <2>1, <2>2
<1>17. CacheSound(r)'
  <2>1. Holds(r, w)'
    <3>1. Kept(f)'
      BY <1>9, <1>10 DEF Kept
    <3>2. w.segment <= segment'[r] /\ w.buffered <= written'[r]
      BY <1>4, <1>5, <1>8, <1>11
    <3>3. files'[f].lines + w.buffered = files'[f].written
      BY <1>8, <1>9, <1>10
    <3> QED
      BY <1>8, <3>1, <3>2, <3>3 DEF Holds
  <2>2. ASSUME NEW x \in WriterType, Holds(r, x)
        PROVE  Holds(r, x)'
    <3>1. Id(r, x) # f
      <4>1. x.segment \in Nat /\ x.segment <= n /\ Id(r, x).segment = x.segment
        BY <1>3, <2>2 DEF Holds, WriterType, Id
      <4> QED
        BY <1>9, <4>1
    <3>2. segment[r] <= segment'[r] /\ segment'[r] \in Nat /\ written'[r] = written[r]
          /\ written[r] \in Nat
      BY <1>3, <1>4, <1>5, <1>11
    <3>3. Id(r, x) \in DOMAIN files' <=> Id(r, x) \in DOMAIN files
      BY <1>10, <3>1
    <3> QED
      <4>1. Id(r, x) \in DOMAIN files => files'[Id(r, x)] = files[Id(r, x)]
        BY <1>10
      <4>2. written[r] <= written'[r] /\ written'[r] \in Nat /\ cutOff' = cutOff
        BY <1>4, <3>2
      <4> QED
        BY <1>2, <2>2, <3>2, <3>3, <4>1, <4>2, HoldsStays
  <2>3. ASSUME NEW i \in DOMAIN writers'[r] PROVE Holds(r, writers[r][i])'
    <3>1. PICK x \in WriterType : x = writers'[r][i]
      BY <1>12, <1>13
    <3>2. x = w \/ Holds(r, x)
      BY <1>2, <1>12, <1>13, <3>1 DEF CacheSound
    <3>3. Holds(r, x)'
      BY <2>1, <2>2, <3>2 DEF w
    <3> QED
      BY <3>1, <3>3 DEF Holds, Id
  <2>4. Alive(r)'
    BY <1>14 DEF Alive
  <2>5. Len(writers'[r]) <= MaxWriters /\ Distinct(writers'[r])
    BY <1>2, <1>5, <1>12, <1>13
  <2> QED
    BY <2>3, <2>4, <2>5 DEF CacheSound, Distinct
<1>18. PublishSound(r)' /\ OpenSound(r)'
  BY <1>14 DEF PublishSound, OpenSound, Pending
<1>19. ASSUME NEW g \in DOMAIN files', g.run = r PROVE FileSound(g)'
  <2>1. CASE g = f
    BY <1>4, <1>5, <1>9, <1>10, <1>11, <1>14, <2>1 DEF FileSound
  <2>2. CASE g # f
    <3>1. g \in DOMAIN files /\ FileSound(g) /\ g \in Files
      BY <1>2, <1>10, <2>2 DEF IInv, Typed
    <3>2. segment[r] <= segment'[r] /\ written[r] <= written'[r]
      BY <1>3, <1>4, <1>5, <1>11
    <3> QED
      BY <1>2, <1>10, <1>14, <1>15, <1>19, <3>1, <3>2, FileStays
  <2> QED
    BY <2>1, <2>2
<1> QED
  BY <1>2, <1>14, <1>15, <1>16, <1>17, <1>18, <1>19, OneRun DEF Dead

\* A writer whose buffer is empty is of the same file.
LEMMA Emptied ==
  \A w \in WriterType :
     LET x == [w EXCEPT !.buffered = 0] IN
     /\ x \in WriterType /\ x.key = w.key /\ x.segment = w.segment /\ x.buffered = 0
BY DEF WriterType

\* `flush`: every buffer goes to its file, and to no other.
LEMMA FlushSound == ASSUME IInv, NEW r \in Runs, Flush(r) PROVE IInv'
<1> DEFINE ws == writers[r]
           of(f) == {w \in ToSet(ws) : Id(r, w) = f}
<1>1. /\ run[r].pc = "idle" /\ UNCHANGED <<days, gate, run, segment, companion, user, time, written, meta, cutOff>>
      /\ files' = [f \in DOMAIN files |->
                     IF of(f) = {} THEN files[f]
                     ELSE [files[f] EXCEPT !.lines = @ + (CHOOSE w \in of(f) : TRUE).buffered]]
      /\ writers' = [writers EXCEPT ![r] = [n \in DOMAIN @ |-> [@[n] EXCEPT !.buffered = 0]]]
  BY DEF Flush
<1>2. /\ Typed /\ CacheSound(r) /\ ws \in Seq(WriterType) /\ segment[r] \in Nat /\ written[r] \in Nat
      /\ Distinct(ws)
  BY Counters DEF IInv, Typed, CacheSound
<1>3. ASSUME NEW f \in DOMAIN files, NEW i \in DOMAIN ws, Id(r, ws[i]) = f
      PROVE  of(f) = {ws[i]}
  <2>1. ws[i] \in of(f)
    BY <1>3 DEF ToSet
  <2>2. ASSUME NEW x \in of(f) PROVE x = ws[i]
    <3>1. PICK j \in DOMAIN ws : x = ws[j]
      BY <2>2 DEF ToSet
    <3>2. ws[i].key = ws[j].key
      BY <1>2, <1>3, <2>2, <3>1, IdsDiffer
    <3> QED
      BY <1>2, <3>1, <3>2 DEF Distinct
  <2> QED
    BY <2>1, <2>2
<1>4. ASSUME NEW f \in DOMAIN files, \A i \in DOMAIN ws : Id(r, ws[i]) # f
      PROVE  of(f) = {}
  BY <1>4 DEF ToSet
<1> HIDE DEF of
<1>5. ASSUME NEW f \in DOMAIN files, NEW i \in DOMAIN ws, Id(r, ws[i]) = f
      PROVE  /\ files'[f] = [files[f] EXCEPT !.lines = files[f].written]
             /\ f.run = r
  <2>1. (CHOOSE w \in of(f) : TRUE) = ws[i] /\ of(f) # {}
    BY <1>3, <1>5
  <2>2. Holds(r, ws[i]) /\ ws[i] \in WriterType
    BY <1>2 DEF CacheSound
  <2>3. files[f].lines + ws[i].buffered = files[f].written
    BY <1>5, <2>2 DEF Holds
  <2>4. files'[f] = [files[f] EXCEPT !.lines = @ + ws[i].buffered]
    BY <1>1, <2>1
  <2> QED
    BY <1>5, <2>2, <2>3, <2>4, IdFile
<1>6. ASSUME NEW f \in DOMAIN files, \A i \in DOMAIN ws : Id(r, ws[i]) # f
      PROVE  files'[f] = files[f]
  BY <1>1, <1>4, <1>6
<1>7. ASSUME NEW f \in DOMAIN files
      PROVE  /\ files'[f].state = files[f].state /\ files'[f].written = files[f].written
             /\ files'[f].lines \in {files[f].lines, files[f].written}
             /\ files'[f] \in FileState
             /\ f.run # r => files'[f] = files[f]
  <2>1. files[f] \in FileState /\ files[f].lines \in Nat /\ files[f].written \in Nat
    BY <1>2 DEF Typed, FileState
  <2> QED
    BY <1>5, <1>6, <2>1 DEF FileState
<1>8. DOMAIN files' = DOMAIN files /\ files' = [f \in DOMAIN files' |-> files'[f]]
  BY <1>1
<1>9. /\ DOMAIN writers'[r] = DOMAIN ws /\ writers'[r] \in Seq(WriterType)
      /\ Len(writers'[r]) = Len(ws)
      /\ \A i \in DOMAIN ws : writers'[r][i] = [ws[i] EXCEPT !.buffered = 0]
      /\ \A s \in Runs : s # r => writers'[s] = writers[s]
  <2> DEFINE t == [n \in DOMAIN ws |-> [ws[n] EXCEPT !.buffered = 0]]
  <2>1. writers'[r] = t /\ \A s \in Runs : s # r => writers'[s] = writers[s]
    BY <1>1, <1>2 DEF Typed
  <2>2. \A n \in 1..Len(ws) : [ws[n] EXCEPT !.buffered = 0] \in WriterType
    BY <1>2, Emptied
  <2>3. DOMAIN ws = 1..Len(ws) /\ Len(ws) \in Nat
    BY <1>2
  <2>4. t \in Seq(WriterType) /\ DOMAIN t = DOMAIN ws /\ Len(t) = Len(ws)
    BY <2>2, <2>3
  <2> QED
    BY <2>1, <2>4
<1> HIDE DEF ws
<1>10. writers' \in [Runs -> Seq(WriterType)]
  BY <1>1, <1>2, <1>9 DEF Typed
<1>11. Typed'
  BY <1>1, <1>2, <1>7, <1>8, <1>10 DEF Typed
<1>12. OthersKept(r) /\ SharedKept(r)
  BY <1>1, <1>7, <1>8, <1>9 DEF OthersKept, RunKept, FilesKept, SharedKept
<1>13. CacheSound(r)'
  <2>1. ASSUME NEW i \in DOMAIN ws
        PROVE  Holds(r, writers[r][i])'
    <3>1. PICK v \in WriterType : v = writers[r][i] /\ Holds(r, v)
      BY <1>2 DEF CacheSound, ws
    <3>2. PICK x \in WriterType : x = writers'[r][i] /\ x.key = v.key /\ x.segment = v.segment /\ x.buffered = 0
      <4>1. writers'[r][i] = [v EXCEPT !.buffered = 0]
        BY <1>9, <3>1 DEF ws
      <4> QED
        BY <4>1, Emptied
    <3>3. Id(r, x) = Id(r, v) /\ Id(r, writers[r][i])' = Id(r, v)
      BY <3>2 DEF Id
    <3>4. Kept(Id(r, v))'
      BY <1>1, <1>7, <1>8, <3>1 DEF Kept, Holds, Id
    <3>5. PICK f : f = Id(r, v)
      OBVIOUS
    <3>6. f \in DOMAIN files => files'[f].lines = files'[f].written /\ files'[f].written \in Nat
      <4> SUFFICES ASSUME f \in DOMAIN files
                   PROVE  files'[f].lines = files'[f].written /\ files'[f].written \in Nat
        OBVIOUS
      <4>1. files'[f] = [files[f] EXCEPT !.lines = files[f].written]
        BY <1>5, <3>1, <3>5 DEF ws
      <4>2. files[f] \in FileState /\ files[f].written \in Nat
        BY <1>2 DEF Typed, FileState
      <4> QED
        BY <4>1, <4>2 DEF FileState
    <3>7. x.segment <= segment'[r] /\ x.buffered <= written'[r]
      BY <1>1, <1>2, <3>1, <3>2 DEF Holds
    <3>8. Kept(f)'
      BY <3>4, <3>5 DEF Kept, Id
    <3>9. f \in DOMAIN files' => files'[f].lines + x.buffered = files'[f].written
      BY <1>8, <3>2, <3>6
    <3>10. Id(r, writers[r][i])' = f /\ writers'[r][i] = x
      BY <3>2, <3>3, <3>5
    <3> QED
      BY <3>7, <3>8, <3>9, <3>10 DEF Holds, Kept
  <2>2. Distinct(writers[r])'
    <3>1. \A i \in DOMAIN ws : writers'[r][i].key = ws[i].key
      <4> SUFFICES ASSUME NEW i \in DOMAIN ws PROVE writers'[r][i].key = ws[i].key
        OBVIOUS
      <4>1. ws[i] \in WriterType /\ writers'[r][i] = [ws[i] EXCEPT !.buffered = 0]
        BY <1>2, <1>9
      <4> QED
        BY <4>1, Emptied
    <3> QED
      BY <1>2, <1>9, <3>1 DEF Distinct
  <2>3. Alive(r)' /\ Len(writers'[r]) <= MaxWriters
    BY <1>1, <1>2, <1>9 DEF Alive, CacheSound, ws
  <2> QED
    BY <1>9, <2>1, <2>2, <2>3 DEF CacheSound
<1>14. PublishSound(r)' /\ OpenSound(r)'
  BY <1>1 DEF PublishSound, OpenSound, Pending
<1>15. ASSUME NEW g \in DOMAIN files', g.run = r PROVE FileSound(g)'
  <2>1. g \in DOMAIN files /\ FileSound(g)
    BY <1>8 DEF IInv
  <2>2. files[g].lines \in Nat /\ files[g].written \in Nat
    BY <1>2, <2>1 DEF Typed, FileState
  <2> QED
    BY <1>1, <1>7, <1>15, <2>1, <2>2 DEF FileSound
<1> QED
  BY <1>1, <1>11, <1>12, <1>13, <1>14, <1>15, OneRun DEF Dead
-----------------------------------------------------------------------------
(* Companions, users and time *)

\* A step that is no run's preserves the invariant if it leaves the files of
\* live runs alone, but for the active ones that a user deletes.
LEMMA NoRun ==
  ASSUME IInv, Typed', UNCHANGED <<run, writers, segment, written>>, cutOff \subseteq cutOff',
         \A r \in Runs : FilesKept(r) \/ run[r].pc \in Dead,
         \A r \in Runs : StillGated(r) /\ StillRooted(r), split => split',
         \A f \in DOMAIN files' : FileSound(f)',
         \A c \in Companions : CompanionSound(c)'
  PROVE  IInv'
<1>1. ASSUME NEW r \in Runs
      PROVE  CacheSound(r)' /\ PublishSound(r)' /\ OpenSound(r)' /\ RootSound(r)'
  <2>1. RunKept(r)
    BY DEF RunKept
  <2>2. RootSound(r)'
    BY DEF StillRooted, RootSound, Alive
  <2> QED
    BY <2>1, <2>2, RunStays DEF IInv
<1>2. OnlyUsersFailRuns'
  BY DEF IInv, OnlyUsersFailRuns
<1> QED
  BY <1>1, <1>2 DEF IInv

\* A step that leaves the directories and the metadata, and a gate that a run holds.
LEMMA StillThere ==
  ASSUME IInv, NEW r \in Runs, UNCHANGED <<meta, days>>, cutOff \subseteq cutOff',
         split \/ (gate = r => gate' = r)
  PROVE  StillGated(r) /\ StillRooted(r)
BY DEF StillGated, StillRooted, IInv, OpenSound, RootSound

\* Nothing of a file's soundness changes where the files and the runs do not.
LEMMA FilesSoundStay ==
  ASSUME IInv, Typed', UNCHANGED <<run, segment, written>>, NEW f \in DOMAIN files',
         f \in DOMAIN files, files'[f] = files[f]
  PROVE  FileSound(f)'
<1>1. f \in Files /\ f.run \in Runs /\ FileSound(f) /\ Typed
  BY DEF IInv, Typed, Files
<1>2. segment[f.run] \in Nat /\ written[f.run] \in Nat
  BY <1>1, Counters
<1> QED
  BY <1>1, <1>2, FileStays DEF FileSound

\* The traversal meets a file, or the check under the gate ends: the lease of a
\* run is free only when the run has ended.
LEMMA CheckSound ==
  ASSUME IInv, NEW c \in Companions, RecoverCheck(c) \/ \E f \in DOMAIN files : Meet(c, f)
  PROVE  IInv'
<1>1. /\ UNCHANGED <<files, days, run, writers, segment, user, time, written, meta, cutOff>>
      /\ \A d \in Companions : d # c => companion'[d] = companion[d]
      /\ split \/ gate = NoGate \/ gate' = gate
      /\ gate' = gate \/ gate' = c
  BY DEF RecoverCheck, Meet, IInv, Typed, GateFree
<1>2. /\ companion' \in [Companions -> [pc : {"scan", "recover", "rename"}, file : Files \cup {NoFile}]]
      /\ CompanionSound(c)'
  <2>1. CASE \E f \in DOMAIN files : Meet(c, f)
    <3>1. PICK f \in Files : companion' = [companion EXCEPT ![c] = [pc |-> "recover", file |-> f]]
      BY <2>1 DEF Meet, IInv, Typed
    <3> QED
      BY <3>1 DEF CompanionSound, IInv, Typed
  <2>2. ASSUME RecoverCheck(c), companion' = [companion EXCEPT ![c] = Resting]
        PROVE  /\ companion' \in [Companions -> [pc : {"scan", "recover", "rename"}, file : Files \cup {NoFile}]]
               /\ CompanionSound(c)'
    BY <2>2 DEF CompanionSound, IInv, Typed, Resting
  <2>3. ASSUME RecoverCheck(c), companion' = [companion EXCEPT ![c].pc = "rename"], gate' = c,
               companion[c].file \in DOMAIN files, LeaseFree(companion[c].file.run)
        PROVE  /\ companion' \in [Companions -> [pc : {"scan", "recover", "rename"}, file : Files \cup {NoFile}]]
               /\ CompanionSound(c)'
    <3>1. companion[c] \in [pc : {"scan", "recover", "rename"}, file : Files \cup {NoFile}]
      BY DEF IInv, Typed
    <3>2. companion' = [companion EXCEPT ![c] = [pc |-> "rename", file |-> companion[c].file]]
      <4>1. companion' = [companion EXCEPT ![c] = [companion[c] EXCEPT !.pc = "rename"]]
        BY <2>3, Zenon
      <4>2. [companion[c] EXCEPT !.pc = "rename"] = [pc |-> "rename", file |-> companion[c].file]
        BY <3>1
      <4> QED
        BY <4>1, <4>2
    <3>3. companion[c].file \in Files /\ FileSound(companion[c].file)
      BY <2>3 DEF IInv, Typed
    <3>4. run[companion[c].file.run].pc \in Dead
      BY <2>3, <3>3 DEF LeaseFree, Alive, FileSound, Dead
    <3>5. companion'[c] = [pc |-> "rename", file |-> companion[c].file] /\ run' = run
      BY <1>1, <3>2 DEF IInv, Typed
    <3>6. CompanionSound(c)'
      BY <2>3, <3>3, <3>4, <3>5 DEF CompanionSound
    <3>7. companion' \in [Companions -> [pc : {"scan", "recover", "rename"}, file : Files \cup {NoFile}]]
      BY <3>2, <3>3 DEF IInv, Typed
    <3> QED
      BY <3>6, <3>7
  <2> QED
    BY <2>1, <2>2, <2>3 DEF RecoverCheck
<1>3. Typed'
  BY <1>1, <1>2 DEF IInv, Typed
<1>4. \A r \in Runs : FilesKept(r) /\ StillGated(r) /\ StillRooted(r)
  <2> SUFFICES ASSUME NEW r \in Runs PROVE FilesKept(r) /\ StillGated(r) /\ StillRooted(r)
    OBVIOUS
  <2>1. split \/ (gate = r => gate' = r)
    BY <1>1
  <2> QED
    BY <1>1, <2>1, FilesUnchanged, StillThere DEF IInv
<1>5. \A f \in DOMAIN files' : FileSound(f)'
  BY <1>1, <1>3, FilesSoundStay
<1>6. ASSUME NEW d \in Companions, d # c PROVE CompanionSound(d)'
  BY <1>1, <1>6, CompanionStays DEF IInv, DeadStay
<1> QED
  BY <1>1, <1>2, <1>3, <1>4, <1>5, <1>6, NoRun

\* The rename: only a file of a run that has ended is taken away from it.
LEMMA RenameSound == ASSUME IInv, NEW c \in Companions, RecoverRename(c) PROVE IInv'
<1>1. PICK f : f = companion[c].file
  OBVIOUS
<1>2. /\ companion[c].pc = "rename" /\ gate' = Release(c)
      /\ companion' = [companion EXCEPT ![c] = Resting]
      /\ UNCHANGED <<days, run, writers, segment, user, time, written, meta, cutOff>>
  BY DEF RecoverRename
<1>3. /\ Typed /\ f \in Files /\ f.run \in Runs /\ run[f.run].pc \in Dead
  BY <1>1, <1>2 DEF IInv, CompanionSound, Files
<1>4. /\ FilesTyped' /\ DOMAIN files' = DOMAIN files
      /\ \A g \in DOMAIN files : g # f => files'[g] = files[g]
      /\ f \in DOMAIN files => files'[f] = files[f] \/ files'[f] = [files[f] EXCEPT !.state = "recovered"]
  <2>1. CASE f \in DOMAIN files /\ files[f].state = "active"
    <3>1. files' = [files EXCEPT ![f].state = "recovered"]
      BY <1>1, <2>1 DEF RecoverRename
    <3>2. files' = [files EXCEPT ![f] = [files[f] EXCEPT !.state = "recovered"]]
      BY <3>1, Zenon
    <3>3. [files[f] EXCEPT !.state = "recovered"] \in FileState
      BY <1>3, <2>1 DEF Typed, FileState, States
    <3> QED
      BY <1>3, <2>1, <3>2, <3>3, OneFile
  <2>2. CASE ~(f \in DOMAIN files /\ files[f].state = "active")
    <3>1. files' = files
      BY <1>1, <2>2 DEF RecoverRename
    <3> QED
      BY <1>3, <3>1 DEF Typed, FilesTyped
  <2> QED
    BY <2>1, <2>2
<1>5. /\ companion' \in [Companions -> [pc : {"scan", "recover", "rename"}, file : Files \cup {NoFile}]]
      /\ companion'[c] = Resting /\ \A d \in Companions : d # c => companion'[d] = companion[d]
  BY <1>2, <1>3 DEF Typed, Resting
<1>6. Typed'
  BY <1>2, <1>3, <1>4, <1>5, Released DEF Typed, FilesTyped
<1>7. ASSUME NEW r \in Runs PROVE FilesKept(r) \/ run[r].pc \in Dead
  BY <1>3, <1>4 DEF FilesKept
<1>8. ASSUME NEW g \in DOMAIN files' PROVE FileSound(g)'
  <2>1. CASE g # f
    BY <1>2, <1>4, <1>6, <2>1, FilesSoundStay
  <2>2. CASE g = f /\ files'[f] = files[f]
    BY <1>2, <1>4, <1>6, <2>2, FilesSoundStay
  <2>3. CASE g = f /\ files'[f] = [files[f] EXCEPT !.state = "recovered"]
    <3>1. /\ files'[f].lines = files[f].lines /\ files'[f].written = files[f].written
          /\ files'[f].state = "recovered" /\ FileSound(f)
      BY <1>3, <1>4, <2>3 DEF IInv, Typed, FileState
    <3> QED
      BY <1>2, <2>3, <3>1 DEF FileSound
  <2> QED
    BY <1>4, <2>1, <2>2, <2>3
<1>9. ASSUME NEW d \in Companions PROVE CompanionSound(d)'
  <2>1. CASE d = c
    BY <1>5, <2>1 DEF CompanionSound, Resting
  <2>2. CASE d # c
    BY <1>2, <1>3, <1>5, <2>2 DEF IInv, CompanionSound
  <2> QED
    BY <2>1, <2>2
<1>10. \A r \in Runs : StillGated(r) /\ StillRooted(r)
  BY <1>2, <1>3, Released, StillThere
<1> QED
  BY <1>2, <1>6, <1>7, <1>8, <1>9, <1>10, NoRun

\* A companion removes a directory only while no run holds the gate, so that none is
\* about to create a file in it, as long as the gate is one.
LEMMA DaySound ==
  ASSUME IInv, NEW c \in Companions, NEW d \in Hours, RemoveDay(c, d) PROVE IInv'
<1>1. /\ GateFree /\ days' \subseteq days
      /\ UNCHANGED <<files, gate, run, writers, segment, companion, user, time, written, meta, cutOff>>
  BY DEF RemoveDay
<1>2. Typed'
  BY <1>1 DEF IInv, Typed
<1>3. \A r \in Runs : FilesKept(r) /\ StillGated(r) /\ StillRooted(r)
  BY <1>1, FilesUnchanged DEF IInv, StillGated, StillRooted, GateFree, OpenSound, RootSound
<1>4. \A f \in DOMAIN files' : FileSound(f)'
  BY <1>1, <1>2, FilesSoundStay
<1>5. \A b \in Companions : CompanionSound(b)'
  BY <1>1, CompanionStays DEF IInv, DeadStay
<1> QED
  BY <1>1, <1>2, <1>3, <1>4, <1>5, NoRun

\* A user deletes a file, and is accountable for it if it was active.
LEMMA DeleteSound == ASSUME IInv, NEW u \in Users, NEW i, Delete(u, i) PROVE IInv'
<1>1. PICK f : f = i.file
  OBVIOUS
<1>2. UNCHANGED <<days, gate, run, writers, segment, companion, time, written, meta>>
  BY DEF Delete
<1>3. \/ UNCHANGED <<files, cutOff>>
      \/ /\ f \in DOMAIN files /\ files' = Without(f)
         /\ cutOff' = IF files[f].state = "active" THEN cutOff \cup {f.run} ELSE cutOff
  BY <1>1 DEF Delete
<1>4. Typed
  BY DEF IInv
<1>5. /\ DOMAIN files' \subseteq DOMAIN files /\ \A g \in DOMAIN files' : files'[g] = files[g]
      /\ files' = [g \in DOMAIN files' |-> files'[g]]
      /\ cutOff \subseteq cutOff' /\ cutOff' \subseteq Runs
      /\ \A g \in DOMAIN files \ DOMAIN files' : files[g].state # "active" \/ g.run \in cutOff'
  <2>1. CASE UNCHANGED <<files, cutOff>>
    BY <1>4, <2>1 DEF Typed
  <2>2. CASE /\ f \in DOMAIN files /\ files' = Without(f)
             /\ cutOff' = IF files[f].state = "active" THEN cutOff \cup {f.run} ELSE cutOff
    <3>1. DOMAIN files' = DOMAIN files \ {f} /\ \A g \in DOMAIN files' : files'[g] = files[g]
      BY <2>2 DEF Without
    <3>2. files' = [g \in DOMAIN files' |-> files'[g]]
      BY <2>2 DEF Without
    <3>3. f.run \in Runs
      BY <1>4, <2>2 DEF Typed, Files
    <3> QED
      BY <1>4, <2>2, <3>1, <3>2, <3>3 DEF Typed
  <2> QED
    BY <1>3, <2>1, <2>2
<1>6. Typed'
  BY <1>2, <1>4, <1>5 DEF Typed
<1>7. \A r \in Runs : FilesKept(r) /\ StillGated(r) /\ StillRooted(r)
  BY <1>2, <1>5, StillThere DEF FilesKept
<1>8. \A g \in DOMAIN files' : FileSound(g)'
  BY <1>2, <1>5, <1>6, FilesSoundStay
<1>9. \A c \in Companions : CompanionSound(c)'
  BY <1>2, CompanionStays DEF IInv, DeadStay
<1> QED
  BY <1>2, <1>5, <1>6, <1>7, <1>8, <1>9, NoRun

\* A user deletes a directory, even one that a run has just made, or metadata, and is
\* accountable to the runs that were about to use them.
LEMMA EntrySound ==
  ASSUME IInv, NEW u \in Users,
         \/ \E d \in Hours : DeleteDay(u, d)
         \/ DeleteMetadata(u) \/ \E r \in Runs : DeleteLease(u, r)
  PROVE  IInv'
<1>1. /\ UNCHANGED <<files, gate, run, writers, segment, companion, time, written>>
      /\ cutOff \subseteq cutOff' /\ days' \subseteq days /\ leases' \subseteq leases
      /\ cutOff' \subseteq Runs
  BY DEF DeleteDay, DeleteMetadata, DeleteLease, IInv, Typed
<1>2. /\ recognized' = recognized \/ recognized' = FALSE
      /\ split' = split \/ split' = TRUE
  BY Zenon DEF DeleteDay, DeleteMetadata, DeleteLease
<1>3. Typed'
  <2>1. recognized' \in BOOLEAN /\ split' \in BOOLEAN
    <3>1. recognized \in BOOLEAN /\ split \in BOOLEAN
      BY DEF IInv, Typed
    <3> QED
      BY <1>2, <3>1, Zenon
  <2> QED
    BY <1>1, <2>1 DEF IInv, Typed
<1>4. \A r \in Runs : FilesKept(r)
  BY <1>1, FilesUnchanged DEF IInv
<1>5. ASSUME NEW r \in Runs PROVE StillGated(r)
  <2> SUFFICES ASSUME run[r].pc = "create", ~split
               PROVE  split' \/ (gate' = r /\ (r \in cutOff' \/ run[r].key[1] \in days'))
    BY <1>2 DEF StillGated
  <2>1. gate' = r /\ (r \in cutOff \/ run[r].key[1] \in days)
    BY <1>1 DEF IInv, OpenSound
  <2>2. days' = days \/ \E d \in Hours : days' = days \ {d} /\ (run[r].key[1] = d => r \in cutOff')
    BY DEF DeleteDay, DeleteMetadata, DeleteLease
  <2> QED
    BY <1>1, <2>1, <2>2
<1>6. ASSUME NEW r \in Runs PROVE StillRooted(r)
  <2>1. recognized' = recognized \/ (Alive(r) => r \in cutOff')
    <3>1. CASE DeleteMetadata(u)
      BY <3>1 DEF DeleteMetadata
    <3>2. CASE (\E d \in Hours : DeleteDay(u, d)) \/ \E q \in Runs : DeleteLease(u, q)
      BY <3>2, Zenon DEF DeleteDay, DeleteLease, meta
    <3> QED
      BY <3>1, <3>2
  <2>2. RootSound(r) /\ cutOff \subseteq cutOff'
    BY <1>1 DEF IInv
  <2> QED
    BY <2>1, <2>2 DEF StillRooted, RootSound
<1>7. \A f \in DOMAIN files' : FileSound(f)'
  BY <1>1, <1>3, FilesSoundStay
<1>8. \A c \in Companions : CompanionSound(c)'
  BY <1>1, CompanionStays DEF IInv, DeadStay
<1>9. split => split'
  BY <1>2
<1> QED
  BY <1>1, <1>3, <1>4, <1>5, <1>6, <1>7, <1>8, <1>9, NoRun

Chooses(u) == (\E f \in DOMAIN files : Choose(u, f)) \/ (\E d \in Hours : ChooseDay(u, d))

\* Choosing, waiting and doing nothing change nothing that the invariant sees.
LEMMA QuietSound ==
  ASSUME IInv, Tick \/ (\E u \in Users : Chooses(u)) \/ UNCHANGED vars
  PROVE  IInv'
<1>1. UNCHANGED <<files, days, gate, run, writers, segment, companion, written, meta, cutOff>>
  BY DEF Tick, Chooses, Choose, ChooseDay, vars
<1>2. time' \in Hours
  BY DEF Tick, Chooses, Choose, ChooseDay, vars, IInv, Typed, Hours
<1>3. Typed'
  BY <1>1, <1>2 DEF IInv, Typed
<1>4. \A r \in Runs : FilesKept(r) /\ StillGated(r) /\ StillRooted(r)
  BY <1>1, FilesUnchanged, StillThere DEF IInv
<1>5. \A f \in DOMAIN files' : FileSound(f)'
  BY <1>1, <1>3, FilesSoundStay
<1>6. \A c \in Companions : CompanionSound(c)'
  BY <1>1, CompanionStays DEF IInv, DeadStay
<1> QED
  BY <1>1, <1>3, <1>4, <1>5, <1>6, NoRun

\* Every step preserves the invariant.
LEMMA StepIInv == IInv /\ [Next]_vars => IInv'
<1> SUFFICES ASSUME IInv, [Next]_vars PROVE IInv'
  OBVIOUS
<1>1. ASSUME NEW r \in Runs, Start(r) \/ Stop(r) \/ Crash(r) \/ Stopped(r) PROVE IInv'
  BY <1>1, StartSound, StopSound, CrashSound
<1>2. ASSUME NEW r \in Runs, Publish(r) \/ OpenDirectory(r) \/ OpenCreate(r) \/ Flush(r)
      PROVE  IInv'
  BY <1>2, PublishStepSound, DirectorySound, CreateSound, FlushSound
<1>3. ASSUME NEW r \in Runs, NEW n \in WriterSlots,
             WriteHit(r, n) \/ CloseExpired(r, n) \/ CloseNext(r, n)
      PROVE  IInv'
  BY <1>3, HitSound, ClosesSound
<1>4. ASSUME NEW r \in Runs, NEW k \in Keys, WriteMiss(r, k) PROVE IInv'
  BY <1>4, MissSound
<1>5. ASSUME NEW c \in Companions, Recover(c) \/ \E f \in DOMAIN files : Meet(c, f) PROVE IInv'
  BY <1>5, CheckSound, RenameSound DEF Recover
<1>6. ASSUME NEW c \in Companions, NEW d \in Hours, RemoveDay(c, d) PROVE IInv'
  BY <1>6, DaySound
<1>7. ASSUME NEW u \in Users, NEW i, Delete(u, i) PROVE IInv'
  BY <1>7, DeleteSound
<1>9. ASSUME NEW u \in Users,
             \/ \E d \in Hours : DeleteDay(u, d)
             \/ DeleteMetadata(u) \/ \E r \in Runs : DeleteLease(u, r)
      PROVE  IInv'
  BY <1>9, EntrySound
<1>8. ASSUME Tick \/ (\E u \in Users : Chooses(u)) \/ UNCHANGED vars
      PROVE  IInv'
  BY <1>8, QuietSound
<1> QED
  BY <1>1, <1>2, <1>3, <1>4, <1>5, <1>6, <1>7, <1>8, <1>9 DEF Next, RunStep, Chooses
-----------------------------------------------------------------------------
(* The theorems *)

\* The inductive invariant holds in every reachable state.
THEOREM StorageInvariant == Spec => []IInv
BY InitIInv, StepIInv, PTL DEF Spec

\* The types, and the bound on a run's open files, hold for every root.
THEOREM StorageTypes == Spec => []TypeOK
<1>1. IInv => TypeOK
  <2> SUFFICES ASSUME IInv PROVE TypeOK
    OBVIOUS
  <2>1. ASSUME NEW r \in Runs
        PROVE  Len(writers[r]) <= MaxWriters /\ ToSet(writers[r]) \subseteq WriterType
    <3>1. Len(writers[r]) <= MaxWriters /\ writers[r] \in Seq(WriterType)
      BY DEF IInv, Typed, CacheSound
    <3>2. \A i \in DOMAIN writers[r] : writers[r][i] \in WriterType
      BY <3>1
    <3> QED
      BY <3>1, <3>2 DEF ToSet
  <2> QED
    BY <2>1 DEF IInv, Typed, TypeOK, WriterType, FileState
<1> QED
  BY <1>1, StorageInvariant, PTL

\* Whatever the runs and companions do and whenever they crash, a run fails only if a
\* user has taken from it an active file, the directory it had just made or the
\* metadata of the root, or has split the gate.
THEOREM OnlyUsers == Spec => []OnlyUsersFailRuns
<1>1. IInv => OnlyUsersFailRuns
  BY DEF IInv
<1> QED
  BY <1>1, StorageInvariant, PTL

\* Every published file is complete: it holds all the lines written to it.
THEOREM Complete == Spec => []PublishedComplete
<1>1. IInv => PublishedComplete
  BY DEF IInv, FileSound, PublishedComplete
<1> QED
  BY <1>1, StorageInvariant, PTL

\* A step changes active files only.
ActiveOnly ==
    \A f \in DOMAIN files : f \in DOMAIN files' => files'[f] = files[f] \/ files[f].state = "active"

\* Counting a line and flushing a buffer change the file of an open writer.
LEMMA WriterActive ==
  ASSUME IInv, NEW r \in Runs, NEW n \in DOMAIN writers[r], NEW b,
         files' = Counted(Id(r, writers[r][n])) \/ files' = FlushBuffer(Id(r, writers[r][n]), b)
  PROVE  ActiveOnly
<1>1. PICK f : f = Id(r, writers[r][n])
  OBVIOUS
<1>2. f \in DOMAIN files => files[f].state = "active"
  BY <1>1 DEF IInv, CacheSound, Holds, Kept
<1>3. \A g \in DOMAIN files : g # f => files'[g] = files[g]
  BY <1>1 DEF Counted, FlushBuffer
<1> QED
  BY <1>2, <1>3 DEF ActiveOnly

\* Closing a writer does too.
LEMMA CloseActive ==
  ASSUME IInv, NEW r \in Runs, NEW n \in DOMAIN writers[r], NEW key, CloseWriter(r, n, key)
  PROVE  ActiveOnly
<1>1. files' = FlushBuffer(Id(r, writers[r][n]), writers[r][n].buffered)
  BY DEF CloseWriter
<1>2. PICK b : b = writers[r][n].buffered
  OBVIOUS
<1> QED
  BY <1>1, <1>2, WriterActive

\* Every step changes active files only.
LEMMA StepActiveOnly == IInv /\ [Next]_vars => ActiveOnly
<1> SUFFICES ASSUME IInv, [Next]_vars PROVE ActiveOnly
  OBVIOUS
<1>1. CASE files' = files
  BY <1>1 DEF ActiveOnly
<1>2. ASSUME NEW r \in Runs, NEW n \in WriterSlots, WriteHit(r, n) PROVE ActiveOnly
  <2>1. n \in DOMAIN writers[r] /\ files' = Counted(Id(r, writers[r][n]))
    BY <1>2 DEF WriteHit
  <2> QED
    BY <2>1, WriterActive
<1>3. ASSUME NEW r \in Runs, NEW k \in Keys, WriteMiss(r, k) PROVE ActiveOnly
  <2>1. CASE Full(r)
    <3>1. 1 \in DOMAIN writers[r] /\ CloseWriter(r, 1, k)
      BY <1>3, <2>1 DEF WriteMiss, Full, IInv, Typed
    <3> QED
      BY <3>1, CloseActive
  <2>2. CASE ~Full(r)
    BY <1>3, <2>2, <1>1 DEF WriteMiss
  <2> QED
    BY <2>1, <2>2
<1>4. ASSUME NEW r \in Runs, NEW n \in WriterSlots, CloseExpired(r, n) \/ CloseNext(r, n)
      PROVE  ActiveOnly
  BY <1>4, CloseActive DEF CloseExpired, CloseNext
<1>5. ASSUME NEW r \in Runs, Publish(r) PROVE ActiveOnly
  <2>1. PICK f : f = run[r].file
    OBVIOUS
  <2>2. \/ files' = files
        \/ files' = [files EXCEPT ![f].state = "closed"] /\ files[f].state = "active"
    BY <1>5, <2>1 DEF Publish
  <2> QED
    BY <2>2 DEF ActiveOnly
<1>6. ASSUME NEW r \in Runs, OpenCreate(r) PROVE ActiveOnly
  <2>1. PICK f : f = [run |-> r, key |-> run[r].key, segment |-> segment[r] + 1]
    OBVIOUS
  <2>2. f \notin DOMAIN files
    <3> SUFFICES ASSUME f \in DOMAIN files PROVE FALSE
      OBVIOUS
    <3>1. segment[r] + 1 <= segment[r] /\ segment[r] \in Nat
      BY <2>1, Counters DEF IInv, FileSound
    <3> QED
      BY <3>1
  <2>3. \A g \in DOMAIN files : files'[g] = files[g]
    BY <1>6, <2>1, <2>2 DEF OpenCreate
  <2> QED
    BY <2>3 DEF ActiveOnly
<1>7. ASSUME NEW r \in Runs, Flush(r) PROVE ActiveOnly
  <2> SUFFICES ASSUME NEW f \in DOMAIN files, files'[f] # files[f] PROVE files[f].state = "active"
    BY DEF ActiveOnly
  <2>1. PICK i \in DOMAIN writers[r] : Id(r, writers[r][i]) = f
    BY <1>7 DEF Flush, ToSet
  <2> QED
    BY <2>1 DEF IInv, CacheSound, Holds, Kept
<1>8. ASSUME NEW c \in Companions, RecoverRename(c) PROVE ActiveOnly
  <2>1. PICK f : f = companion[c].file
    OBVIOUS
  <2>2. \/ files' = files
        \/ files' = [files EXCEPT ![f].state = "recovered"] /\ files[f].state = "active"
    BY <1>8, <2>1 DEF RecoverRename
  <2> QED
    BY <2>2 DEF ActiveOnly
<1>9. ASSUME NEW u \in Users, NEW i, Delete(u, i) PROVE ActiveOnly
  <2>1. files' = files \/ files' = Without(i.file)
    BY <1>9 DEF Delete
  <2> QED
    BY <2>1 DEF ActiveOnly, Without
<1>10. ASSUME NEW r \in Runs, Start(r) \/ Stop(r) \/ Crash(r) \/ Stopped(r) \/ OpenDirectory(r)
       PROVE  files' = files
  BY <1>10 DEF Start, Stop, Crash, Stopped, OpenDirectory
<1>11. ASSUME NEW c \in Companions,
              \/ RecoverCheck(c) \/ \E f \in DOMAIN files : Meet(c, f)
              \/ \E d \in Hours : RemoveDay(c, d)
       PROVE  files' = files
  BY <1>11 DEF RecoverCheck, Meet, RemoveDay
<1>12. ASSUME Tick \/ (\E u \in Users : Chooses(u)) \/ UNCHANGED vars
       PROVE  files' = files
  BY <1>12 DEF Tick, Chooses, Choose, ChooseDay, vars
<1>13. ASSUME NEW u \in Users,
              \/ \E d \in Hours : DeleteDay(u, d)
              \/ DeleteMetadata(u) \/ \E r \in Runs : DeleteLease(u, r)
       PROVE  files' = files
  BY <1>13 DEF DeleteDay, DeleteMetadata, DeleteLease
<1> QED
  BY <1>1, <1>2, <1>3, <1>4, <1>5, <1>6, <1>7, <1>8, <1>9, <1>10, <1>11, <1>12, <1>13
     DEF Next, RunStep, Recover, Chooses

\* A finalised file never changes again, in any interleaving.
THEOREM Finalised == Spec => FinalisedStable
<1>1. IInv /\ [Next]_vars =>
        [\A f \in DOMAIN files :
            (files[f].state # "active" /\ f \in DOMAIN files') => files'[f] = files[f]]_vars
  BY StepActiveOnly DEF ActiveOnly
<1> QED
  BY <1>1, StorageInvariant, PTL DEF Spec, FinalisedStable
=============================================================================

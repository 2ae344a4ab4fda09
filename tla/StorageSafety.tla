--------------------------- MODULE StorageSafety ----------------------------
(* What runs and companions promise about the files they share. *)
EXTENDS Storage

States == {"active", "closed", "recovered"}
Pcs == {"absent", "idle", "open", "create", "publish", "publishLast", "closing", "closed",
        "failed", "crashed"}

\* Types of the variables, and the bound on a run's open files.
TypeOK ==
    /\ DOMAIN files \subseteq Files
    /\ \A f \in DOMAIN files :
          files[f] \in [state : States, lines : 0..MaxLines, written : 0..MaxLines]
    /\ days \subseteq Hours /\ gate \in Runs \cup Companions \cup {NoGate}
    /\ run \in [Runs -> [pc : Pcs, key : Keys \cup {NoKey}, file : Files \cup {NoFile}]]
    /\ \A r \in Runs : Len(writers[r]) <= MaxWriters /\ ToSet(writers[r]) \subseteq
          [key : Keys, segment : 1..MaxSegments, buffered : 0..MaxLines]
    /\ segment \in [Runs -> 0..MaxSegments]
    /\ time \in Hours /\ written \in [Runs -> 0..MaxLines] /\ leases \subseteq Runs
    /\ recognized \in BOOLEAN /\ split \in BOOLEAN /\ cutOff \subseteq Runs

\* Recovery and cleanup never make a live run fail: neither its active file nor the
\* directory it has just created is taken away, so that only a user can end it, by
\* deleting one of these or the metadata of the root while the run lives, or earlier
\* the very gate the processes share.
OnlyUsersFailRuns ==
    \A r \in Runs : run[r].pc = "failed" => r \in cutOff \/ split

\* A closed file holds every line written to it: publication follows the flush.
PublishedComplete ==
    \A f \in DOMAIN files : files[f].state = "closed" => files[f].lines = files[f].written

\* A finalised file never changes again and never becomes active again, whatever
\* the run that wrote it still does.
FinalisedStable ==
    [][\A f \in DOMAIN files :
          (files[f].state # "active" /\ f \in DOMAIN files') => files'[f] = files[f]]_vars

\* In the end no active file of an ended hour is left: the run that wrote it has published
\* it, even if it only goes on looping, or else a companion that scans the root recovers
\* it once the run has died; unless a user deletes what recovery needs: the marker, the
\* gate or the run's lock file.
EndedHoursPublished ==
    <>[](\A f \in DOMAIN files :
            HourOf(f) < LastHour /\ recognized /\ f.run \in leases => files[f].state # "active")
=============================================================================

---------------------------- MODULE LogContract -----------------------------
(***************************************************************************)
(* What a caller of the logger may rely on, without queue, threads, groups *)
(* or files: per instance, events are accepted, then confirmed; overloads  *)
(* are counted, then reported; closing ends only when both are settled; a  *)
(* failure stops everything for good.                                      *)
(***************************************************************************)
EXTENDS Naturals

CONSTANT Instances

VARIABLES status, accepted, written, full, reported

vars == <<status, accepted, written, full, reported>>

Running == status \in {"open", "closing"}

TypeOK ==
    /\ status \in {"open", "closing", "closed", "failed"}
    /\ accepted \in [Instances -> Nat] /\ written \in [Instances -> Nat]
    /\ full \in [Instances -> Nat] /\ reported \in [Instances -> Nat]

Init ==
    /\ status = "open"
    /\ accepted = [i \in Instances |-> 0] /\ written = [i \in Instances |-> 0]
    /\ full = [i \in Instances |-> 0] /\ reported = [i \in Instances |-> 0]

Accept(i) ==
    /\ status = "open"
    /\ accepted' = [accepted EXCEPT ![i] = @ + 1]
    /\ UNCHANGED <<status, written, full, reported>>

Overload(i) ==
    /\ status = "open"
    /\ full' = [full EXCEPT ![i] = @ + 1]
    /\ UNCHANGED <<status, accepted, written, reported>>

\* A flush confirms some of the accepted events and reports some overloads.
Advances(done, due) ==
    /\ done' \in [Instances -> Nat]
    /\ \A i \in Instances : done[i] <= done'[i] /\ done'[i] <= due[i]
Confirm ==
    /\ Running
    /\ Advances(written, accepted) /\ Advances(reported, full)
    /\ UNCHANGED <<status, accepted, full>>

Close ==
    /\ status = "open" /\ status' = "closing"
    /\ UNCHANGED <<accepted, written, full, reported>>

Settled == written = accepted /\ reported = full
Finish ==
    /\ status = "closing" /\ Settled
    /\ status' = "closed"
    /\ UNCHANGED <<accepted, written, full, reported>>

Fail ==
    /\ Running /\ status' = "failed"
    /\ UNCHANGED <<accepted, written, full, reported>>

Next ==
    \/ \E i \in Instances : Accept(i) \/ Overload(i)
    \/ Confirm \/ Close \/ Finish \/ Fail

Spec == Init /\ [][Next]_vars
=============================================================================

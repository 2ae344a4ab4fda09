---------------------------- MODULE FollowSafety ----------------------------
(***************************************************************************)
(* What the reader of a followed file may rely on.                         *)
(***************************************************************************)
EXTENDS Follow, FiniteSets

Bytes == Seq(1..MaxVersions)
Where == {"none", "starting", "top", "select", "poll", "reading",
          "leaving", "tidying", "closing", "done"}

\* The state of session, connections and store has its types, and the window of the store
\* (window.ts) never holds more than its maximum.
TypeOK ==
    /\ file \in [at : {"active", "final", "gone"}, ino : Nat, bytes : Bytes]
    /\ version \in 1..MaxVersions
    /\ node \in {"active", "final"}
    /\ seen \in [generation : Nat, ino : Nat, size : 0..MaxLen, anchor : Bytes, torn : BOOLEAN]
    /\ selection \in [rev : Nat, generation : Nat, offset : 0..MaxLen]
    /\ ack \in 0..MaxLen /\ unavailable \in Nat /\ cancel \in Nat
    /\ flow \in [Flows -> [pc : Where, generation : Nat]]
    /\ job.kind \in {"none", "poll", "content"}
    /\ link \in [Flows -> {"none", "open", "cut"}]
    /\ socket \in 0..Connections
    /\ cursor \in 0..MaxLen
    /\ window \in [generation : Nat, start : 0..MaxLen, bytes : Bytes]
    /\ Len(window.bytes) <= MaxBytes
    /\ status \in {"choose", "loading", "live", "failed", "unavailable", "resync",
                   "reconnecting"}
-----------------------------------------------------------------------------
Holds(bytes, view) ==
    End(view) <= Len(bytes) /\ view.bytes = Segment(bytes, view.start, End(view))

\* The window never merges two versions of the file, without gap or repetition, whatever
\* requests, blocks, reselections and truncations cross; or the server's next read is of
\* another generation, and the window is not extended (`generation`, `content` of files.rs,
\* `append` of window.ts).  The one exception is a file cut off or removed between the
\* opening of a read and the record of its anchor: the comparison is made with one reading
\* (files.rs:432) and the record with another (455), so that no later read can tell (`torn`).
WindowNeverMerges ==
    \/ window.generation = 0
    \/ \E bytes \in versions \cup {file.bytes} : Holds(bytes, window)
    \/ seen.generation # window.generation \/ Changed \/ seen.torn

Blocks(c, rev) == {n \in DOMAIN toClient[c] :
                     toClient[c][n].type = "chunk" /\ toClient[c][n].rev = rev}
Acks(c, rev) == {n \in DOMAIN toServer[c] :
                   toServer[c][n].type = "ack" /\ toServer[c][n].rev = rev}

\* On its way to a client there is at most one block of a selection whose acknowledgement
\* has not been handled: the flow needs no other queue (`poll` of lib.rs).
OneUnacknowledged ==
    \A c \in Flows, rev \in 1..revision :
        Cardinality(Blocks(c, rev)) + Cardinality(Acks(c, rev)) <= 1

\* Bytes the store has acknowledged but does not show are announced to the user (`newer`),
\* whether they came while the user was reading or fell off the window (`older`, `message`).
NewerIsTold == window.generation # 0 /\ End(window) # cursor => newer
-----------------------------------------------------------------------------
Quiet(c) ==
    /\ socket = c /\ link[c] = "open"
    /\ toServer[c] = <<>> /\ toClient[c] = <<>> /\ requests = <<>>
    /\ flow[c].pc \in {"top", "select"} /\ flow[c].generation = cancel

\* When nothing is on its way and the store shows a window "En direct", the session of the
\* companion has that very selection: after a cut, too, the flow resumes (`onopen`, `live`).
LiveIsObserved ==
    \A c \in Flows : Quiet(c) /\ status = "live" /\ window.generation # 0
                       => selection.rev = revision

Shown ==
    /\ window.generation = seen.generation /\ ~Changed
    /\ cursor = Len(file.bytes) /\ Holds(file.bytes, window)

\* Once the file, the user and the network come to rest, a window that has been read is
\* brought up to the end of the file as it is, whatever was cut, renamed, truncated or
\* replaced before, unless the file is missing and the store says so (`poll`, viewer-store.ts),
\* or the window is of a generation whose last record was `torn`, as above.
EventuallyShown ==
    <>[]( \/ window.generation = 0
          \/ status = "unavailable" /\ file.at # node
          \/ window.generation = seen.generation /\ seen.torn
          \/ Shown)
=============================================================================

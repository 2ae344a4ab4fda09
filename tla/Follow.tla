------------------------------- MODULE Follow -------------------------------
(***************************************************************************)
(* Following one file in the reader: the flow task of the companion        *)
(* (`live`, `apply` and `poll` of lib.rs), the reads of `FileRoot`         *)
(* (files.rs) under the session's lock, the store of the browser           *)
(* (viewer-store.ts, window.ts, api.ts) and the file, which grows, is      *)
(* renamed, truncated, removed or replaced at any moment.  Each connection *)
(* is a pair of FIFO queues and may be cut; a new connection takes the     *)
(* session over while the flow of the old one may still run.  A byte is    *)
(* the number of the version of the file that wrote it, so that two        *)
(* versions never agree on a byte.                                         *)
(***************************************************************************)
EXTENDS Naturals, Sequences

CONSTANTS
    MaxLen,         \* bound: bytes of the file
    MaxVersions,    \* bound: versions of the file (truncations, replacements)
    Connections,    \* bound: connections the browser opens
    MaxPresses,     \* bound: clicks of the user (select, bottom, older)
    Chunk,          \* CHUNK: bytes of one block of the flow
    Snapshot,       \* SNAPSHOT: bytes of one HTTP read
    Anchor,         \* bytes compared to recognise a version (64)
    MaxBytes,       \* `maxBytes` of the window
    Renames,        \* bound: is the file finalised while it is followed?
    Overlap         \* may the browser reconnect before the old flow has ended?

ASSUME SizesAssumption ==
    {Chunk, Snapshot, Anchor, MaxBytes} \subseteq Nat \ {0} /\ Snapshot <= MaxBytes
ASSUME BoundsAssumption ==
    /\ {MaxLen, Connections, MaxPresses} \subseteq Nat /\ MaxVersions \in Nat \ {0}
    /\ {Renames, Overlap} \subseteq BOOLEAN

VARIABLES
    file,       \* where the file is, its inode and its bytes
    version,    \* number of the last version
    versions,   \* ghost: the last content of each version that was cut off
    orphan,     \* content of the removed file that a read still holds open
    node,       \* path the server keeps for the file's identity
    seen,       \* `generations`: what the last read saw of the file; `torn` is a ghost
    selection, ack, unavailable, cancel,    \* the session (Data, Session.cancel)
    flow,       \* the flow task of each connection
    job,        \* the disk operation that holds the session's lock
    toServer, toClient, link,               \* the connections
    socket,     \* the connection the store uses, 0 when none
    revision, cursor, window, following, newer, status,     \* ViewerStore
    requests,   \* queue of Api: only its head has been sent
    presses     \* bound: clicks so far

diskVars == <<file, version, versions, orphan>>
rootVars == <<node, seen>>
dataVars == <<selection, ack, unavailable>>
viewVars == <<revision, cursor, window, following, newer, status>>
vars == <<diskVars, rootVars, dataVars, cancel, flow, job, toServer, toClient, link,
          socket, viewVars, requests, presses>>

Flows == 1..Connections
NoSelection == [rev |-> 0, generation |-> 0, offset |-> 0]
NoAck == 0
NoJob == [kind |-> "none", step |-> "none", flow |-> 0, renamed |-> FALSE, ino |-> 0,
          size |-> 0, version |-> 0, changed |-> FALSE, start |-> 0, end |-> 0]
NoReply == [code |-> "none", generation |-> 0, start |-> 0, bytes |-> <<>>]
EmptyWindow == [generation |-> 0, start |-> 0, bytes |-> <<>>]

Smaller(a, b) == IF a < b THEN a ELSE b
Minus(a, b) == IF a > b THEN a - b ELSE 0          \* saturating_sub
Segment(bytes, start, end) == SubSeq(bytes, start + 1, end)
End(chunk) == chunk.start + Len(chunk.bytes)
-----------------------------------------------------------------------------
(* The file *)

Write ==
    /\ file.at # "gone"
    /\ Len(file.bytes) < MaxLen
    /\ file' = [file EXCEPT !.bytes = Append(@, version)]
    /\ UNCHANGED <<version, versions, orphan>>

Finalise ==
    /\ Renames
    /\ file.at = "active"
    /\ file' = [file EXCEPT !.at = "final"]
    /\ UNCHANGED <<version, versions, orphan>>

Truncate(length) ==
    /\ file.at # "gone"
    /\ length < Len(file.bytes)
    /\ version < MaxVersions
    /\ file' = [file EXCEPT !.bytes = Segment(@, 0, length)]
    /\ version' = version + 1
    /\ versions' = versions \cup {file.bytes}
    /\ UNCHANGED orphan

\* A read that has the file open goes on reading it.
Remove ==
    /\ file.at # "gone"
    /\ version < MaxVersions
    /\ file' = [file EXCEPT !.at = "gone", !.bytes = <<>>]
    /\ version' = version + 1
    /\ versions' = versions \cup {file.bytes}
    /\ orphan' = IF job.kind # "none" /\ job.ino = file.ino THEN file.bytes ELSE orphan

\* A file created under the old name may get the old inode, unless a read holds it open.
Recreate(ino) ==
    /\ file.at = "gone"
    /\ ino = file.ino => job.kind = "none"
    /\ file' = [at |-> "active", ino |-> ino, bytes |-> <<>>]
    /\ UNCHANGED <<version, versions, orphan>>

FileStep ==
    /\ \/ Write
       \/ Finalise
       \/ \E length \in 0..MaxLen : Truncate(length)
       \/ Remove
       \/ \E ino \in {file.ino, version} : Recreate(ino)
    /\ UNCHANGED <<rootVars, dataVars, cancel, flow, job, toServer, toClient, link,
                   socket, viewVars, requests, presses>>
-----------------------------------------------------------------------------
(* Reads of FileRoot *)

(* A read opens the file, compares it with what the last one saw, records what it sees  *)
(* itself, reads its bytes and looks at the file again; the file may change between.    *)

LastBytes(bytes, size) == Segment(bytes, Minus(size, Anchor), Smaller(size, Len(bytes)))

\* The bytes that the open handle of the read leads to.
Held == IF file.at # "gone" /\ file.ino = job.ino THEN file.bytes ELSE orphan

\* The first read, another inode, a shorter file or another anchor: a new generation.
DiffersInSize(ino, size, bytes) == seen.ino # ino \/ size < seen.size
Differs(ino, size, bytes) ==
    \/ seen.ino # ino
    \/ size < seen.size
    \/ \E n \in DOMAIN seen.anchor :
          LET at == Minus(seen.size, Anchor) + n
          IN  at > Len(bytes) \/ bytes[at] # seen.anchor[n]

\* What a read would say of the file if nothing happened during it.
Changed == Differs(file.ino, Len(file.bytes), file.bytes)

Relocates == node = "active" /\ file.at = "final" /\ seen.ino = file.ino
Located == IF Relocates THEN "final" ELSE node

Open(kind, f, renamed) ==
    job' = [NoJob EXCEPT !.kind = kind, !.step = "opened", !.flow = f, !.renamed = renamed,
                         !.ino = file.ino, !.size = Len(file.bytes), !.version = version]

Compare(kind) ==
    /\ job.kind = kind /\ job.step = "opened"
    /\ job' = [job EXCEPT !.step = "compared", !.changed = Differs(job.ino, job.size, Held)]

Generation == IF job.changed THEN seen.generation + 1 ELSE seen.generation

\* Nobody notices a file cut off or removed since the read opened it: `torn` does.
Recorded ==
    [generation |-> Generation, ino |-> job.ino, size |-> job.size,
     anchor     |-> LastBytes(Held, job.size),
     torn       |-> job.version # version \/ (seen.torn /\ ~job.changed)]

Lock(start, end) == job' = [job EXCEPT !.step = "recorded", !.start = start, !.end = end]

\* The end of `content`: what it answers after reading the bytes.
Outcome ==
    IF file.at # node THEN "NOT_FOUND"
    ELSE IF file.ino # job.ino \/ Len(file.bytes) < job.size THEN "GENERATION_CHANGED"
    ELSE "ok"
-----------------------------------------------------------------------------
(* The flow task of a connection *)

Goto(c, pc) == flow' = [flow EXCEPT ![c].pc = pc]

\* A message sent on a cut connection is lost; the sender may not notice at once.
Post(c, messages, pc) ==
    /\ toClient' = IF link[c] = "open" THEN [toClient EXCEPT ![c] = @ \o messages] ELSE toClient
    /\ \/ Goto(c, pc)
       \/ messages # <<>> /\ link[c] = "cut" /\ Goto(c, "leaving")

Begin(c) ==
    /\ flow[c].pc = "starting" /\ job = NoJob
    /\ selection' = NoSelection /\ ack' = NoAck /\ unavailable' = 0
    /\ cancel' = cancel + 1
    /\ flow' = [flow EXCEPT ![c] = [pc |-> "top", generation |-> cancel']]
    /\ UNCHANGED <<rootVars, job, toServer, toClient, link>>

Top(c) ==
    /\ flow[c].pc = "top"
    /\ Goto(c, IF flow[c].generation = cancel THEN "select" ELSE "leaving")
    /\ UNCHANGED <<rootVars, dataVars, cancel, job, toServer, toClient, link>>

\* `select!` takes any ready branch: cancelled, the peer has gone, a message or a tick.
\* A heartbeat that cannot be sent, between a message and the poll, ends the flow too.
Interrupted(c) ==
    /\ \/ flow[c].pc = "select" /\ (flow[c].generation # cancel \/ link[c] = "cut")
       \/ flow[c].pc = "poll" /\ link[c] = "cut"
    /\ Goto(c, "leaving")
    /\ UNCHANGED <<rootVars, dataVars, cancel, job, toServer, toClient, link>>

Subscribe(c, message) ==
    /\ message.type = "subscribe"
    /\ selection' = [rev |-> message.rev, generation |-> message.generation,
                     offset |-> message.offset]
    /\ ack' = NoAck /\ unavailable' = 0
    /\ Post(c, <<[type |-> "subscribed", rev |-> message.rev]>>, "poll")

Unsubscribe(c, message) ==
    /\ message.type = "unsubscribe"
    /\ selection' = NoSelection /\ ack' = NoAck
    /\ Goto(c, "poll")
    /\ UNCHANGED <<unavailable, toClient>>

AckMatchesOffset(message) ==
    /\ selection.rev = message.rev
    /\ selection.generation = message.generation
    /\ ack # NoAck /\ selection.offset = message.offset
AckMatches(message) ==
    /\ selection.rev = message.rev
    /\ selection.generation = message.generation
    /\ ack # NoAck /\ ack = message.offset

Acknowledge(c, message) ==
    /\ message.type = "ack"
    /\ IF AckMatches(message)
       THEN /\ selection' = [selection EXCEPT !.offset = message.offset]
            /\ ack' = NoAck
            /\ Goto(c, "poll")
            /\ UNCHANGED toClient
       ELSE /\ Post(c, <<[type |-> "error"]>>, "poll")
            /\ UNCHANGED <<selection, ack>>
    /\ UNCHANGED unavailable

Receive(c) ==
    /\ flow[c].pc = "select" /\ toServer[c] # <<>> /\ job = NoJob
    /\ toServer' = [toServer EXCEPT ![c] = Tail(@)]
    /\ LET message == Head(toServer[c])
       IN  Subscribe(c, message) \/ Unsubscribe(c, message) \/ Acknowledge(c, message)
    /\ UNCHANGED <<rootVars, cancel, job, link>>

\* `poll` after the flow's turn: the lock is taken, or the turn is skipped (429).
MayReadAhead == selection # NoSelection
MayRead == selection # NoSelection /\ ack = NoAck
Polls(c) == flow[c].pc \in {"select", "poll"}

PollBusy(c) ==
    /\ flow[c].pc = "poll" /\ job # NoJob
    /\ Goto(c, "top")
    /\ UNCHANGED <<rootVars, dataVars, cancel, job, toServer, toClient, link>>

\* No acknowledgement within `ack_timeout`: the flow asks for a new start and closes.
PollTimeout(c) ==
    /\ Polls(c) /\ job = NoJob /\ ack # NoAck
    /\ c < Connections
    /\ Post(c, <<[type |-> "resync-required", rev |-> selection.rev]>>, "leaving")
    /\ UNCHANGED <<rootVars, dataVars, cancel, job, toServer, link>>

PollNothing(c) ==
    /\ Polls(c) /\ job = NoJob /\ ~MayRead
    /\ Goto(c, "top")
    /\ UNCHANGED <<rootVars, dataVars, cancel, job, toServer, toClient, link>>

Unavailable(c, earlier) ==
    /\ unavailable' = selection.rev
    /\ Post(c, IF unavailable = selection.rev THEN earlier
               ELSE Append(earlier, [type |-> "file-unavailable", rev |-> selection.rev]), "top")
    /\ UNCHANGED <<selection, ack>>

Reset(c, earlier) ==
    /\ selection' = NoSelection /\ ack' = NoAck
    /\ Post(c, Append(earlier, [type |-> "reset", rev |-> selection.rev]), "top")
    /\ UNCHANGED unavailable

\* The messages of `poll` are sent together when it returns, this one first.
Announced(renamed) ==
    IF renamed THEN <<[type |-> "file-renamed", rev |-> selection.rev]>> ELSE <<>>

PollOpen(c) ==
    /\ Polls(c) /\ job = NoJob /\ MayRead
    /\ node' = Located
    /\ \/ /\ file.at # Located
          /\ Unavailable(c, Announced(Relocates))
          /\ UNCHANGED job
       \/ /\ file.at = Located
          /\ Open("poll", c, Relocates)
          /\ Goto(c, "reading")
          /\ UNCHANGED <<dataVars, toClient>>
    /\ UNCHANGED <<seen, cancel, toServer, link>>

PollCompare(c) ==
    /\ job.flow = c /\ Compare("poll")
    /\ UNCHANGED <<rootVars, dataVars, cancel, flow, toServer, toClient, link>>

PollRecord(c) ==
    /\ job.kind = "poll" /\ job.flow = c /\ job.step = "compared"
    /\ seen' = Recorded
    /\ \/ /\ selection.generation # Generation \/ selection.offset > job.size
          /\ Reset(c, Announced(job.renamed))
          /\ job' = NoJob
       \/ /\ selection.generation = Generation /\ selection.offset <= job.size
          /\ Lock(selection.offset, Smaller(selection.offset + Chunk, job.size))
          /\ UNCHANGED <<dataVars, flow, toClient>>
    /\ UNCHANGED <<node, cancel, toServer, link>>

PollRead(c) ==
    /\ job.kind = "poll" /\ job.flow = c /\ job.step = "recorded"
    /\ job' = NoJob
    /\ \/ Outcome = "NOT_FOUND" /\ Unavailable(c, Announced(job.renamed))
       \/ Outcome = "GENERATION_CHANGED" /\ Reset(c, Announced(job.renamed))
       \/ /\ Outcome = "ok"
          /\ LET resumed == IF unavailable # 0
                            THEN <<[type |-> "subscribed", rev |-> selection.rev]>> ELSE <<>>
                 block == [type |-> "chunk", rev |-> selection.rev,
                           generation |-> seen.generation, start |-> job.start,
                           bytes |-> Segment(file.bytes, job.start, job.end)]
                 blocks == IF job.end = job.start THEN <<>> ELSE <<block>>
             IN  /\ Post(c, Announced(job.renamed) \o resumed \o blocks, "top")
                 /\ ack' = IF job.end = job.start THEN ack ELSE job.end
          /\ unavailable' = 0
          /\ UNCHANGED selection
    /\ UNCHANGED <<rootVars, cancel, toServer, link>>

\* The flow ends: it tidies the session unless another flow has taken it over.
Leave(c) ==
    /\ flow[c].pc = "leaving"
    /\ Goto(c, IF cancel = flow[c].generation THEN "tidying" ELSE "closing")
    /\ UNCHANGED <<rootVars, dataVars, cancel, job, toServer, toClient, link>>

Tidy(c) ==
    /\ flow[c].pc = "tidying" /\ job = NoJob
    /\ selection' = NoSelection /\ ack' = NoAck
    /\ Goto(c, "closing")
    /\ UNCHANGED <<rootVars, unavailable, cancel, job, toServer, toClient, link>>

Close(c) ==
    /\ flow[c].pc = "closing"
    /\ Goto(c, "done")
    /\ link' = [link EXCEPT ![c] = "cut"]
    /\ toServer' = [toServer EXCEPT ![c] = <<>>]
    /\ UNCHANGED <<rootVars, dataVars, cancel, job, toClient>>

FlowStep(c) ==
    /\ \/ Begin(c) \/ Top(c) \/ Interrupted(c) \/ Receive(c)
       \/ PollBusy(c) \/ PollTimeout(c) \/ PollNothing(c)
       \/ PollOpen(c) \/ PollCompare(c) \/ PollRecord(c) \/ PollRead(c)
       \/ Leave(c) \/ Tidy(c) \/ Close(c)
    /\ UNCHANGED <<diskVars, socket, viewVars, requests, presses>>
-----------------------------------------------------------------------------
(* Reads over HTTP: the head of the store's queue of requests *)

Pending == requests # <<>> /\ Head(requests).reply = NoReply
Answer(reply) == requests' = [requests EXCEPT ![1].reply = reply]
Failure(code) == [NoReply EXCEPT !.code = code]

\* `content` is shared with the flow, but nothing here relocates a renamed file.
ContentOpen ==
    /\ Pending /\ job = NoJob
    /\ \/ /\ file.at # node
          /\ Answer(Failure("NOT_FOUND"))
          /\ UNCHANGED job
       \/ /\ file.at = node
          /\ Open("content", 0, FALSE)
          /\ UNCHANGED requests
    /\ UNCHANGED rootVars

ContentCompare == Compare("content") /\ UNCHANGED <<rootVars, requests>>

ContentRecord ==
    /\ job.kind = "content" /\ job.step = "compared"
    /\ seen' = Recorded
    /\ LET request == Head(requests)
           end == IF request.kind = "older" THEN request.before ELSE job.size
           known == request.kind = "older" => request.generation = Generation
       IN  \/ /\ ~known \/ end > job.size
              /\ Answer(Failure(IF known THEN "CURSOR_INVALID" ELSE "GENERATION_CHANGED"))
              /\ job' = NoJob
           \/ /\ known /\ end <= job.size
              /\ Lock(Minus(end, Snapshot), end)
              /\ UNCHANGED requests
    /\ UNCHANGED node

ContentRead ==
    /\ job.kind = "content" /\ job.step = "recorded"
    /\ job' = NoJob
    /\ Answer(IF Outcome = "ok"
              THEN [code |-> "ok", generation |-> seen.generation, start |-> job.start,
                    bytes |-> Segment(file.bytes, job.start, job.end)]
              ELSE Failure(Outcome))
    /\ UNCHANGED rootVars

\* The lock is taken by the flow: 429, and in the end the attempts are exhausted.
ContentBusy ==
    /\ Pending /\ job.kind = "poll"
    /\ Answer(Failure("LIMIT"))
    /\ UNCHANGED <<rootVars, job>>

HttpStep ==
    /\ ContentOpen \/ ContentCompare \/ ContentRecord \/ ContentRead \/ ContentBusy
    /\ UNCHANGED <<diskVars, dataVars, cancel, flow, toServer, toClient, link, socket,
                   viewVars, presses>>
-----------------------------------------------------------------------------
(* The store of the browser *)

Send(message) ==
    toServer' = IF socket # 0 /\ link[socket] = "open"
                THEN [toServer EXCEPT ![socket] = Append(@, message)] ELSE toServer

Subscription(generation, offset) ==
    [type |-> "subscribe", rev |-> revision, generation |-> generation, offset |-> offset]

Request(kind, rev, view) ==
    [kind |-> kind, rev |-> rev, before |-> view.start, generation |-> view.generation,
     reply |-> NoReply]

\* `loading`: a request of the current revision is in the queue `queue`.
Loading(queue) == \E n \in DOMAIN queue : queue[n].rev = revision

\* `select`, the entry being the file: forget the window, read again.
Select(queue) ==
    /\ revision' = revision + 1
    /\ Send([type |-> "unsubscribe"])
    /\ window' = EmptyWindow
    /\ following' = TRUE /\ newer' = FALSE /\ status' = "loading"
    /\ requests' = Append(queue, Request("snapshot", revision', EmptyWindow))
    /\ UNCHANGED cursor

\* trim: the window keeps its last or its first MaxBytes bytes.
KeepAll(view) == view
KeepLast(view) ==
    LET excess == Minus(Len(view.bytes), MaxBytes)
    IN  [view EXCEPT !.start = @ + excess, !.bytes = Segment(@, excess, Len(@))]
KeepFirst(view) == [view EXCEPT !.bytes = Segment(@, 0, Smaller(MaxBytes, Len(@)))]

NeverBehind(view) == FALSE
Behind(view) == End(view) < cursor

\* The queue of Api frees its place, then the reply is used unless it is out of date.
Respond ==
    /\ requests # <<>> /\ Head(requests).reply # NoReply
    /\ LET request == Head(requests)
           reply == request.reply
           rest == Tail(requests)
           block == [generation |-> reply.generation, start |-> reply.start,
                     bytes |-> reply.bytes]
       IN  \/ /\ request.rev # revision
              /\ requests' = rest
              /\ UNCHANGED <<toServer, viewVars>>
           \/ /\ request.rev = revision /\ request.kind = "snapshot" /\ reply.code = "ok"
              /\ window' = KeepLast(block)
              /\ cursor' = End(block)
              /\ status' = IF socket # 0 THEN "live" ELSE "reconnecting"
              /\ Send(Subscription(block.generation, End(block)))
              /\ requests' = rest
              /\ UNCHANGED <<revision, following, newer>>
           \/ /\ request.rev = revision /\ request.kind = "snapshot" /\ reply.code # "ok"
              /\ status' = "failed"
              /\ requests' = rest
              /\ UNCHANGED <<toServer, revision, cursor, window, following, newer>>
           \/ /\ request.rev = revision /\ request.kind = "older" /\ reply.code = "ok"
              /\ LET joined == KeepFirst([block EXCEPT !.bytes = @ \o window.bytes])
                     joins == block.generation = window.generation /\ End(block) = window.start
                 IN  IF joins THEN window' = joined /\ newer' = Behind(joined)
                     ELSE UNCHANGED <<window, newer>>
              /\ requests' = rest
              /\ UNCHANGED <<toServer, revision, cursor, following, status>>
           \/ /\ request.rev = revision /\ request.kind = "older"
              /\ reply.code = "GENERATION_CHANGED"
              /\ Select(rest)
           \/ /\ request.rev = revision /\ request.kind = "older"
              /\ reply.code \notin {"ok", "GENERATION_CHANGED"}
              /\ requests' = rest
              /\ UNCHANGED <<toServer, viewVars>>
    /\ UNCHANGED <<socket, link, toClient, presses>>

\* A block continues the window, or the store reads the file again.
TakeChunk(message) ==
    LET extended == KeepLast([window EXCEPT !.bytes = @ \o message.bytes])
        follows == message.generation = window.generation /\ message.start = cursor
    IN  \/ /\ follows /\ (following => message.start = End(window))
           /\ IF following THEN window' = extended /\ UNCHANGED newer
              ELSE newer' = TRUE /\ UNCHANGED window
           /\ cursor' = End(message)
           /\ Send([type |-> "ack", rev |-> revision, generation |-> message.generation,
                    offset |-> cursor'])
           /\ UNCHANGED <<revision, following, status, requests>>
        \/ /\ ~(follows /\ (following => message.start = End(window)))
           /\ Select(requests)

Shows(text) ==
    /\ status' = text
    /\ UNCHANGED <<toServer, revision, cursor, window, following, newer, requests>>

Notices == {"subscribed", "file-unavailable", "resync-required"}
StatusOf(type) == CASE type = "subscribed" -> "live"
                    [] type = "file-unavailable" -> "unavailable"
                    [] type = "resync-required" -> "resync"

OutOfDate(message) == message.type # "error" /\ message.rev # revision

Deliver ==
    /\ socket # 0 /\ toClient[socket] # <<>>
    /\ toClient' = [toClient EXCEPT ![socket] = Tail(@)]
    /\ LET message == Head(toClient[socket])
       IN  \/ /\ OutOfDate(message) \/ message.type \in {"error", "file-renamed"}
              /\ UNCHANGED <<toServer, viewVars, requests, link>>
           \/ /\ ~OutOfDate(message) /\ message.type \in Notices
              /\ Shows(StatusOf(message.type))
              /\ link' = IF message.type = "resync-required"
                         THEN [link EXCEPT ![socket] = "cut"] ELSE link
           \/ /\ ~OutOfDate(message) /\ message.type = "chunk"
              /\ TakeChunk(message)
              /\ UNCHANGED link
           \/ /\ ~OutOfDate(message) /\ message.type = "reset"
              /\ Select(requests)
              /\ UNCHANGED link
    /\ UNCHANGED <<socket, presses>>

OnClose ==
    /\ socket # 0 /\ link[socket] = "cut"
    /\ socket' = 0
    /\ toClient' = [toClient EXCEPT ![socket] = <<>>]
    /\ status' = "reconnecting"
    /\ UNCHANGED <<toServer, link, revision, cursor, window, following, newer,
                   requests, presses>>

Press == presses < MaxPresses /\ presses' = presses + 1

\* A click on the file or on `bottom`.
UserSelect == Press /\ Select(requests) /\ UNCHANGED <<toClient, link, socket>>

Older ==
    /\ Press
    /\ revision > 0 /\ window.start > 0 /\ ~Loading(requests)
    /\ following' = FALSE
    /\ requests' = Append(requests, Request("older", revision, window))
    /\ UNCHANGED <<toServer, toClient, link, socket, revision, cursor, window, newer, status>>

SetFollowing ==
    /\ ~following => ~newer
    /\ following' = ~following
    /\ UNCHANGED <<toServer, toClient, link, socket, revision, cursor, window, newer,
                   status, requests, presses>>

StoreStep ==
    /\ Respond \/ Deliver \/ OnClose \/ UserSelect \/ Older \/ SetFollowing
    /\ UNCHANGED <<diskVars, rootVars, dataVars, cancel, flow, job>>
-----------------------------------------------------------------------------
(* Connections *)

Ended(c) == flow[c].pc = "done"

\* `onopen` subscribes again, where the store stopped.
OnOpen == IF window.generation = 0 THEN <<>> ELSE <<Subscription(window.generation, cursor)>>

Connect(c) ==
    /\ socket = 0 /\ flow[c].pc = "none"
    /\ \A d \in 1..(c - 1) : flow[d].pc # "none" /\ (Overlap \/ Ended(d))
    /\ socket' = c
    /\ link' = [link EXCEPT ![c] = "open"]
    /\ Goto(c, "starting")
    /\ status' = IF revision > 0 THEN "live" ELSE "choose"
    /\ toServer' = [toServer EXCEPT ![c] = OnOpen]
    /\ UNCHANGED <<toClient, revision, cursor, window, following, newer>>

Cut(c) ==
    /\ link[c] = "open" /\ c < Connections
    /\ link' = [link EXCEPT ![c] = "cut"]
    /\ UNCHANGED <<flow, toServer, toClient, socket, viewVars>>

LinkStep ==
    /\ \E c \in Flows : Connect(c) \/ Cut(c)
    /\ UNCHANGED <<diskVars, rootVars, dataVars, cancel, job, requests, presses>>
-----------------------------------------------------------------------------
Init ==
    /\ \E length \in 0..MaxLen :
          file = [at |-> "active", ino |-> 1, bytes |-> [n \in 1..length |-> 1]]
    /\ version = 1 /\ versions = {} /\ orphan = <<>>
    /\ node = "active"
    /\ seen = [generation |-> 0, ino |-> 0, size |-> 0, anchor |-> <<>>, torn |-> FALSE]
    /\ selection = NoSelection /\ ack = NoAck /\ unavailable = 0 /\ cancel = 0
    /\ flow = [c \in Flows |-> [pc |-> "none", generation |-> 0]]
    /\ job = NoJob
    /\ toServer = [c \in Flows |-> <<>>] /\ toClient = [c \in Flows |-> <<>>]
    /\ link = [c \in Flows |-> "none"]
    /\ socket = 0 /\ revision = 0 /\ cursor = 0
    /\ window = EmptyWindow
    /\ following = TRUE /\ newer = FALSE /\ status = "choose"
    /\ requests = <<>> /\ presses = 0

Next ==
    \/ FileStep
    \/ \E c \in Flows : FlowStep(c)
    \/ HttpStep
    \/ StoreStep
    \/ LinkStep

Spec == Init /\ [][Next]_vars

\* The runtime runs every ready task, and `select!` tries its branches in a random
\* order; the browser handles its events, retries its requests and reconnects.
Fairness ==
    /\ \A c \in Flows : /\ WF_vars(FlowStep(c))
                        /\ SF_vars((Receive(c) \/ Interrupted(c)) /\ FlowStep(c))
    /\ \A c \in Flows : WF_vars(Connect(c) /\ LinkStep)
    /\ WF_vars(HttpStep)
    /\ WF_vars((Respond \/ Deliver \/ OnClose) /\ StoreStep)

FairSpec == Spec /\ Fairness
=============================================================================

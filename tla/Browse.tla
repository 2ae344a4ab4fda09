------------------------------- MODULE Browse --------------------------------
(***************************************************************************)
(* The tree of the viewer and the directories of an open root.  The        *)
(* companion gives every path it lists an identifier from a cache of       *)
(* limited size (FileRoot, files.rs), follows a file through its hourly    *)
(* renaming, and looks once a second at the directories the viewer has     *)
(* open (poll, lib.rs).  The viewer (viewer-store.ts) loads a directory    *)
(* when it is opened or announced as changed.  A listing fits in a page.   *)
(***************************************************************************)
EXTENDS Naturals, Sequences, FiniteSets, SequencesExt

CONSTANTS
    Top, Directory, Active, Final, Inner,   \* paths: all but Inner are in Top
    NodeLimit,      \* NODES: identifiers at the same time (10 000 in the code)
    RequestLimit,   \* requests waiting in the viewer (16 in the code)
    MaxChanges,     \* bound: changes of the disk
    MaxPresses,     \* bound: foldings and selections by the user
    MaxCuts,        \* bound: cuts of the socket
    MaxEvents       \* bound: all of these together

\* Names in the order of a listing.
Names == <<Directory, Final, Active, Inner>>
Paths == {Top} \cup ToSet(Names)
Parent(p) == IF p = Inner THEN Directory ELSE Top
IsDirectory(p) == p \in {Top, Directory}
TopId == 1

ASSUME PathsAssumption ==
    /\ Top \notin {Directory, Active, Final, Inner}
    /\ Directory \notin {Active, Final, Inner}
    /\ Inner \notin {Active, Final}

\* Eviction spares the root, which is not in `order`: it makes room from two on.
ASSUME LimitsAssumption ==
    /\ NodeLimit \in Nat \ {0, 1} /\ RequestLimit \in Nat \ {0}
    /\ {MaxChanges, MaxPresses, MaxCuts, MaxEvents} \subseteq Nat

VARIABLES
    disk,           \* what each path holds: the number of a file or directory; 0: nothing
    stamp,          \* change time of each directory
    changes,        \* bound
    cache,          \* FileRoot: nodes, ids, order, generations; last: identifiers given
    branches,       \* Data.branches: last known revision of each observed directory
    selection,      \* Data.selection: its file, and the generation read; 0: none
    reading,        \* the listing in progress; it holds the lock of the session
    connected, toServer, toViewer,      \* the socket and its messages
    old,            \* flows that outlive their sockets
    hasty,          \* ghost: the socket was opened before the flow of the last one had ended
    opened, pages, treeErrors,          \* ViewState
    selected, generation,               \* ViewState.selected, bytes.generation; 0: none
    activeBranchLoads, pendingTree,
    requests,       \* Api.queue: requests that wait, the first one being served
    refreshing,     \* directories a refresh still has to load, the first one perhaps under way
    opening,        \* the first listing of the root has not arrived
    presses, cuts   \* bounds

diskVars == <<disk, stamp, changes>>
serverVars == <<cache, branches, selection, reading>>
flowVars == <<old, hasty, cuts>>
socketVars == <<connected, toServer, toViewer, flowVars>>
loadVars == <<pages, treeErrors, activeBranchLoads, pendingTree, requests>>
viewerVars == <<opened, selected, generation, refreshing, opening, presses>>
vars == <<diskVars, serverVars, socketVars, loadVars, viewerVars>>

Without(f, keys) == [k \in DOMAIN f \ keys |-> f[k]]
With(f, key, value) == [k \in DOMAIN f \cup {key} |-> IF k = key THEN value ELSE f[k]]
Idle == [kind |-> "idle"]
Event == changes + presses + cuts < MaxEvents
-----------------------------------------------------------------------------
(* The disk *)

Children(d) == {p \in Paths \ {Top} : Parent(p) = d /\ disk[p] # 0}
Revision(d) == <<disk[d], stamp[d]>>
Unknown == <<0, 0>>

Change(p) ==
    /\ changes < MaxChanges /\ Event
    /\ changes' = changes + 1
    /\ stamp' = [stamp EXCEPT ![Parent(p)] = @ + 1]
    /\ UNCHANGED <<serverVars, socketVars, loadVars, viewerVars>>

Create(p) ==
    /\ p # Top /\ disk[p] = 0 /\ disk[Parent(p)] # 0
    /\ Change(p)
    /\ disk' = [disk EXCEPT ![p] = changes + 2]

Delete(p) ==
    /\ p # Top /\ disk[p] # 0 /\ Children(p) = {}
    /\ Change(p)
    /\ disk' = [disk EXCEPT ![p] = 0]

\* The hour ends: the active file takes its final name.
Rotate ==
    /\ disk[Active] # 0 /\ disk[Final] = 0
    /\ Change(Active)
    /\ disk' = [disk EXCEPT ![Active] = 0, ![Final] = disk[Active]]
-----------------------------------------------------------------------------
(* The identifiers of a root *)

Known(c, id) == id \in DOMAIN c.nodes

\* The file that the identifier was read from has taken its final name.
Moved(c, id) ==
    /\ Known(c, id) /\ c.nodes[id] = Active /\ disk[Active] = 0
    /\ id \in DOMAIN c.generations /\ disk[Final] = c.generations[id]

Relocated(c, id) ==
    [c EXCEPT !.nodes[id] = Final, !.ids = With(Without(@, {Active}), Final, id)]
Relocate(c, candidates) ==
    LET moved == {id \in candidates : Moved(c, id)} IN
    IF moved = {} THEN c ELSE Relocated(c, CHOOSE id \in moved : TRUE)

\* The oldest identifier makes room, with what the index says of its path.
\* Mutant: the index keeps the path of the evicted identifier.
NodeEvicted(c) ==
    LET id == Head(c.order) IN
    [c EXCEPT !.nodes = Without(@, {id}), !.order = Tail(@), !.generations = Without(@, {id})]
Evicted(c) ==
    LET id == Head(c.order) IN
    [nodes |-> Without(c.nodes, {id}), ids |-> Without(c.ids, {c.nodes[id]}),
     order |-> Tail(c.order), generations |-> Without(c.generations, {id}), last |-> c.last]
\* Mutant: room is made one identifier too late.
RoomTooLate(c) == IF Cardinality(DOMAIN c.nodes) > NodeLimit /\ c.order # <<>>
                  THEN Evicted(c) ELSE c
Room(c) == IF Cardinality(DOMAIN c.nodes) >= NodeLimit /\ c.order # <<>>
           THEN Evicted(c) ELSE c

Remember(c, p) ==
    IF p \in DOMAIN c.ids THEN c
    ELSE LET room == Room(c)
             id == c.last + 1 IN
         [nodes |-> With(room.nodes, id, p), ids |-> With(room.ids, p, id),
          order |-> Append(room.order, id), generations |-> room.generations, last |-> id]
\* A page in the making: the cache, and the entries listed so far.
Entry(page, p) ==
    LET c == Remember(page.cache, p) IN
    [cache |-> c, entries |-> page.entries \cup {<<p, c.ids[p]>>}]
Listed(c, names) ==
    LET page[i \in 0..Len(Names)] ==
            IF i = 0 THEN [cache |-> c, entries |-> {}]
            ELSE IF Names[i] \in names THEN Entry(page[i - 1], Names[i]) ELSE page[i - 1]
    IN page[Len(Names)]
-----------------------------------------------------------------------------
(* The companion *)

Free == reading = Idle
Waiting(kind) == requests # <<>> /\ Head(requests).kind = kind /\ Head(requests).pc = "waits"
Failed == requests' = [requests EXCEPT ![1].pc = "failed"]

\* A listing: its first half reads the revision and the names.
BeginEntries ==
    LET c == Relocate(cache, DOMAIN cache.generations)
        id == Head(requests).id IN
    /\ Waiting("entries") /\ Free
    /\ cache' = c
    /\ IF Known(c, id) /\ disk[c.nodes[id]] # 0
       THEN /\ reading' = [kind |-> "entries", path |-> c.nodes[id],
                           rev |-> Revision(c.nodes[id]), names |-> Children(c.nodes[id])]
            /\ UNCHANGED requests
       ELSE Failed /\ UNCHANGED reading
    /\ UNCHANGED <<diskVars, branches, selection, socketVars, pages, treeErrors,
                   activeBranchLoads, pendingTree, viewerVars>>

\* Its second half remembers the entries up to one that has gone.
EndEntries ==
    LET gone == {i \in DOMAIN Names : Names[i] \in reading.names /\ disk[Names[i]] = 0}
        page == Listed(cache, {Names[i] : i \in {i \in DOMAIN Names :
                    Names[i] \in reading.names /\ \A j \in gone : i < j}}) IN
    /\ ~Free
    /\ reading' = Idle
    /\ cache' = page.cache
    /\ IF gone = {} /\ Revision(reading.path) = reading.rev
       THEN requests' = [requests EXCEPT ![1].pc = "answered", ![1].entries = page.entries]
       ELSE Failed
    /\ UNCHANGED <<diskVars, branches, selection, socketVars, pages, treeErrors,
                   activeBranchLoads, pendingTree, viewerVars>>

\* The content of the file that has been selected.
ServeContent ==
    LET id == Head(requests).id IN
    /\ Waiting("content") /\ Free
    /\ IF Known(cache, id) /\ disk[cache.nodes[id]] # 0
       THEN /\ cache' = [cache EXCEPT !.generations = With(@, id, disk[cache.nodes[id]])]
            /\ requests' = [requests EXCEPT ![1].pc = "answered",
                                            ![1].generation = disk[cache.nodes[id]]]
       ELSE Failed /\ UNCHANGED cache
    /\ UNCHANGED <<diskVars, branches, selection, reading, socketVars, pages, treeErrors,
                   activeBranchLoads, pendingTree, viewerVars>>

NoSelection == [id |-> 0, generation |-> 0]
\* Mutant: a directory that begins to be observed starts from its revision of the moment.
KnownAtOnce(id) == IF id \in DOMAIN branches THEN branches[id] ELSE Revision(cache.nodes[id])
Prior(id) == IF id \in DOMAIN branches THEN branches[id] ELSE Unknown

\* A message of the viewer; one that names an unknown identifier changes nothing.
Apply ==
    LET message == Head(toServer) IN
    /\ toServer # <<>> /\ Free
    /\ toServer' = Tail(toServer)
    /\ \/ /\ message.type = "branches"
          /\ branches' = IF \A id \in message.ids : Known(cache, id)
                         THEN [id \in message.ids |-> Prior(id)] ELSE branches
          /\ UNCHANGED selection
       \/ /\ message.type = "subscribe"
          /\ selection' = IF Known(cache, message.id)
                          THEN [id |-> message.id, generation |-> message.generation]
                          ELSE selection
          /\ UNCHANGED branches
       \/ /\ message.type = "unsubscribe"
          /\ selection' = NoSelection
          /\ UNCHANGED branches
    /\ UNCHANGED <<diskVars, cache, reading, connected, toViewer, flowVars, loadVars, viewerVars>>

\* The selected file: renamed, out of reach, replaced or as before.
About(type) == [type |-> type, file |-> selection]
FileMessages(c) ==
    LET path == c.nodes[selection.id] IN
    (IF c # cache THEN <<About("file-renamed")>> ELSE <<>>) \o
    (IF disk[path] \notin {0, selection.generation} THEN <<About("reset")>> ELSE <<>>)
Readable(id) == Known(cache, id) /\ disk[cache.nodes[id]] # 0
Changed == {id \in DOMAIN branches :
               Readable(id) => branches[id] # Revision(cache.nodes[id])}
TreeMessages == IF Changed = {} THEN <<>> ELSE <<[type |-> "tree-changed", ids |-> Changed]>>

\* An expired selection ends the poll before it reaches the tree.
Expired == selection # NoSelection /\ ~Known(cache, selection.id)
Watch(due, heard) ==
    LET c == Relocate(cache, {selection.id})
        file == IF selection = NoSelection THEN <<>> ELSE FileMessages(c) IN
    /\ Free /\ ~Expired
    /\ cache' = IF selection # NoSelection /\ disk[c.nodes[selection.id]] # 0
                THEN [c EXCEPT !.generations = With(@, selection.id, disk[c.nodes[selection.id]])]
                ELSE c
    /\ selection' = IF About("reset") \in ToSet(file) THEN NoSelection ELSE selection
    /\ toViewer' = IF heard THEN toViewer \o file \o (IF due THEN TreeMessages ELSE <<>>)
                   ELSE toViewer
    /\ branches' = IF due THEN [id \in {i \in DOMAIN branches : Readable(i)} |->
                                   Revision(cache.nodes[id])]
                   ELSE branches
    /\ UNCHANGED <<diskVars, reading, connected, toServer, flowVars, loadVars, viewerVars>>
Poll(due) == connected /\ Watch(due, TRUE)

\* A flow that was polling when its socket was cut tells what it found to nobody.
PollUnheard(due) == old > 0 /\ Watch(due, FALSE)

\* A flow that ends gives up the selection and the observed directories, unless another
\* one has begun; it may have looked just before that one began.
EndFlow ==
    /\ old > 0 /\ Free
    /\ old' = old - 1
    /\ \/ selection' = NoSelection /\ branches' = <<>>
       \/ (connected \/ old > 1) /\ UNCHANGED <<selection, branches>>
    /\ UNCHANGED <<diskVars, cache, reading, connected, toServer, toViewer, hasty, cuts, loadVars,
                   viewerVars>>
-----------------------------------------------------------------------------
(* The viewer *)

Send(messages) == toServer' = IF connected THEN toServer \o messages ELSE toServer
Branches(ids) == [type |-> "branches", ids |-> ids]
Subscribe == IF selected # 0 /\ generation # 0
             THEN <<[type |-> "subscribe", id |-> selected, generation |-> generation]>>
             ELSE <<>>

\* A request, with what its answer will hold.
Request(kind, id) ==
    [kind |-> kind, id |-> id, pc |-> "waits", entries |-> {}, generation |-> 0]
\* Loads begin in this order; one that finds the queue full has failed.
Begin(ids, queue) ==
    LET room == IF Len(queue) >= RequestLimit THEN 0 ELSE RequestLimit - Len(queue)
        sent == SubSeq(ids, 1, IF Len(ids) < room THEN Len(ids) ELSE room) IN
    /\ requests' = queue \o [i \in DOMAIN sent |-> Request("entries", sent[i])]
    /\ activeBranchLoads' = {queue[i].id : i \in {j \in DOMAIN queue : queue[j].kind = "entries"}}
                                \cup ToSet(sent)
    /\ treeErrors' = treeErrors \cup (ToSet(ids) \ ToSet(sent))

Orders(ids) == {s \in [1..Cardinality(ids) -> ids] : ToSet(s) = ids}

\* A directory that is being loaded will be loaded again.
TreeChanged(ids) ==
    \E order \in Orders((ids \cap opened) \ activeBranchLoads) :
        /\ Begin(order, requests)
        /\ pendingTree' = pendingTree \cup (ids \cap opened \cap activeBranchLoads)
        /\ UNCHANGED <<pages, toServer, selected, generation, refreshing>>

Select(id) ==
    /\ selected' = id /\ generation' = 0
    /\ Send(<<[type |-> "unsubscribe"]>>)
    /\ requests' = IF Len(requests) >= RequestLimit THEN requests
                   ELSE Append(requests, Request("content", id))
    /\ UNCHANGED <<pages, treeErrors, activeBranchLoads, pendingTree>>

\* A message about a selection that has been replaced is dropped.
Current(message) == message.file = [id |-> selected, generation |-> generation]
Handle ==
    LET message == Head(toViewer) IN
    /\ toViewer # <<>>
    /\ toViewer' = Tail(toViewer)
    /\ \/ message.type = "tree-changed" /\ TreeChanged(message.ids)
       \/ /\ message.type # "tree-changed" /\ ~Current(message)
          /\ UNCHANGED <<loadVars, toServer, selected, generation, refreshing>>
       \/ /\ message.type = "file-renamed" /\ Current(message)
          /\ \E order \in Orders(opened) : refreshing' = refreshing \o
                 [i \in DOMAIN order |-> [id |-> order[i], sent |-> FALSE]]
          /\ UNCHANGED <<loadVars, toServer, selected, generation>>
       \/ /\ message.type = "reset" /\ Current(message)
          /\ Select(selected)
          /\ UNCHANGED refreshing
    /\ UNCHANGED <<diskVars, serverVars, connected, flowVars, opened, opening, presses>>

\* A refresh loads the directories one after the other, except those being loaded.
Refresh ==
    LET id == Head(refreshing).id IN
    /\ refreshing # <<>> /\ ~Head(refreshing).sent
    /\ IF id \in activeBranchLoads THEN UNCHANGED loadVars
       ELSE Begin(<<id>>, requests) /\ UNCHANGED <<pages, pendingTree>>
    /\ refreshing' = IF requests' = requests THEN Tail(refreshing)
                     ELSE [refreshing EXCEPT ![1].sent = TRUE]
    /\ UNCHANGED <<diskVars, serverVars, socketVars, opened, selected, generation, opening, presses>>
AwaitedByRefresh(id) == refreshing # <<>> /\ Head(refreshing) = [id |-> id, sent |-> TRUE]

\* The answer to a listing; the first one installs the observation.
\* Mutant: a change announced during the load is forgotten.
NothingAgain(id) == {}
Again(id) == pendingTree \cap {id}
ReceiveEntries ==
    LET answer == Head(requests)
        again == IF Again(answer.id) = {} THEN <<>> ELSE <<answer.id>>
        rest == Tail(requests) IN
    /\ requests # <<>> /\ answer.kind = "entries" /\ answer.pc # "waits"
    /\ pages' = IF answer.pc = "answered" THEN With(pages, answer.id, answer.entries) ELSE pages
    /\ requests' = rest \o [i \in DOMAIN again |-> Request("entries", again[i])]
    /\ activeBranchLoads' = activeBranchLoads \ ({answer.id} \ ToSet(again))
    /\ treeErrors' = IF answer.pc = "answered" THEN treeErrors \ {answer.id}
                     ELSE treeErrors \cup {answer.id}
    /\ pendingTree' = pendingTree \ {answer.id}
    /\ refreshing' = IF AwaitedByRefresh(answer.id) THEN Tail(refreshing) ELSE refreshing
    /\ opening' = FALSE
    /\ Send(IF opening THEN <<Branches(opened)>> ELSE <<>>)
    /\ UNCHANGED <<diskVars, serverVars, connected, toViewer, flowVars, opened, selected,
                   generation, presses>>

\* The content of the file selected last is shown and followed.
ReceiveContent ==
    LET answer == Head(requests)
        latest == \A i \in 2..Len(requests) : requests[i].kind # "content" IN
    /\ requests # <<>> /\ answer.kind = "content" /\ answer.pc # "waits"
    /\ requests' = Tail(requests)
    /\ IF answer.pc = "answered" /\ latest
       THEN /\ generation' = answer.generation
            /\ Send(<<[type |-> "subscribe", id |-> selected, generation |-> answer.generation]>>)
       ELSE UNCHANGED <<generation, toServer>>
    /\ UNCHANGED <<diskVars, serverVars, connected, toViewer, flowVars, pages, treeErrors,
                   activeBranchLoads, pendingTree, opened, selected, refreshing, opening, presses>>

Shown == UNION {pages[id] : id \in DOMAIN pages \cap opened}
Press == presses < MaxPresses /\ Event /\ presses' = presses + 1

Toggle ==
    \E e \in Shown :
        /\ Press /\ IsDirectory(e[1])
        /\ opened' = IF e[2] \in opened THEN opened \ {e[2]} ELSE opened \cup {e[2]}
        /\ Send(<<Branches(opened')>>)
        /\ IF e[2] \in opened \cup activeBranchLoads THEN UNCHANGED loadVars
           ELSE Begin(<<e[2]>>, requests) /\ UNCHANGED <<pages, pendingTree>>
        /\ UNCHANGED <<diskVars, serverVars, connected, toViewer, flowVars, selected, generation,
                       refreshing, opening>>

SelectFile ==
    \E e \in Shown :
        /\ Press /\ ~IsDirectory(e[1])
        /\ Select(e[2])
        /\ UNCHANGED <<diskVars, serverVars, connected, toViewer, flowVars, opened, refreshing, opening>>

\* "Reessayer", offered on a directory that could not be loaded.
Retry ==
    \E id \in opened \cap treeErrors :
        /\ Press /\ id \notin activeBranchLoads
        /\ Begin(<<id>>, requests)
        /\ UNCHANGED <<diskVars, serverVars, socketVars, pages, pendingTree, opened, selected,
                       generation, refreshing, opening>>

\* A cut socket takes its messages along.
Cut ==
    /\ connected /\ cuts < MaxCuts /\ Event
    /\ cuts' = cuts + 1
    /\ connected' = FALSE /\ toServer' = <<>> /\ toViewer' = <<>>
    /\ old' = old + 1 /\ hasty' = FALSE
    /\ UNCHANGED <<diskVars, serverVars, loadVars, viewerVars>>

\* A new flow begins: it gives up the selection, but keeps the observed directories.
Connect ==
    /\ ~connected /\ Free
    /\ connected' = TRUE
    /\ hasty' = (old > 0)
    /\ selection' = NoSelection
    /\ toServer' = <<Branches(opened)>> \o Subscribe
    /\ UNCHANGED <<diskVars, cache, branches, reading, toViewer, old, cuts, loadVars, viewerVars>>
-----------------------------------------------------------------------------
Init ==
    /\ disk = [p \in Paths |-> IF p \in {Final, Inner} THEN 0 ELSE 1]
    /\ stamp = [d \in {Top, Directory} |-> 0] /\ changes = 0
    /\ cache = [nodes |-> [id \in {TopId} |-> Top], ids |-> [p \in {Top} |-> TopId], order |-> <<>>,
                generations |-> <<>>, last |-> TopId]
    /\ branches = <<>> /\ selection = NoSelection /\ reading = Idle
    /\ connected = TRUE /\ toServer = <<>> /\ toViewer = <<>>
    /\ old = 0 /\ hasty = FALSE /\ cuts = 0
    /\ opened = {TopId} /\ pages = <<>> /\ treeErrors = {}
    /\ selected = 0 /\ generation = 0 /\ presses = 0
    /\ activeBranchLoads = {TopId} /\ pendingTree = {}
    /\ requests = <<Request("entries", TopId)>> /\ refreshing = <<>> /\ opening = TRUE

Disk == Rotate \/ \E p \in Paths : Create(p) \/ Delete(p)
User == Toggle \/ SelectFile \/ Retry
System ==
    \/ BeginEntries \/ EndEntries \/ ServeContent \/ Apply \/ Poll(TRUE) \/ EndFlow
    \/ ReceiveEntries \/ ReceiveContent \/ Handle \/ Refresh \/ Connect
Next ==
    \/ Disk \/ User \/ System \/ Poll(FALSE) \/ Cut
    \/ \E due \in BOOLEAN : PollUnheard(due)

Spec == Init /\ [][Next]_vars
-----------------------------------------------------------------------------
\* Types of the variables.
TypeOK ==
    /\ disk \in [Paths -> 0..MaxChanges + 1] /\ disk[Top] = 1
    /\ DOMAIN cache.nodes \subseteq 1..cache.last
    /\ Cardinality(DOMAIN cache.nodes) <= NodeLimit
    /\ ToSet(cache.order) \cup {TopId} = DOMAIN cache.nodes
    /\ DOMAIN cache.generations \subseteq DOMAIN cache.nodes
    /\ DOMAIN branches \cup opened \cup DOMAIN pages \cup treeErrors \subseteq 1..cache.last
    /\ Len(requests) <= RequestLimit
    /\ activeBranchLoads = {requests[i].id : i \in {j \in DOMAIN requests :
                                                       requests[j].kind = "entries"}}
    /\ pendingTree \subseteq activeBranchLoads

\* files.rs:231 expects "ID index matches nodes": an identifier found for a path is one
\* the cache still holds, and it stands for that path, whatever was renamed or evicted.
IndexMatchesNodes ==
    \A p \in DOMAIN cache.ids : Known(cache, cache.ids[p]) /\ cache.nodes[cache.ids[p]] = p

\* Not removed and created again: `poll` has dropped such a directory and the viewer does
\* not ask for it again.
Original(id) == disk[cache.nodes[id]] = 1
NoneExpired == \A id \in opened \cup ({selected} \ {0}) : Known(cache, id)
Shows(entries, id) == {e[1] : e \in entries} = Children(cache.nodes[id])
UpToDate ==
    \A id \in opened :
        Original(id) => id \in treeErrors \/ (id \in DOMAIN pages /\ Shows(pages[id], id))
\* Nothing is on its way, and a poll would find no directory changed.
Settled ==
    /\ connected /\ Free /\ requests = <<>> /\ toServer = <<>> /\ toViewer = <<>>
    /\ Expired \/ Changed = {}

\* front-react-logger/docs/SPECIFICATION.md:63: "Mise a jour a la creation, suppression ou
\* rotation".  When nothing is left to do (the companion answers and polls, the viewer
\* handles what arrives and reconnects, all within seconds), every open directory shows
\* what it holds, or an error with a button to try again, whatever changes crossed the
\* loads, the messages that install the observation and the cuts of the socket; except a
\* directory created again, and unless an identifier that the viewer uses has been evicted.
\* One more exception is the socket opened before the flow of an earlier one had ended: that
\* flow takes a change for known which it tells to nobody (lib.rs:1153), or takes the
\* observed directories away (1012-1019), which the new flow has kept (942-949).
TreeCatchesUp == Settled /\ NoneExpired /\ ~hasty => UpToDate
=============================================================================

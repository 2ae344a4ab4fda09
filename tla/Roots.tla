-------------------------------- MODULE Roots --------------------------------
(***************************************************************************)
(* Sessions and roots: the stores of the browser's tabs (ViewerStore and   *)
(* Api) open, replace and close a root, lose their session, get another    *)
(* one and stop, while the companion (lib.rs) grants a few sessions,       *)
(* forgets the idle ones and holds the root of each.  The requests of a    *)
(* store are served one at a time; a request is served with the token of   *)
(* that moment and its answer handled later.                               *)
(***************************************************************************)
EXTENDS Naturals, FiniteSets, Sequences

CONSTANTS
    Viewers,
    Limit,          \* sessions at the same time (4 in the code)
    MaxPresses,     \* bound: openings and closures asked by the user of each store
    MaxLosses,      \* bound: cuts, restarts and expiries of sessions in use
    MaxSessions     \* bound: sessions granted

ASSUME BoundsAssumption ==
    /\ MaxPresses \in [Viewers -> Nat]
    /\ {Limit, MaxLosses, MaxSessions} \subseteq Nat

VARIABLES
    sessions,       \* tokens of App.sessions
    granted,        \* tokens granted so far: the last one
    serverRoot,     \* Data.root of each token; 0: none
    losses,         \* bound
    phase,          \* where a store is with its session and its socket
    token, newToken,    \* Api.token; the one an unhandled answer carries
    previous,       \* root that a new session reopens
    stopped, again,     \* `stop` was called; tasks after which it says goodbye again
    shown,          \* ViewState.root; 0: none
    serverRootId,
    tasks,          \* openings and closures; a task's number is its rootRevision
    queue,          \* Api.queue: tasks whose request waits or is being served
    refused         \* ghost: roots whose closure was refused

serverVars == <<sessions, granted, serverRoot>>
linkVars == <<phase, token, newToken, previous, stopped, again>>
rootVars == <<shown, serverRootId, tasks, queue, refused>>
vars == <<serverVars, losses, linkVars, rootVars>>

Tokens == 1..MaxSessions
Numbers(v) == 1..Len(tasks[v])
RootRevision(v) == Len(tasks[v])
Latest(v, n) == n = RootRevision(v) /\ ~stopped[v]
Update(f, v, value) == [f EXCEPT ![v] = value]
\* `opening` and `closing`: the last task of the kind, until it ends.
Pending(v, kind) ==
    {n \in Numbers(v) : /\ tasks[v][n].kind = kind /\ tasks[v][n].pc # "done"
                        /\ \A m \in n + 1..Len(tasks[v]) : tasks[v][m].kind # kind}
Task(kind, awaited) == [kind |-> kind, pc |-> "awaits", awaited |-> awaited, root |-> 0]
Quiet(v) == \A n \in Numbers(v) : tasks[v][n].pc = "done"
-----------------------------------------------------------------------------
(* The companion *)

\* Mutants: one session too many; a store that is refused one does not ask again.
FullTooLate == Cardinality(sessions) > Limit
Full == Cardinality(sessions) >= Limit
RefusedForGood(v) == IF phase[v] = "posting" THEN "fresh" ELSE "gone"
Refused(v) == IF phase[v] = "posting" THEN "fresh" ELSE "timer"

Grant(v) ==
    /\ phase[v] \in {"posting", "reposting"}
    /\ IF Full
       THEN /\ phase' = Update(phase, v, Refused(v))
            /\ UNCHANGED <<serverVars, newToken>>
       ELSE /\ granted < MaxSessions
            /\ granted' = granted + 1
            /\ sessions' = sessions \cup {granted'}
            /\ newToken' = Update(newToken, v, granted')
            /\ phase' = Update(phase, v, IF phase[v] = "posting" THEN "granted" ELSE "regranted")
            /\ UNCHANGED serverRoot
    /\ UNCHANGED <<losses, token, previous, stopped, again, rootVars>>

\* The session goes with its root.
Forget(gone) ==
    /\ sessions' = sessions \ gone
    /\ serverRoot' = [t \in Tokens |-> IF t \in gone THEN 0 ELSE serverRoot[t]]
    /\ UNCHANGED granted

Connected(v) == phase[v] = "live"
\* Mutant: the socket of a page that goes away still counts as connected.
IdleIfPresent(t) == \A v \in Viewers : token[v] = t => phase[v] \notin {"live", "gone"}
Idle(t) == \A v \in Viewers : token[v] = t => ~Connected(v)
InUse(t) == \E v \in Viewers : t \in {token[v], newToken[v]} /\ ~stopped[v]
\* The cleanup forgets a session two minutes after its last use.
Expire(t) ==
    /\ t \in sessions /\ Idle(t)
    /\ InUse(t) => losses < MaxLosses
    /\ losses' = IF InUse(t) THEN losses + 1 ELSE losses
    /\ Forget({t})
    /\ UNCHANGED <<linkVars, rootVars>>

CutSockets(vs) == [v \in Viewers |-> IF v \in vs /\ Connected(v) THEN "timer" ELSE phase[v]]
Restart ==
    /\ losses < MaxLosses
    /\ losses' = losses + 1
    /\ Forget(sessions)
    /\ phase' = CutSockets(Viewers)
    /\ UNCHANGED <<token, newToken, previous, stopped, again, rootVars>>

Refuse(v, root) == refused' = Update(refused, v, refused[v] \cup {root})

\* The root of the session changes only if the new one could be opened.  A closure is
\* refused when the companion's disk stays busy (429) through all of its attempts.
Serve(v) ==
    LET n == Head(queue[v])
        task == tasks[v][n] IN
    /\ queue[v] # <<>> /\ task.pc = "queued"
    /\ IF task.kind = "open"
       THEN \/ /\ token[v] \in sessions
               /\ serverRoot' = [serverRoot EXCEPT ![token[v]] = n]
               /\ tasks' = [tasks EXCEPT ![v][n].pc = "answered", ![v][n].root = n]
               /\ UNCHANGED refused
            \/ /\ tasks' = [tasks EXCEPT ![v][n].pc = "answered"]
               /\ UNCHANGED <<serverRoot, refused>>
       ELSE /\ tasks' = [tasks EXCEPT ![v][n].pc = "answered"]
            /\ \/ /\ serverRoot' = IF token[v] \in sessions /\ serverRoot[token[v]] = task.root
                                   THEN [serverRoot EXCEPT ![token[v]] = 0] ELSE serverRoot
                  /\ UNCHANGED refused
               \/ Refuse(v, task.root) /\ UNCHANGED serverRoot
    /\ UNCHANGED <<sessions, granted, losses, linkVars, shown, serverRootId, queue>>
-----------------------------------------------------------------------------
(* Openings and closures *)

Press(v) == ~stopped[v] /\ RootRevision(v) < MaxPresses[v]

Open(v) ==
    /\ Press(v)
    /\ tasks' = [tasks EXCEPT ![v] = Append(@, Task("open", Pending(v, "close")))]
    /\ UNCHANGED <<serverVars, losses, linkVars, shown, serverRootId, queue, refused>>

\* Mutant: a closure does not wait for the opening in progress.
PreviousClosure(v) == Pending(v, "close")
AwaitedByClosure(v) == Pending(v, "close") \cup Pending(v, "open")
CloseRoot(v) ==
    /\ Press(v)
    /\ tasks' = [tasks EXCEPT ![v] = Append(@, Task("close", AwaitedByClosure(v)))]
    /\ shown' = Update(shown, v, 0)
    /\ UNCHANGED <<serverVars, losses, linkVars, serverRootId, queue, refused>>

Awaited(v, n) == \A m \in tasks[v][n].awaited : tasks[v][m].pc = "done"
Proceed(v, n, request) ==
    /\ tasks' = [tasks EXCEPT ![v][n] = request]
    /\ queue' = IF request.pc = "queued" THEN Update(queue, v, Append(queue[v], n)) ELSE queue

\* A superseded opening gives up before its request; `initialize` comes first, and
\* an opening goes on even when it was refused.  The request itself is rejected at once
\* when sixteen of the store's are waiting.
ProceedOpen(v, n) ==
    LET task == tasks[v][n] IN
    /\ task.kind = "open" /\ Awaited(v, n)
    /\ \/ /\ task.pc \in {"awaits", "initializes"} /\ ~Latest(v, n)
          /\ Proceed(v, n, [task EXCEPT !.pc = "done"])
          /\ UNCHANGED phase
       \/ /\ task.pc = "awaits" /\ Latest(v, n) /\ phase[v] = "fresh"
          /\ phase' = Update(phase, v, "posting")
          /\ Proceed(v, n, [task EXCEPT !.pc = "initializes"])
       \/ /\ task.pc = "awaits" /\ Latest(v, n) /\ phase[v] # "fresh"
          /\ Proceed(v, n, [task EXCEPT !.pc = "initializes"])
          /\ UNCHANGED phase
       \/ /\ task.pc = "initializes" /\ Latest(v, n) /\ phase[v] \notin {"posting", "granted"}
          /\ \E pc \in {"queued", "done"} : Proceed(v, n, [task EXCEPT !.pc = pc])
          /\ UNCHANGED phase
    /\ UNCHANGED <<serverVars, losses, token, newToken, previous, stopped, again, shown,
                   serverRootId, refused>>

\* There is no root to close, or the request is rejected: the store forgets the root all
\* the same.
ProceedClose(v, n) ==
    LET task == tasks[v][n] IN
    /\ task.kind = "close" /\ task.pc = "awaits" /\ Awaited(v, n)
    /\ \E root \in {serverRootId[v], 0} :
          /\ Proceed(v, n, [task EXCEPT !.pc = IF root = 0 THEN "done" ELSE "queued", !.root = root])
          /\ IF root = serverRootId[v] THEN UNCHANGED refused ELSE Refuse(v, serverRootId[v])
          /\ serverRootId' = Update(serverRootId, v, root)
    /\ UNCHANGED <<serverVars, losses, linkVars, shown>>

\* Mutant: a superseded opening is shown.
ShownAnyway(v, n) == tasks[v][n].kind = "open" /\ tasks[v][n].root # 0
ShownIfLatest(v, n) == tasks[v][n].kind = "open" /\ tasks[v][n].root # 0 /\ Latest(v, n)
\* An opening that succeeded is recorded even if it has been superseded, but shown
\* only if it has not.  A closure forgets the root, done or refused.
Receive(v) ==
    LET n == Head(queue[v])
        task == tasks[v][n] IN
    /\ queue[v] # <<>> /\ task.pc = "answered"
    /\ tasks' = [tasks EXCEPT ![v][n].pc = "done"]
    /\ queue' = Update(queue, v, Tail(queue[v]))
    /\ serverRootId' = Update(serverRootId, v,
          IF task.kind = "open" THEN IF task.root # 0 THEN n ELSE serverRootId[v]
          ELSE IF serverRootId[v] = task.root THEN 0 ELSE serverRootId[v])
    /\ shown' = IF ShownIfLatest(v, n) THEN Update(shown, v, n) ELSE shown
    /\ UNCHANGED <<serverVars, losses, linkVars, refused>>
-----------------------------------------------------------------------------
(* The session of a store *)

\* The DELETE of a page that goes away may be lost.
Goodbye(v, t) == Forget({t} \cap sessions) \/ UNCHANGED serverVars

\* The page appears.
Mount(v) ==
    /\ phase[v] = "fresh" /\ ~stopped[v] /\ tasks[v] = <<>>
    /\ phase' = Update(phase, v, "posting")
    /\ UNCHANGED <<serverVars, losses, token, newToken, previous, stopped, again, rootVars>>

\* The answer to the first POST /session: a stopped store closes the session at once.
Initialized(v) ==
    /\ phase[v] = "granted"
    /\ token' = Update(token, v, newToken[v])
    /\ newToken' = Update(newToken, v, 0)
    /\ phase' = Update(phase, v, IF stopped[v] THEN "gone" ELSE "connecting")
    /\ IF stopped[v] THEN Goodbye(v, newToken[v]) ELSE UNCHANGED serverVars
    /\ UNCHANGED <<losses, previous, stopped, again, rootVars>>

Connect(v) ==
    /\ phase[v] = "connecting"
    /\ phase' = Update(phase, v, IF token[v] \in sessions THEN "live" ELSE "timer")
    /\ UNCHANGED <<serverVars, losses, token, newToken, previous, stopped, again, rootVars>>

Cut(v) ==
    /\ Connected(v) /\ losses < MaxLosses
    /\ losses' = losses + 1
    /\ phase' = CutSockets({v})
    /\ UNCHANGED <<serverVars, token, newToken, previous, stopped, again, rootVars>>

\* The session is still there, or the root on show is noted and another one asked for.
\* The timer (500 ms at least) leaves time to handle an answer that has been sent.
Answered(v) == queue[v] # <<>> /\ tasks[v][Head(queue[v])].pc = "answered"
Reconnect(v) ==
    /\ phase[v] = "timer" /\ ~Answered(v)
    /\ IF token[v] \in sessions
       THEN phase' = Update(phase, v, "connecting") /\ UNCHANGED previous
       ELSE phase' = Update(phase, v, "reposting") /\ previous' = Update(previous, v, shown[v])
    /\ UNCHANGED <<serverVars, losses, token, newToken, stopped, again, rootVars>>

\* The new session, and the previous root opened again.  (A store stopped meanwhile
\* does neither, nor does it close the session.)
Reinitialized(v) ==
    /\ phase[v] = "regranted"
    /\ token' = Update(token, v, newToken[v])
    /\ newToken' = Update(newToken, v, 0)
    /\ phase' = Update(phase, v, IF stopped[v] THEN "gone" ELSE "connecting")
    /\ serverRootId' = Update(serverRootId, v, 0)
    /\ shown' = Update(shown, v, 0)
    /\ tasks' = IF previous[v] = 0 \/ stopped[v] THEN tasks
                ELSE [tasks EXCEPT ![v] = Append(@, Task("open", Pending(v, "close")))]
    /\ UNCHANGED <<serverVars, losses, previous, stopped, again, queue, refused>>

Stop(v) ==
    /\ ~stopped[v]
    /\ stopped' = Update(stopped, v, TRUE)
    /\ phase' = Update(phase, v, IF phase[v] \in {"fresh", "connecting", "live", "timer"}
                                 THEN "gone" ELSE phase[v])
    /\ again' = Update(again, v, Pending(v, "open") \cup Pending(v, "close"))
    /\ Goodbye(v, token[v])
    /\ UNCHANGED <<losses, token, newToken, previous, rootVars>>

\* The page says goodbye again once the tasks that were in progress have ended.
StopAgain(v) ==
    /\ again[v] # {} /\ \A n \in again[v] : tasks[v][n].pc = "done"
    /\ again' = Update(again, v, {})
    /\ Goodbye(v, token[v])
    /\ UNCHANGED <<losses, phase, token, newToken, previous, stopped, rootVars>>
-----------------------------------------------------------------------------
Init ==
    /\ sessions = {} /\ granted = 0 /\ losses = 0
    /\ serverRoot = [t \in Tokens |-> 0]
    /\ phase = [v \in Viewers |-> "fresh"]
    /\ token = [v \in Viewers |-> 0] /\ newToken = [v \in Viewers |-> 0]
    /\ previous = [v \in Viewers |-> 0]
    /\ stopped = [v \in Viewers |-> FALSE] /\ again = [v \in Viewers |-> {}]
    /\ shown = [v \in Viewers |-> 0] /\ serverRootId = [v \in Viewers |-> 0]
    /\ tasks = [v \in Viewers |-> <<>>] /\ queue = [v \in Viewers |-> <<>>]
    /\ refused = [v \in Viewers |-> {}]

Proceeds(v) == \E n \in Numbers(v) : ProceedOpen(v, n) \/ ProceedClose(v, n)
Link(v) == Grant(v) \/ Initialized(v) \/ Connect(v) \/ Reconnect(v) \/ Reinitialized(v)
Viewer(v) ==
    \/ Mount(v) \/ Open(v) \/ CloseRoot(v) \/ Proceeds(v) \/ Serve(v) \/ Receive(v)
    \/ Link(v) \/ Cut(v) \/ Stop(v) \/ StopAgain(v)

Next == Restart \/ (\E t \in Tokens : Expire(t)) \/ \E v \in Viewers : Viewer(v)

Spec == Init /\ [][Next]_vars

\* Answers come, retries are scheduled again, the cleanup runs every second.
Fairness ==
    /\ \A v \in Viewers : WF_vars(Proceeds(v) \/ Serve(v) \/ Receive(v))
    /\ \A v \in Viewers : WF_vars(Link(v))
    /\ WF_vars(\E t \in Tokens : Expire(t) /\ ~InUse(t))
LiveSpec == Spec /\ Fairness
-----------------------------------------------------------------------------
\* Types of the variables, and the bound on sessions (lib.rs:353).
TypeOK ==
    /\ sessions \subseteq 1..granted /\ granted \in 0..MaxSessions
    /\ Cardinality(sessions) <= Limit
    /\ serverRoot \in [Tokens -> Nat] /\ losses \in 0..MaxLosses
    /\ phase \in [Viewers -> {"fresh", "posting", "granted", "connecting", "live", "timer",
                              "reposting", "regranted", "gone"}]
    /\ token \in [Viewers -> 0..granted] /\ newToken \in [Viewers -> 0..granted]
    /\ stopped \in [Viewers -> BOOLEAN] /\ refused \in [Viewers -> SUBSET Nat]
    /\ \A v \in Viewers :
          /\ {shown[v], serverRootId[v], previous[v]} \subseteq 0..Len(tasks[v])
          /\ \A n \in Numbers(v) :
                tasks[v][n].pc \in {"awaits", "initializes", "queued", "answered", "done"}

\* An opening was superseded and yet succeeded, then the one that superseded it failed.
FailedLast(v) ==
    LET last == tasks[v][Len(tasks[v])] IN
    last.kind = "open" /\ last.root = 0 /\ shown[v] < serverRootId[v]

\* Once every task has ended, the store knows which root the companion holds for its
\* session, and it is the one on show, whose files can then be read; except after the
\* case above (front-react-logger/README.md:123: "Une ouverture de dossier echouee
\* conserve la racine precedente").
RootAgrees ==
    \A v \in Viewers :
        Quiet(v) /\ shown[v] # 0 /\ token[v] \in sessions /\ ~stopped[v]
            => /\ serverRoot[token[v]] = serverRootId[v]
               /\ serverRootId[v] = shown[v] \/ FailedLast(v)

\* Once the closure asked for last has ended, the companion holds no root for the
\* session, whatever openings it crossed: cache, inventory and observation are freed.
\* The exceptions are an opening overtaken by another one, since `closeRoot` awaits the
\* last opening only (viewer-store.ts:358), and a root whose closure was asked for and
\* refused: the store forgets it then (viewer-store.ts:376), and asks no more.
Overtaken(v, n) == n < Len(tasks[v]) /\ tasks[v][n + 1].kind = "open"
ClosureReleases ==
    \A v \in Viewers :
        Quiet(v) /\ tasks[v] # <<>> /\ tasks[v][Len(tasks[v])].kind = "close"
        /\ token[v] \in sessions /\ serverRoot[token[v]] # 0
            => Overtaken(v, serverRoot[token[v]]) \/ serverRoot[token[v]] \in refused[v]

\* A store that stopped ends up without a session, for good, whatever requests it had
\* sent and even if its goodbye was lost: the few sessions are not used up by closed tabs.
StoppedFreesSession ==
    <>[](\A v \in Viewers : stopped[v] => sessions \cap {token[v], newToken[v]} = {})

\* A store that had a session, and lost it or its socket, is not left looking for one
\* when no other tab holds the places: it is connected again, or stopped.
ReconnectsAgain ==
    []<>(\A v \in Viewers :
            token[v] # 0 /\ (\A u \in Viewers \ {v} : stopped[u])
                => Connected(v) \/ stopped[v])
=============================================================================

------------------------------ MODULE Transfers ------------------------------
(***************************************************************************)
(* Downloads and deletions asked of the companion (lib.rs, actions.rs):    *)
(* one-shot links, transfer permits, the cooperative locks on files and    *)
(* directories, the inventory of a tree, its archive and its removal entry *)
(* by entry, the roots and sessions closed meanwhile, and a tree that its  *)
(* writers change at any time.  A session's work under its own lock is one *)
(* step; everything that outlives that lock takes one step per entry.      *)
(***************************************************************************)
EXTENDS Naturals, FiniteSets, SequencesExt

CONSTANTS
    Sessions,
    Deleters, Downloaders,      \* bound: sessions that use each operation
    Dirs, Files,    \* the paths of the tree
    Top, Parent,    \* the directory above all, the directory of each other path
    Above,          \* the ancestors of each path
    Roots,          \* directories a session may open
    Permits,        \* App.transfers: transfers of all sessions (4 in the code)
    MaxEpoch,       \* bound: openings and closures of roots
    MaxChanges      \* bound: changes made by writers

Paths == Dirs \cup Files
ASSUME TreeAssumption ==
    /\ IsFiniteSet(Paths) /\ Dirs \cap Files = {} /\ Top \in Dirs /\ Roots \subseteq Dirs
    /\ Parent \in [Paths \ {Top} -> Dirs] /\ Above \in [Paths -> SUBSET Dirs]
    /\ Above[Top] = {} /\ \A p \in Paths \ {Top} : Above[p] = Above[Parent[p]] \cup {Parent[p]}
    /\ \A p \in Paths : p \notin Above[p] /\ \A q \in Above[p] : Above[q] \subseteq Above[p]
    /\ \A p \in Paths : \A q, r \in Above[p] : q = r \/ q \in Above[r] \/ r \in Above[q]
ASSUME BoundsAssumption ==
    /\ IsFiniteSet(Sessions) /\ Deleters \cup Downloaders \subseteq Sessions
    /\ {Permits, MaxEpoch, MaxChanges} \subseteq Nat

VARIABLES
    disk,       \* inode and revision of each path; revision 0: absent
    changes,    \* bound: changes so far
    root,       \* path and inode of each session's root; inode 0: none
    epoch,      \* Session.root_epoch
    closed,     \* Session.closed
    ticket,     \* Session.ticket
    op          \* the deletion and the download of each session

vars == <<disk, changes, root, epoch, closed, ticket, op>>

Workers == (Deleters \X {"delete"}) \cup (Downloaders \X {"download"})
NoRoot == [path |-> Top, ino |-> 0]
NoTicket == [path |-> Top, token |-> [ino |-> 0, rev |-> 0], root |-> 0]
\* link: epoch of the preparation; epoch: the one the work started in; top: its
\* root; items: the inventory; next: entry to verify, remove or send; clean: ghost,
\* nobody else has changed the tree below the target since.
NoOp == [pc |-> "none", path |-> Top, token |-> NoTicket.token, link |-> 0, epoch |-> 0,
         top |-> Top, locks |-> {}, stack |-> <<>>, items |-> <<>>, next |-> 0, clean |-> TRUE]

Within(p, q) == p = q \/ q \in Above[p]
Present(p) == disk[p].rev > 0
Children(p) == {q \in Paths \ {Top} : Parent[q] = p /\ Present(q)}
Touched(d, p) == [d EXCEPT ![p].rev = @ + 1]
-----------------------------------------------------------------------------
(* Locks *)

Lock(p, exclusive) == [path |-> p, ino |-> disk[p].ino, exclusive |-> exclusive]
Held == UNION {op[x].locks : x \in Workers}
Free(lock) ==
    \A held \in Held : held.path = lock.path /\ held.ino = lock.ino
                          => ~held.exclusive /\ ~lock.exclusive

\* Mutant: the target alone is locked.
TargetOnly(s, p, exclusive) == {Lock(p, exclusive)}
\* The opened root and the other ancestors are shared; the target is shared too,
\* unless it is a directory or about to be removed.
LocksOf(s, p, exclusive) ==
    {Lock(q, FALSE) : q \in {q \in Above[p] : q = root[s].path \/ root[s].path \in Above[q]}}
        \cup {Lock(p, exclusive \/ p \in Dirs)}

\* The entry is below the root, which is still the directory that was opened, and
\* it is the one the user was shown.
Openable(s, p, token, exclusive) ==
    /\ root[s].ino # 0 /\ disk[root[s].path].ino = root[s].ino
    /\ root[s].path \in Above[p]
    /\ Present(p) /\ disk[p] = token
    /\ \A lock \in LocksOf(s, p, exclusive) : Free(lock)

Visit(p) == [path |-> p, token |-> NoTicket.token]

Started(s, p, token, link, exclusive, pc) ==
    [NoOp EXCEPT !.pc = pc, !.path = p, !.token = token, !.link = link, !.epoch = epoch[s],
                 !.top = root[s].path, !.locks = LocksOf(s, p, exclusive), !.stack = <<Visit(p)>>]
-----------------------------------------------------------------------------
(* The tree, roots and sessions *)

Disturbed(o, p) == [o EXCEPT !.clean = @ /\ (o.pc = "none" \/ ~Within(p, o.path))]

Write(p) ==
    /\ p \in Files /\ Present(p)
    /\ disk' = Touched(disk, p)

Create(p) ==
    /\ ~Present(p) /\ Present(Parent[p])
    /\ disk' = Touched([disk EXCEPT ![p] = [ino |-> @.ino + 1, rev |-> 1]], Parent[p])

Writer ==
    /\ changes < MaxChanges
    /\ changes' = changes + 1
    /\ \E p \in Paths \ {Top} :
          /\ Write(p) \/ Create(p)
          /\ op' = [x \in DOMAIN op |-> Disturbed(op[x], p)]
    /\ UNCHANGED <<root, epoch, closed, ticket>>

SetRoot(s, opened) ==
    /\ ~closed[s] /\ SumFunction(epoch) < MaxEpoch
    /\ root' = [root EXCEPT ![s] = opened]
    /\ ticket' = [ticket EXCEPT ![s] = NoTicket]
    /\ epoch' = [epoch EXCEPT ![s] = @ + 1]
    /\ UNCHANGED <<disk, changes, closed, op>>

OpenRoot(s) ==
    \E d \in Roots : Present(d) /\ SetRoot(s, [path |-> d, ino |-> disk[d].ino])
CloseRoot(s) == root[s].ino # 0 /\ SetRoot(s, NoRoot)

\* The session leaves App.sessions: its link and its root are out of reach.
CloseSession(s) ==
    /\ ~closed[s]
    /\ closed' = [closed EXCEPT ![s] = TRUE]
    /\ root' = [root EXCEPT ![s] = NoRoot]
    /\ ticket' = [ticket EXCEPT ![s] = NoTicket]
    /\ UNCHANGED <<disk, changes, epoch, op>>
-----------------------------------------------------------------------------
(* Downloads *)

Set(s, kind, o) == op' = [op EXCEPT ![<<s, kind>>] = o]
End(s, kind) == Set(s, kind, NoOp)
Transferring == {s \in Downloaders : op[s, "download"].pc # "none"}

\* A link for an entry as the user sees it; the locks are only tried.
Prepare(s, p) ==
    /\ ~closed[s] /\ s \notin Transferring
    /\ Openable(s, p, disk[p], FALSE)
    /\ ticket' = [ticket EXCEPT ![s] = [path |-> p, token |-> disk[p], root |-> epoch[s]]]
    /\ UNCHANGED <<disk, changes, root, epoch, closed, op>>

\* The ticket is taken first: a want of permits, or its 30 seconds, burns it.
FollowLink(s) ==
    /\ ticket[s] # NoTicket /\ ~closed[s]
    /\ ticket' = [ticket EXCEPT ![s] = NoTicket]
    /\ \/ UNCHANGED op       \* expired
       \/ /\ s \notin Transferring /\ Cardinality(Transferring) < Permits
          /\ Set(s, "download", [NoOp EXCEPT !.pc = "waiting", !.path = ticket[s].path,
                                 !.token = ticket[s].token, !.link = ticket[s].root,
                                 !.epoch = ticket[s].root])
    /\ UNCHANGED <<disk, changes, root, epoch, closed>>

\* `root` and `node`: identities of roots and entries are new at each opening.
SameRoot(s, link) == link = epoch[s]

\* Once the session's lock is obtained; without it within two seconds, or with a
\* lock of the tree taken (a listing takes each for an instant), it is refused.
StartDownload(s) ==
    LET o == op[s, "download"] IN
    /\ o.pc = "waiting"
    /\ \/ End(s, "download")
       \/ /\ ~closed[s] /\ SameRoot(s, o.link) /\ Openable(s, o.path, o.token, FALSE)
          /\ Set(s, "download", Started(s, o.path, o.token, o.link, FALSE,
                                        IF o.path \in Dirs THEN "collect" ELSE "send"))
    /\ UNCHANGED <<disk, changes, root, epoch, closed, ticket>>

\* The next entry of the archive, checked against the inventory, or the file; the
\* body ends when the client has read it all, or closes.
Send(s) ==
    LET o == op[s, "download"] IN
    /\ o.pc = "send"
    /\ IF o.next < Len(o.items) /\ disk[o.items[o.next + 1].path] = o.items[o.next + 1].token
       THEN Set(s, "download", [o EXCEPT !.next = @ + 1])
       ELSE End(s, "download")
    /\ UNCHANGED <<disk, changes, root, epoch, closed, ticket>>

\* Mutant: only the end of the session cuts the work.
CutBySession(s, o) == closed[s]
Cancelled(s, o) == closed[s] \/ epoch[s] # o.epoch

\* Polled every 50 ms, even when the client has stopped reading.
CutTransfer(s) ==
    /\ op[s, "download"].pc = "send"
    /\ Cancelled(s, op[s, "download"])
    /\ End(s, "download")
    /\ UNCHANGED <<disk, changes, root, epoch, closed, ticket>>
-----------------------------------------------------------------------------
(* Inventory and deletion *)

StartDelete(s, p) ==
    /\ ~closed[s] /\ op[s, "delete"].pc = "none"
    /\ Openable(s, p, disk[p], TRUE)
    /\ Set(s, "delete", Started(s, p, disk[p], epoch[s], TRUE, "collect"))
    /\ UNCHANGED <<disk, changes, root, epoch, closed, ticket>>

\* Mutant: one past the inventory.
PastTheEnd(o, kind) ==
    [o EXCEPT !.pc = IF kind = "delete" THEN "verify" ELSE "send", !.next = Len(o.items) + 1]
\* Where the inventory leads once complete, if the target is still as confirmed.
Inventoried(o, kind) ==
    [o EXCEPT !.pc = IF kind = "delete" THEN "verify" ELSE "send",
              !.next = IF kind = "delete" THEN 1 ELSE 0]

\* An entry is visited, its children next; then a directory is compared again.
Collect(s, kind) ==
    LET o == op[s, kind]
        head == Head(o.stack)
        item == [path |-> head.path, token |-> disk[head.path]] IN
    /\ o.pc = "collect"
    /\ \/ End(s, kind)          \* cancelled, changed, too large, refused by the system
       \/ /\ o.stack = <<>> /\ o.items[1].token = o.token
          /\ Set(s, kind, Inventoried(o, kind))
       \/ /\ o.stack # <<>> /\ ~Cancelled(s, o)
          /\ head = Visit(head.path) /\ Present(head.path)
          /\ Set(s, kind, [o EXCEPT
                !.items = Append(@, item),
                !.stack = SetToSeq({Visit(q) : q \in Children(head.path)})
                             \o (IF head.path \in Dirs THEN <<item>> ELSE <<>>) \o Tail(@)])
       \/ /\ o.stack # <<>> /\ head = item
          /\ Set(s, kind, [o EXCEPT !.stack = Tail(@)])
    /\ UNCHANGED <<disk, changes, root, epoch, closed, ticket>>

Fails(s) == End(s, "delete") /\ UNCHANGED disk
\* A file of the tree is locked for the time of the check; the target already is.
LockedByAnother(o, p) == p \in Files /\ p # o.path /\ ~Free(Lock(p, TRUE))

\* The whole inventory is compared again before the first removal.
Verify(s) ==
    LET o == op[s, "delete"]
        item == o.items[o.next] IN
    /\ o.pc = "verify"
    /\ IF Cancelled(s, o) \/ LockedByAnother(o, item.path) \/ disk[item.path] # item.token
       THEN End(s, "delete")
       ELSE Set(s, "delete", IF o.next < Len(o.items) THEN [o EXCEPT !.next = @ + 1]
                                                     ELSE [o EXCEPT !.pc = "remove"])
    /\ UNCHANGED <<disk, changes, root, epoch, closed, ticket>>

\* Mutants: the inventory's revision for a directory too; the current one for a file.
InventoryRevision(item) == item.token
CurrentRevision(item) == disk[item.path]
\* The removal of its children has changed the revision of a directory.
ExpectedRevision(item) == IF item.path \in Dirs THEN disk[item.path] ELSE item.token

Removable(s, o, item) ==
    /\ ~Cancelled(s, o) /\ ~LockedByAnother(o, item.path)
    /\ Present(item.path) /\ disk[item.path].ino = item.token.ino
    /\ disk[item.path] = ExpectedRevision(item)
    /\ Children(item.path) = {}

\* Children before parents; a failure leaves the deletion partial.  (The gate of the
\* storage, held meanwhile, keeps the recovery of Storage.tla out.)
RemoveEntry(s) ==
    LET o == op[s, "delete"]
        p == o.items[o.next].path IN
    /\ o.pc = "remove"
    /\ \/ ~Removable(s, o, o.items[o.next]) /\ Fails(s)
       \/ /\ Removable(s, o, o.items[o.next])
          /\ disk' = Touched([disk EXCEPT ![p].rev = 0], Parent[p])
          /\ op' = [x \in DOMAIN op |->
                      IF x # <<s, "delete">> THEN Disturbed(op[x], p)
                      ELSE IF o.next = 1 THEN NoOp ELSE [o EXCEPT !.next = @ - 1]]
    /\ UNCHANGED <<changes, root, epoch, closed, ticket>>
-----------------------------------------------------------------------------
Init ==
    /\ disk = [p \in Paths |-> [ino |-> 1, rev |-> 1]]
    /\ changes = 0
    /\ root = [s \in Sessions |-> NoRoot]
    /\ epoch = [s \in Sessions |-> 0]
    /\ closed = [s \in Sessions |-> FALSE]
    /\ ticket = [s \in Sessions |-> NoTicket]
    /\ op = [x \in Workers |-> NoOp]

Work(s, kind) ==
    \/ Collect(s, kind)
    \/ kind = "delete" /\ (Verify(s) \/ RemoveEntry(s))
    \/ kind = "download" /\ (StartDownload(s) \/ CutTransfer(s))
Session(s) ==
    \/ OpenRoot(s) \/ CloseRoot(s) \/ CloseSession(s)
    \/ s \in Downloaders /\ (FollowLink(s) \/ Send(s) \/ \E p \in Paths : Prepare(s, p))
    \/ s \in Deleters /\ \E p \in Paths : StartDelete(s, p)

Next ==
    \/ Writer
    \/ \E s \in Sessions : Session(s)
    \/ \E x \in Workers : Work(x[1], x[2])

Spec == Init /\ [][Next]_vars

\* Blocking tasks and the poll of a transfer go on; clients may stop reading.
Fairness == \A x \in Workers : WF_vars(Work(x[1], x[2]))
LiveSpec == Spec /\ Fairness
-----------------------------------------------------------------------------
Tokens == [ino : Nat, rev : Nat]

\* Types of the variables.
TypeOK ==
    /\ disk \in [Paths -> Tokens] /\ changes \in 0..MaxChanges
    /\ root \in [Sessions -> [path : Dirs, ino : Nat]]
    /\ epoch \in [Sessions -> 0..MaxEpoch] /\ closed \in [Sessions -> BOOLEAN]
    /\ ticket \in [Sessions -> [path : Paths, token : Tokens, root : 0..MaxEpoch]]
    /\ DOMAIN op = Workers
    /\ \A x \in Workers :
          /\ op[x].pc \in {"none", "collect"} \cup
                (IF x[2] = "delete" THEN {"verify", "remove"} ELSE {"waiting", "send"})
          /\ op[x].next \in 0..Len(op[x].items)

\* What a step of a deletion removes.
Gone(p) == disk[p].rev > 0 /\ disk'[p].rev = 0
Deletes(t, p) ==
    LET o == op[t, "delete"] IN
    o.pc = "remove" /\ op'[t, "delete"].next # o.next /\ o.items[o.next].path = p /\ Gone(p)

\* One works from a root strictly below the directory of the other: no lock is common.
Apart(o, d) == d.path \in Above[o.top] \/ o.path \in Above[d.top]

\* Nothing is deleted under a transfer: its locks keep every deletion away from the
\* file, whatever the roots of the sessions, and from all that an archived directory
\* holds unless one session's root is strictly below the directory of the other, or
\* has been: then the directory may be removed, and created again without a lock.
TransferKept ==
    [][\A s \in Downloaders, t \in Deleters, p \in Paths :
          LET o == op[s, "download"]
              d == op[t, "delete"] IN
          o.pc \in {"collect", "send"} /\ disk[o.path].ino = o.token.ino
          /\ Deletes(t, p) /\ Within(p, o.path)
             => o.path \in Dirs /\ Apart(o, d)]_vars

\* docs/11-actions-fichiers-dossiers.md:51-53: "Les compagnons cooperants ne peuvent
\* donc pas supprimer un parent pendant un transfert descendant, ni modifier un
\* sous-arbre pendant son archivage."
SubtreeKept ==
    [][\A s \in Downloaders, t \in Deleters, p \in Paths :
          LET o == op[s, "download"] IN
          ~(o.pc \in {"collect", "send"} /\ Deletes(t, p) /\ Within(p, o.path))]_vars

\* A log that is written while its directory is deleted survives: a file goes only
\* in the state of the inventory, which the removal of its siblings does not change.
ChangedFilesSurvive ==
    [][\A t \in Deleters, p \in Files :
          Deletes(t, p) => disk[p] = op[t, "delete"].items[op[t, "delete"].next].token]_vars

\* A verified deletion ends partial only if its session cut it, or somebody else
\* changed the tree or locked a file of it: its own removals never stop it.
OwnRemovalsNeverStop ==
    [][\A s \in Deleters : LET o == op[s, "delete"] IN
          o.pc = "remove" /\ op'[s, "delete"].pc = "none" /\ ~Gone(o.path)
             => ~o.clean \/ Cancelled(s, o) \/ LockedByAnother(o, o.items[o.next].path)]_vars

\* A closed root or session frees locks and permits, even under a client that has
\* stopped reading its download (lib.rs:882-912).
ClosureReleases ==
    \A x \in Workers :
        (op[x].pc # "none" /\ (closed[x[1]] \/ epoch[x[1]] # op[x].epoch)) ~> op[x].pc = "none"
=============================================================================

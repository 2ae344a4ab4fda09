-------------------------- MODULE TransfersProofs ---------------------------
(***************************************************************************)
(* Deletions and downloads, for every tree, every number of sessions and   *)
(* every change writers make: nothing is removed under a transfer, a file  *)
(* that has changed survives, and a deletion is not stopped by its own     *)
(* removals.                                                               *)
(***************************************************************************)
EXTENDS Transfers, SumProofs, SequenceTheorems

-----------------------------------------------------------------------------
(* The tree *)

\* Below is an order, and what is above one path is a chain of directories.
LEMMA Tree ==
  /\ \A p, q, r \in Paths : Within(p, q) /\ Within(q, r) => Within(p, r)
  /\ \A p, q \in Paths : Within(p, q) /\ Within(q, p) => p = q
  /\ \A p, q, r \in Paths : Within(p, q) /\ Within(p, r) => Within(q, r) \/ Within(r, q)
  /\ \A p \in Paths : \A q \in Above[p] : q \in Dirs /\ q \in Paths
<1> USE TreeAssumption
<1>1. \A p \in Paths : \A q \in Above[p] : q \in Dirs /\ q \in Paths
  BY DEF Paths
<1>2. ASSUME NEW p \in Paths, NEW q \in Paths, NEW r \in Paths, Within(p, q), Within(q, r)
      PROVE  Within(p, r)
  BY <1>2 DEF Within
<1>3. ASSUME NEW p \in Paths, NEW q \in Paths, Within(p, q), Within(q, p)
      PROVE  p = q
  BY <1>3 DEF Within
<1>4. ASSUME NEW p \in Paths, NEW q \in Paths, NEW r \in Paths, Within(p, q), Within(p, r)
      PROVE  Within(q, r) \/ Within(r, q)
  BY <1>4 DEF Within
<1> QED
  BY <1>1, <1>2, <1>3, <1>4

\* A path and its parent.
LEMMA Parents ==
  ASSUME NEW p \in Paths, p # Top
  PROVE  /\ Parent[p] \in Dirs /\ Parent[p] \in Paths /\ Parent[p] \in Above[p] /\ Within(p, Parent[p])
         /\ Parent[p] # p /\ Above[p] = Above[Parent[p]] \cup {Parent[p]}
  BY TreeAssumption DEF Within, Paths

\* Top is above nothing but itself.
LEMMA TopAbove == Top \in Paths /\ \A p \in Paths : Within(Top, p) => p = Top
  BY TreeAssumption DEF Within, Paths

\* The way down from p to something below it starts with a child of p.
LEMMA ChildTowards ==
  ASSUME NEW p \in Paths, NEW r \in Paths, p \in Above[r]
  PROVE  \E c \in Paths \ {Top} : Parent[c] = p /\ Within(r, c)
<1> USE TreeAssumption
<1> DEFINE Leads(s) == \E c \in Paths \ {Top} : Parent[c] = p /\ Within(s, c)
           Bad == {U \in SUBSET Dirs : \E s \in Paths : U = Above[s] /\ p \in Above[s] /\ ~Leads(s)}
<1> SUFFICES ASSUME ~Leads(r) PROVE FALSE
  OBVIOUS
<1>1. Above[r] \in Bad /\ Bad \in SUBSET (SUBSET Dirs)
  OBVIOUS
<1>2. IsFiniteSet(Dirs)
  BY FS_Subset DEF Paths
<1>3. PICK U \in Bad : \A V \in SUBSET U : V # U => V \notin Bad
  <2> HIDE DEF Bad
  <2> QED
    BY <1>1, <1>2, MinimalSet
<1>4. PICK s \in Paths : U = Above[s] /\ p \in Above[s] /\ ~Leads(s)
  BY <1>3
<1>5. s # Top
  BY <1>4
<1> DEFINE t == Parent[s]
<1>6. t \in Paths /\ Above[s] = Above[t] \cup {t} /\ Within(s, t) /\ t \notin Above[t]
  BY <1>5, Parents
<1>7. t # p
  BY <1>4, <1>5 DEF Within
<1>8. p \in Above[t] /\ Above[t] \in SUBSET U /\ Above[t] # U
  BY <1>4, <1>6, <1>7
<1>9. Leads(t)
  BY <1>3, <1>4, <1>6, <1>8
<1>10. PICK c \in Paths \ {Top} : Parent[c] = p /\ Within(t, c)
  BY <1>9
<1>11. Within(s, c)
  BY <1>6, <1>10, Tree
<1> QED
  BY <1>4, <1>10, <1>11

\* SetToSeq enumerates a finite set without repetition.
LEMMA Enumerates ==
  ASSUME NEW S, IsFiniteSet(S)
  PROVE  /\ SetToSeq(S) \in Seq(S)
         /\ \A m, n \in 1..Len(SetToSeq(S)) : SetToSeq(S)[m] = SetToSeq(S)[n] => m = n
         /\ \A e \in S : \E n \in 1..Len(SetToSeq(S)) : SetToSeq(S)[n] = e
<1> DEFINE c == Cardinality(S)
           f == SetToSeq(S)
<1>1. c \in Nat /\ ExistsBijection(1..c, S)
  BY FS_CardinalityType
<1>2. \E g \in [1..c -> S] : IsInjective(g)
  BY <1>1 DEF ExistsBijection, Bijection, Injection
<1>3. f \in [1..c -> S] /\ IsInjective(f)
  BY <1>2 DEF SetToSeq
<1> HIDE DEF c, f
<1>4. f \in Injection(1..c, S) /\ IsFiniteSet(1..c) /\ Cardinality(1..c) = c
  <2>1. f \in Injection(1..c, S)
    BY <1>3 DEF Injection
  <2> QED
    BY <1>1, <2>1, FS_Interval
<1>5. f \in Surjection(1..c, S)
  BY <1>4, FS_Injection DEF c
<1>6. f \in Seq(S) /\ Len(f) = c
  BY <1>1, <1>3
<1>7. /\ \A m, n \in 1..c : f[m] = f[n] => m = n
      /\ \A e \in S : \E n \in 1..c : f[n] = e
  BY <1>3, <1>5 DEF IsInjective, Surjection
<1> QED
  BY <1>6, <1>7 DEF f
-----------------------------------------------------------------------------
(* Types *)

LockTypes == [path : Paths, ino : Nat, exclusive : BOOLEAN]
ItemTypes == [path : Paths, token : Tokens]
\* While these are under way, locks are held.
Locking == {"collect", "verify", "remove", "send"}
OpTypes ==
    [pc : {"none", "waiting"} \cup Locking, path : Paths, token : Tokens,
     link : 0..MaxEpoch, epoch : 0..MaxEpoch, top : Dirs, locks : SUBSET LockTypes,
     stack : Seq(ItemTypes), items : Seq(ItemTypes), next : Nat, clean : BOOLEAN]
\* Inodes are never zero.
DiskTypes == {d \in [Paths -> Tokens] : \A p \in Paths : d[p].ino > 0}
\* An operation of the worker x.
OpOf(x, o) ==
    /\ o \in OpTypes /\ o.next <= Len(o.items)
    /\ x[2] = "delete" => o.pc \notin {"waiting", "send"}
    /\ x[2] = "download" => o.pc \notin {"verify", "remove"}
    /\ o.pc \in {"verify", "remove"} => o.next > 0
    /\ o.pc \in {"none", "waiting"} => o.locks = {}
Typed ==
    /\ disk \in DiskTypes /\ changes \in 0..MaxChanges
    /\ root \in [Sessions -> [path : Dirs, ino : Nat]]
    /\ epoch \in [Sessions -> 0..MaxEpoch] /\ closed \in [Sessions -> BOOLEAN]
    /\ ticket \in [Sessions -> [path : Paths, token : Tokens, root : 0..MaxEpoch]]
    /\ op \in [Workers -> OpTypes] /\ \A x \in Workers : OpOf(x, op[x])

\* These types imply the ones the runs check.
LEMMA TypedOK == Typed => TypeOK
<1> SUFFICES ASSUME Typed PROVE TypeOK
  OBVIOUS
<1>1. ASSUME NEW x \in Workers
      PROVE  /\ op[x].pc \in {"none", "collect"} \cup
                    (IF x[2] = "delete" THEN {"verify", "remove"} ELSE {"waiting", "send"})
             /\ op[x].next \in 0..Len(op[x].items)
  <2>1. OpOf(x, op[x]) /\ x[2] \in {"delete", "download"}
    BY DEF Typed, Workers
  <2>2. op[x].next \in Nat /\ Len(op[x].items) \in Nat /\ op[x].next <= Len(op[x].items)
    BY <2>1 DEF OpOf, OpTypes
  <2>3. op[x].pc \in {"none", "waiting", "collect", "verify", "remove", "send"}
    BY <2>1 DEF OpOf, OpTypes, Locking
  <2> QED
    BY <2>1, <2>2, <2>3 DEF OpOf
<1> QED
  BY <1>1 DEF Typed, TypeOK, DiskTypes

\* The idle operation.
LEMMA IdleType == /\ NoOp \in OpTypes /\ \A x : OpOf(x, NoOp)
                  /\ \A p \in Paths : Visit(p) \in ItemTypes
<1>1. NoTicket.token \in Tokens /\ NoTicket.token.ino = 0 /\ NoTicket.token.rev = 0
  BY DEF NoTicket, Tokens
<1>2. NoOp \in OpTypes
  BY <1>1, TreeAssumption, BoundsAssumption DEF NoOp, OpTypes, Paths
<1>3. Len(NoOp.items) = 0 /\ NoOp.next = 0 /\ NoOp.pc = "none" /\ NoOp.locks = {}
  BY DEF NoOp
<1> QED
  BY <1>1, <1>2, <1>3 DEF OpOf, Visit, ItemTypes

-----------------------------------------------------------------------------
(* Steps of an operation, apart from the state they are taken in *)

There(d, p) == d[p].rev > 0
ItemAt(d, p) == [path |-> p, token |-> d[p]]
IsVisit(e) == e = Visit(e.path)
Offspring(d, p) == {q \in Paths \ {Top} : Parent[q] = p /\ There(d, q)}
Pushed(d, p) == SetToSeq({Visit(q) : q \in Offspring(d, p)})
                    \o (IF p \in Dirs THEN <<ItemAt(d, p)>> ELSE <<>>)

\* The inventory visits an entry, compares a directory again, or is complete.
Visits(d, o, n) ==
    \E p \in Paths :
        /\ o.pc = "collect" /\ o.stack # <<>> /\ Head(o.stack) = Visit(p) /\ There(d, p)
        /\ n = [o EXCEPT !.items = Append(o.items, ItemAt(d, p)),
                         !.stack = Pushed(d, p) \o Tail(o.stack)]
Compares(d, o, n) ==
    /\ o.pc = "collect" /\ o.stack # <<>> /\ Head(o.stack) = ItemAt(d, Head(o.stack).path)
    /\ n = [o EXCEPT !.stack = Tail(o.stack)]
Completes(x, o, n) ==
    /\ o.pc = "collect" /\ o.stack = <<>> /\ o.items[1].token = o.token
    /\ n = Inventoried(o, x[2])
\* The entry is as it was; the next one, or the removals.
Verifies(d, x, o, n) ==
    /\ x[2] = "delete" /\ o.pc = "verify" /\ d[o.items[o.next].path] = o.items[o.next].token
    /\ n = IF o.next < Len(o.items) THEN [o EXCEPT !.next = o.next + 1]
                                    ELSE [o EXCEPT !.pc = "remove"]
Sends(x, o, n) ==
    /\ x[2] = "download" /\ o.pc = "send" /\ o.next < Len(o.items)
    /\ n = [o EXCEPT !.next = o.next + 1]
Removes(x, o, n) ==
    /\ x[2] = "delete" /\ o.pc = "remove"
    /\ n = IF o.next = 1 THEN NoOp ELSE [o EXCEPT !.next = o.next - 1]
Waits(x, o, n) ==
    /\ x[2] = "download" /\ o.pc = "none"
    /\ \E p \in Paths, k \in Tokens, i \in 0..MaxEpoch :
          n = [NoOp EXCEPT !.pc = "waiting", !.path = p, !.token = k, !.link = i, !.epoch = i]
LockAt(d, p, exclusive) == [path |-> p, ino |-> d[p].ino, exclusive |-> exclusive]
LocksAt(d, top, p, exclusive) ==
    {LockAt(d, q, FALSE) : q \in {q \in Above[p] : q = top \/ top \in Above[q]}}
        \cup {LockAt(d, p, exclusive \/ p \in Dirs)}
\* A start on an entry that is there.
Starts(d, x, o, n) ==
    /\ o.pc \in {"none", "waiting"}
    /\ \E p \in Paths, top \in Dirs, i \in 0..MaxEpoch, j \in 0..MaxEpoch, pc \in {"collect", "send"} :
          /\ There(d, p) /\ top \in Above[p]
          /\ x[2] = "delete" => pc = "collect"
          /\ pc = "send" => p \in Files
          /\ n = [NoOp EXCEPT !.pc = pc, !.path = p, !.token = d[p], !.link = i, !.epoch = j,
                              !.top = top, !.locks = LocksAt(d, top, p, x[2] = "delete"),
                              !.stack = <<Visit(p)>>]
Goes(d, x, o, n) ==
    \/ n = NoOp \/ Waits(x, o, n) \/ Starts(d, x, o, n)
    \/ Visits(d, o, n) \/ Compares(d, o, n) \/ Completes(x, o, n)
    \/ Verifies(d, x, o, n) \/ Sends(x, o, n)

\* What a writer or a removal does to the disk at p.
Alters(d, e, p) ==
    /\ d \in DiskTypes /\ e \in DiskTypes /\ p \in Paths \ {Top}
    /\ \A q \in Paths \ {p} : /\ e[q].ino = d[q].ino /\ (There(e, q) <=> There(d, q))
                              /\ q # Parent[p] => e[q] = d[q]
    /\ \/ There(d, p) /\ There(e, p) /\ e[p].ino = d[p].ino
       \/ There(d, p) /\ ~There(e, p) /\ e[p].ino = d[p].ino /\ Offspring(d, p) = {}
       \/ ~There(d, p) /\ There(e, p) /\ e[p].ino = d[p].ino + 1 /\ There(d, Parent[p])
Erased(d, e, p) == There(d, p) /\ ~There(e, p)
-----------------------------------------------------------------------------
(* The inventory *)

\* What a visited entry puts on the stack: a visit for each of its children, each once,
\* and below them, for a directory, the entry itself.
LEMMA PushedEntries ==
  ASSUME NEW d \in DiskTypes, NEW p \in Paths, There(d, p)
  PROVE  /\ Pushed(d, p) \in Seq(ItemTypes)
         /\ \A n \in 1..Len(Pushed(d, p)) :
               LET e == Pushed(d, p)[n] IN
               \/ e = Visit(e.path) /\ e.path \in Offspring(d, p)
               \/ e = ItemAt(d, p) /\ ~IsVisit(e)
         /\ \A m, n \in 1..Len(Pushed(d, p)) :
               m # n /\ IsVisit(Pushed(d, p)[m]) /\ IsVisit(Pushed(d, p)[n])
                  => Pushed(d, p)[m].path # Pushed(d, p)[n].path
         /\ \A c \in Offspring(d, p) : \E n \in 1..Len(Pushed(d, p)) : Pushed(d, p)[n] = Visit(c)
         /\ p \in Dirs => Len(Pushed(d, p)) > 0 /\ Pushed(d, p)[Len(Pushed(d, p))] = ItemAt(d, p)
         /\ p \in Files => Pushed(d, p) = <<>>
<1> DEFINE V == {Visit(q) : q \in Offspring(d, p)}
           s == SetToSeq(V)
           t == IF p \in Dirs THEN <<ItemAt(d, p)>> ELSE <<>>
           r == s \o t
<1>1. Offspring(d, p) \in SUBSET Paths
  BY DEF Offspring
<1>2. IsFiniteSet(V) /\ V \in SUBSET ItemTypes
  <2>1. IsFiniteSet(Offspring(d, p))
    BY <1>1, FS_Subset, TreeAssumption
  <2> DEFINE f == [q \in Offspring(d, p) |-> Visit(q)]
  <2>2. f \in Surjection(Offspring(d, p), V)
    BY DEF Surjection
  <2>2a. IsFiniteSet(V)
    BY <2>1, <2>2, FS_Surjection
  <2>3. V \in SUBSET ItemTypes
    BY <1>1, IdleType
  <2> QED
    BY <2>2a, <2>3
<1>3. /\ s \in Seq(V) /\ \A m, n \in 1..Len(s) : s[m] = s[n] => m = n
      /\ \A e \in V : \E n \in 1..Len(s) : s[n] = e
  BY <1>2, Enumerates
<1>4. ItemAt(d, p) \in ItemTypes /\ ~IsVisit(ItemAt(d, p)) /\ ItemAt(d, p).path = p
  BY DEF ItemAt, ItemTypes, DiskTypes, There, IsVisit, Visit, NoTicket, Tokens
<1>5. \A e \in V : e = Visit(e.path) /\ e.path \in Offspring(d, p) /\ IsVisit(e)
  BY DEF Visit, IsVisit
<1>6. Pushed(d, p) = r
  BY DEF Pushed
<1>7. p \in Files => p \notin Dirs /\ V = {}
  BY TreeAssumption DEF Offspring, Paths
<1> DEFINE a == Len(s)
<1>8. t \in Seq(ItemTypes) /\ (p \in Dirs => t = <<ItemAt(d, p)>>) /\ (p \notin Dirs => t = <<>>)
  BY <1>4
<1> HIDE DEF V, s, t
<1>9. s \in Seq(ItemTypes) /\ a \in Nat
  BY <1>2, <1>3, SeqMonotonic
<1>10. \A n \in 1..a : s[n] \in V
  BY <1>3, ElementOfSeq
<1>11. /\ r \in Seq(ItemTypes) /\ Len(r) = a + Len(t)
       /\ \A n \in 1..a : r[n] = s[n]
       /\ \A n \in 1..Len(r) : n > a => r[n] = t[n - a] /\ n - a \in 1..Len(t)
  BY <1>8, <1>9
<1>12. Len(t) \in {0, 1} /\ (p \in Dirs => Len(t) = 1 /\ t[1] = ItemAt(d, p)) /\ (p \notin Dirs => Len(t) = 0)
  BY <1>8
<1>13. ASSUME NEW n \in 1..Len(r)
       PROVE  \/ n \in 1..a /\ r[n] = s[n] /\ s[n] \in V
              \/ n = a + 1 /\ r[n] = ItemAt(d, p)
  <2>1. CASE n <= a
    BY <1>9, <1>10, <1>11, <2>1
  <2>2. CASE n > a
    <3>1. n - a = 1 /\ p \in Dirs
      BY <1>9, <1>11, <1>12, <2>2
    <3> QED
      BY <1>9, <1>11, <1>12, <2>2, <3>1
  <2> QED
    BY <1>9, <1>11, <2>1, <2>2
<1>14. \A n \in 1..Len(r) : \/ r[n] = Visit(r[n].path) /\ r[n].path \in Offspring(d, p)
                            \/ r[n] = ItemAt(d, p) /\ ~IsVisit(r[n])
  BY <1>4, <1>5, <1>13
<1>15. ASSUME NEW m \in 1..Len(r), NEW n \in 1..Len(r), m # n, IsVisit(r[m]), IsVisit(r[n])
       PROVE  r[m].path # r[n].path
  <2>1. m \in 1..a /\ n \in 1..a /\ r[m] = s[m] /\ r[n] = s[n] /\ s[m] \in V /\ s[n] \in V
    BY <1>4, <1>13, <1>15
  <2>2. s[m] = Visit(s[m].path) /\ s[n] = Visit(s[n].path)
    BY <1>5, <2>1
  <2>3. s[m] # s[n]
    BY <1>3, <1>15, <2>1
  <2> QED
    BY <2>1, <2>2, <2>3
<1>16. ASSUME NEW c \in Offspring(d, p)
       PROVE  \E n \in 1..Len(r) : r[n] = Visit(c)
  <2>1. Visit(c) \in V
    BY DEF V
  <2>2. PICK n \in 1..a : s[n] = Visit(c)
    BY <1>3, <2>1
  <2> QED
    BY <1>9, <1>11, <1>12, <2>2
<1>17. p \in Dirs => Len(r) > 0 /\ r[Len(r)] = ItemAt(d, p)
  <2> SUFFICES ASSUME p \in Dirs PROVE Len(r) > 0 /\ r[Len(r)] = ItemAt(d, p)
    OBVIOUS
  <2>1. Len(r) = a + 1
    BY <1>11, <1>12
  <2> QED
    BY <1>9, <1>11, <1>12, <2>1
<1>18. p \in Files => r = <<>>
  <2> SUFFICES ASSUME p \in Files PROVE r = <<>>
    OBVIOUS
  <2>1. V = {} /\ p \notin Dirs
    BY <1>7
  <2>2. a = 0
    BY <1>9, <1>10, <2>1
  <2> QED
    BY <1>11, <1>12, <2>1, <2>2
<1> HIDE DEF r
<1> QED
  BY <1>6, <1>11, <1>14, <1>15, <1>16, <1>17, <1>18

\* A visit of p: what is on the stack afterwards, and in the inventory.
Visited(d, o, n, p) ==
    /\ There(d, p) /\ o.pc = "collect" /\ 1 \in 1..Len(o.stack) /\ o.stack[1] = Visit(p)
    /\ n = [o EXCEPT !.items = n.items, !.stack = n.stack]
    /\ n.stack \in Seq(ItemTypes) /\ n.items \in Seq(ItemTypes)
    /\ Len(n.items) = Len(o.items) + 1 /\ n.items[Len(n.items)] = ItemAt(d, p)
    /\ \A k \in 1..Len(o.items) : n.items[k] = o.items[k]
    /\ Len(n.stack) = Len(Pushed(d, p)) + Len(o.stack) - 1
    /\ \A k \in 1..Len(Pushed(d, p)) : n.stack[k] = Pushed(d, p)[k]
    /\ \A k \in 1..Len(n.stack) : k > Len(Pushed(d, p)) =>
          /\ k - Len(Pushed(d, p)) + 1 \in 2..Len(o.stack)
          /\ n.stack[k] = o.stack[k - Len(Pushed(d, p)) + 1]
    /\ Len(Pushed(d, p)) \in Nat

\* Every visit is one.
LEMMA VisitMoves ==
  ASSUME NEW d \in DiskTypes, NEW o \in OpTypes, NEW n, Visits(d, o, n)
  PROVE  \E p \in Paths : Visited(d, o, n, p)
<1>1. PICK p \in Paths :
        /\ o.pc = "collect" /\ o.stack # <<>> /\ Head(o.stack) = Visit(p) /\ There(d, p)
        /\ n = [o EXCEPT !.items = Append(o.items, ItemAt(d, p)),
                         !.stack = Pushed(d, p) \o Tail(o.stack)]
  BY DEF Visits
<1> DEFINE u == Pushed(d, p)
           t == Tail(o.stack)
<1>2. o.stack \in Seq(ItemTypes) /\ o.items \in Seq(ItemTypes)
  BY DEF OpTypes
<1>3. u \in Seq(ItemTypes) /\ ItemAt(d, p) \in ItemTypes
  BY <1>1, PushedEntries DEF ItemAt, ItemTypes, DiskTypes
<1>4. n.items = Append(o.items, ItemAt(d, p)) /\ n.stack = u \o t
      /\ n = [o EXCEPT !.items = n.items, !.stack = n.stack]
  BY <1>1 DEF OpTypes
<1> HIDE DEF u
<1>5. t \in Seq(ItemTypes) /\ Len(t) = Len(o.stack) - 1 /\ \A k \in 1..Len(t) : t[k] = o.stack[k + 1]
  BY <1>1, <1>2
<1>6. o.stack[1] = Visit(p) /\ 1 \in 1..Len(o.stack) /\ Len(o.stack) \in Nat
  BY <1>1, <1>2
<1> HIDE DEF t
<1>7. /\ n.items \in Seq(ItemTypes) /\ Len(n.items) = Len(o.items) + 1
      /\ n.items[Len(n.items)] = ItemAt(d, p) /\ \A k \in 1..Len(o.items) : n.items[k] = o.items[k]
  BY <1>2, <1>3, <1>4
<1>8. /\ n.stack \in Seq(ItemTypes) /\ Len(n.stack) = Len(u) + Len(t) /\ Len(u) \in Nat
      /\ \A k \in 1..Len(u) : n.stack[k] = u[k]
      /\ \A k \in 1..Len(n.stack) : k > Len(u) => n.stack[k] = t[k - Len(u)] /\ k - Len(u) \in 1..Len(t)
  <2>1. Len(u) \in Nat /\ Len(t) \in Nat
    BY <1>3, <1>5
  <2>2. /\ u \o t \in Seq(ItemTypes) /\ Len(u \o t) = Len(u) + Len(t)
        /\ \A k \in 1..(Len(u) + Len(t)) : (u \o t)[k] = IF k <= Len(u) THEN u[k] ELSE t[k - Len(u)]
    BY <1>3, <1>5, ConcatProperties
  <2> QED
    BY <1>4, <2>1, <2>2
<1>9. \A k \in 1..Len(n.stack) : k > Len(u) =>
        k - Len(u) + 1 \in 2..Len(o.stack) /\ n.stack[k] = o.stack[k - Len(u) + 1]
  BY <1>5, <1>6, <1>8
<1>10. Len(n.stack) = Len(u) + Len(o.stack) - 1
  BY <1>5, <1>6, <1>8
<1> QED
  BY <1>1, <1>4, <1>6, <1>7, <1>8, <1>9, <1>10 DEF u, Visited

\* A directory compared again.
LEMMA CompareMoves ==
  ASSUME NEW d \in DiskTypes, NEW o \in OpTypes, NEW n, Compares(d, o, n)
  PROVE  /\ o.pc = "collect" /\ 1 \in 1..Len(o.stack) /\ o.stack[1] = ItemAt(d, o.stack[1].path)
         /\ n = [o EXCEPT !.stack = n.stack]
         /\ n.stack \in Seq(ItemTypes) /\ Len(n.stack) = Len(o.stack) - 1
         /\ \A k \in 1..Len(n.stack) : k + 1 \in 2..Len(o.stack) /\ n.stack[k] = o.stack[k + 1]
<1>1. o.stack \in Seq(ItemTypes) /\ o.stack # <<>> /\ o.pc = "collect"
  BY DEF OpTypes, Compares
<1>2. n.stack = Tail(o.stack) /\ n = [o EXCEPT !.stack = n.stack]
  BY DEF Compares, OpTypes
<1> QED
  BY <1>1, <1>2 DEF Compares

\* The stack and the inventory stay below the target, which is the first entry of the
\* inventory and, a directory, at the bottom of the stack until it is compared again.
Listed(o) ==
    /\ \A k \in 1..Len(o.stack) : Within(o.stack[k].path, o.path)
    /\ \A k \in 1..Len(o.items) : Within(o.items[k].path, o.path) /\ o.items[k].token.rev > 0
    /\ o.pc = "collect" =>
          IF o.items = <<>> THEN o.stack = <<Visit(o.path)>>
                            ELSE o.stack # <<>> => o.stack[Len(o.stack)] = o.items[1]
    /\ o.items # <<>> => o.items[1].path = o.path
    /\ o.pc \in {"verify", "remove"} => o.items # <<>> /\ o.items[1].token = o.token

\* An entry that is only to be visited has no revision.
LEMMA VisitHasNone == \A p : Visit(p).path = p /\ Visit(p).token.rev = 0 /\ IsVisit(Visit(p))
  BY DEF Visit, NoTicket, IsVisit

\* The target is visited first, alone on the stack.
LEMMA FirstVisit ==
  ASSUME NEW d \in DiskTypes, NEW o \in OpTypes, NEW n, NEW p \in Paths, Visited(d, o, n, p), Listed(o)
  PROVE  /\ o.items = <<>> => p = o.path /\ Len(o.stack) = 1
         /\ o.items # <<>> => /\ Len(o.stack) > 1 /\ Len(o.items) > 0 /\ o.items[1].path = o.path
                              /\ o.stack[Len(o.stack)] = o.items[1]
<1>1. /\ Len(o.items) \in Nat /\ Len(o.stack) \in Nat /\ 1 \in 1..Len(o.stack)
      /\ o.stack \in Seq(ItemTypes) /\ o.items \in Seq(ItemTypes)
      /\ o.pc = "collect" /\ o.stack[1] = Visit(p)
  BY DEF OpTypes, Visited
<1>2. CASE o.items = <<>>
  <2>0. o.stack = <<Visit(o.path)>>
    BY <1>1, <1>2 DEF Listed
  <2>1. Len(o.stack) = 1 /\ o.stack[1] = Visit(o.path)
    BY <2>0
  <2>2. Visit(p) = Visit(o.path)
    BY <1>1, <2>1
  <2>3. Visit(p).path = p /\ Visit(o.path).path = o.path
    BY DEF Visit
  <2> QED
    BY <1>2, <2>1, <2>2, <2>3
<1>3. CASE o.items # <<>>
  <2>1. /\ Len(o.items) > 0 /\ o.items[1].path = o.path /\ o.stack[Len(o.stack)] = o.items[1]
        /\ o.items[1].token.rev > 0
    BY <1>1, <1>3 DEF Listed
  <2>2. o.stack[1] # o.stack[Len(o.stack)]
    BY <1>1, <2>1, VisitHasNone
  <2> QED
    BY <1>1, <1>3, <2>1, <2>2
<1> QED
  BY <1>2, <1>3

\* What is compared again has been visited.
LEMMA ComparedLater ==
  ASSUME NEW d \in DiskTypes, NEW o \in OpTypes, NEW n, Compares(d, o, n), Listed(o)
  PROVE  o.items # <<>> /\ o.stack[Len(o.stack)] = o.items[1] /\ o.items[1].path = o.path
<1>1. /\ o.pc = "collect" /\ 1 \in 1..Len(o.stack) /\ o.stack[1] = ItemAt(d, o.stack[1].path)
      /\ o.stack \in Seq(ItemTypes) /\ o.stack # <<>>
  BY CompareMoves DEF OpTypes
<1>2. o.items # <<>>
  <2> SUFFICES ASSUME o.items = <<>> PROVE FALSE
    OBVIOUS
  <2>1. o.stack = <<Visit(o.path)>>
    BY <1>1 DEF Listed
  <2>2. o.stack[1] = Visit(o.path)
    BY <2>1
  <2>3. d[o.stack[1].path].ino > 0 /\ o.stack[1].token.ino = d[o.stack[1].path].ino
    BY <1>1, ElementOfSeq DEF ItemAt, DiskTypes, ItemTypes
  <2>4. o.stack[1].token.ino = 0
    BY <2>2 DEF Visit, NoTicket
  <2> QED
    BY <2>3, <2>4
<1> QED
  BY <1>1, <1>2 DEF Listed

\* ... through a visit,
LEMMA VisitListed ==
  ASSUME NEW d \in DiskTypes, NEW o \in OpTypes, NEW n, Visits(d, o, n), Listed(o)
  PROVE  Listed(n)
<1>0. PICK p \in Paths : Visited(d, o, n, p)
  BY VisitMoves
<1>1. /\ There(d, p) /\ o.pc = "collect" /\ 1 \in 1..Len(o.stack) /\ o.stack[1] = Visit(p)
      /\ n = [o EXCEPT !.items = n.items, !.stack = n.stack]
      /\ n.stack \in Seq(ItemTypes) /\ n.items \in Seq(ItemTypes)
      /\ Len(n.items) = Len(o.items) + 1 /\ n.items[Len(n.items)] = ItemAt(d, p)
      /\ \A k \in 1..Len(o.items) : n.items[k] = o.items[k]
      /\ Len(n.stack) = Len(Pushed(d, p)) + Len(o.stack) - 1
      /\ \A k \in 1..Len(Pushed(d, p)) : n.stack[k] = Pushed(d, p)[k]
      /\ \A k \in 1..Len(n.stack) : k > Len(Pushed(d, p)) =>
            /\ k - Len(Pushed(d, p)) + 1 \in 2..Len(o.stack)
            /\ n.stack[k] = o.stack[k - Len(Pushed(d, p)) + 1]
      /\ Len(Pushed(d, p)) \in Nat
  BY <1>0 DEF Visited
<1> DEFINE u == Pushed(d, p)
           i == Len(o.items)
           s == Len(o.stack)
<1>2. n.path = o.path /\ n.pc = "collect" /\ n.token = o.token /\ o.path \in Paths
  BY <1>1 DEF OpTypes
<1>3. i \in Nat /\ s \in Nat /\ s > 0 /\ o.items \in Seq(ItemTypes) /\ o.stack \in Seq(ItemTypes)
  BY <1>1 DEF OpTypes
<1>4. Within(p, o.path)
  BY <1>1, VisitHasNone DEF Listed
<1>5. \A c \in Offspring(d, p) : c \in Paths /\ Within(c, o.path)
  <2> SUFFICES ASSUME NEW c \in Offspring(d, p) PROVE c \in Paths /\ Within(c, o.path)
    OBVIOUS
  <2>1. c \in Paths /\ c # Top /\ Parent[c] = p
    BY DEF Offspring
  <2>2. Within(c, p)
    BY <2>1, Parents
  <2> QED
    BY <1>2, <1>4, <2>1, <2>2, Tree
<1>6. ItemAt(d, p).path = p /\ ItemAt(d, p).token.rev > 0
  BY <1>1 DEF ItemAt, There
<1>7. \A k \in 1..Len(n.items) : Within(n.items[k].path, o.path) /\ n.items[k].token.rev > 0
  <2> SUFFICES ASSUME NEW k \in 1..Len(n.items)
               PROVE  Within(n.items[k].path, o.path) /\ n.items[k].token.rev > 0
    OBVIOUS
  <2>1. k \in 1..i \/ k = Len(n.items)
    BY <1>1, <1>3
  <2> QED
    BY SMTT(30), <1>1, <1>4, <1>6, <2>1 DEF Listed
<1>8. \A k \in 1..Len(n.stack) : Within(n.stack[k].path, o.path)
  <2> SUFFICES ASSUME NEW k \in 1..Len(n.stack) PROVE Within(n.stack[k].path, o.path)
    OBVIOUS
  <2>1. CASE k <= Len(u)
    <3>1. k \in 1..Len(u) /\ n.stack[k] = u[k]
      BY <1>1, <2>1
    <3>2. u[k].path \in Offspring(d, p) \/ u[k].path = p
      BY <1>1, <1>6, <3>1, PushedEntries
    <3> QED
      BY <1>4, <1>5, <3>1, <3>2
  <2>2. CASE k > Len(u)
    <3>1. k - Len(u) + 1 \in 1..s /\ n.stack[k] = o.stack[k - Len(u) + 1]
      BY <1>1, <1>3, <2>2
    <3> QED
      BY <3>1 DEF Listed
  <2> QED
    BY <1>1, <2>1, <2>2
<1>9. n.items # <<>>
  BY <1>1, <1>3
<1>10. CASE o.items = <<>>
  <2>1. i = 0 /\ Len(n.items) = 1 /\ n.items[1] = ItemAt(d, p) /\ s = 1
    BY <1>0, <1>1, <1>10, FirstVisit
  <2>2. p = o.path
    BY <1>0, <1>10, FirstVisit
  <2>3. Len(n.stack) = Len(u)
    BY <1>1, <2>1
  <2>4. n.stack # <<>> => n.stack[Len(n.stack)] = n.items[1]
    <3> SUFFICES ASSUME n.stack # <<>> PROVE n.stack[Len(n.stack)] = n.items[1]
      OBVIOUS
    <3>1. Len(u) > 0
      BY <1>1, <2>3
    <3>2. p \in Dirs
      <4> SUFFICES ASSUME p \in Files PROVE FALSE
        BY DEF Paths
      <4>1. u = <<>>
        BY <1>1, PushedEntries
      <4> QED
        BY <3>1, <4>1
    <3>3. u[Len(u)] = ItemAt(d, p)
      BY <1>1, <3>2, PushedEntries
    <3> QED
      BY <1>1, <2>1, <2>3, <3>1, <3>3
  <2> QED
    BY <1>2, <1>6, <1>7, <1>8, <1>9, <2>1, <2>2, <2>4 DEF Listed
<1>11. CASE o.items # <<>>
  <2>1. i > 0 /\ s > 1 /\ o.items[1].path = o.path /\ o.stack[s] = o.items[1]
    BY <1>0, <1>11, FirstVisit
  <2>2. n.items[1] = o.items[1]
    BY SMTT(30), <1>1, <1>3, <2>1
  <2>3. Len(n.stack) > Len(u) /\ Len(n.stack) - Len(u) + 1 = s /\ Len(n.stack) \in 1..Len(n.stack)
    BY <1>1, <1>3, <2>1
  <2>4. n.stack[Len(n.stack)] = n.items[1]
    BY <1>1, <2>1, <2>2, <2>3
  <2> QED
    BY <1>2, <1>7, <1>8, <1>9, <2>1, <2>2, <2>4 DEF Listed
<1> QED
  BY <1>10, <1>11

\* ... and through every other step.
LEMMA GoesListed ==
  ASSUME NEW d \in DiskTypes, NEW x, OpOf(x, NoOp), NEW o \in OpTypes, NEW n, Goes(d, x, o, n), Listed(o)
  PROVE  Listed(n)
<1>1. CASE n = NoOp \/ Waits(x, o, n)
  <2>1. n.stack = <<>> /\ n.items = <<>> /\ n.pc \in {"none", "waiting"}
    <3>1. CASE n = NoOp
      BY <3>1 DEF NoOp
    <3>2. CASE Waits(x, o, n)
      BY <3>2 DEF NoOp, Waits
    <3> QED
      BY <1>1, <3>1, <3>2
  <2> QED
    BY <2>1 DEF Listed
<1>2. CASE Starts(d, x, o, n)
  <2>1. n.stack = <<Visit(n.path)>> /\ n.items = <<>> /\ n.pc \in {"collect", "send"}
    BY <1>2 DEF Starts, NoOp
  <2>2. Visit(n.path).path = n.path
    BY VisitHasNone
  <2> QED
    BY <2>1, <2>2 DEF Listed, Within
<1>3. CASE Visits(d, o, n)
  BY <1>3, VisitListed
<1>4. CASE Compares(d, o, n)
  <2>1. /\ o.pc = "collect" /\ 1 \in 1..Len(o.stack) /\ o.stack[1] = ItemAt(d, o.stack[1].path)
        /\ n = [o EXCEPT !.stack = n.stack]
        /\ n.stack \in Seq(ItemTypes) /\ Len(n.stack) = Len(o.stack) - 1
        /\ \A k \in 1..Len(n.stack) : k + 1 \in 2..Len(o.stack) /\ n.stack[k] = o.stack[k + 1]
    BY <1>4, CompareMoves
  <2>2. n.path = o.path /\ n.pc = "collect" /\ n.token = o.token /\ n.items = o.items
        /\ o.stack \in Seq(ItemTypes) /\ Len(o.stack) \in Nat /\ o.stack # <<>>
    BY <2>1 DEF OpTypes
  <2>3. \A k \in 1..Len(n.stack) : Within(n.stack[k].path, o.path)
    <3>1. \A k \in 2..Len(o.stack) : k \in 1..Len(o.stack)
      BY <2>2
    <3> QED
      BY <2>1, <3>1 DEF Listed
  <2>4. o.items # <<>>
    BY <1>4, ComparedLater
  <2> QED
    BY <2>1, <2>2, <2>3, <2>4 DEF Listed
<1>5. CASE Completes(x, o, n)
  <2>1. /\ n.path = o.path /\ n.token = o.token /\ n.items = o.items /\ n.stack = o.stack
        /\ n.pc \in {"verify", "send"}
    BY <1>5 DEF Completes, Inventoried, OpTypes
  <2>2. o.items # <<>> /\ o.items[1].token = o.token
    BY <1>5 DEF Completes, Listed
  <2> QED
    BY <2>1, <2>2 DEF Listed
<1>6. CASE Verifies(d, x, o, n) \/ Sends(x, o, n)
  <2>1. /\ n.path = o.path /\ n.token = o.token /\ n.items = o.items /\ n.stack = o.stack
        /\ n.pc # "collect" /\ (n.pc \in {"verify", "remove"} => o.pc \in {"verify", "remove"})
    BY <1>6 DEF Verifies, Sends, OpTypes
  <2> QED
    BY <2>1 DEF Listed
<1> QED
  BY <1>1, <1>2, <1>3, <1>4, <1>5, <1>6 DEF Goes

\* A removal, or somebody else's change.
LEMMA OthersListed ==
  ASSUME NEW x, NEW o \in OpTypes, Listed(o)
  PROVE  /\ \A n : Removes(x, o, n) => Listed(n)
         /\ \A p : Listed(Disturbed(o, p))
<1>1. ASSUME NEW n, Removes(x, o, n) PROVE Listed(n)
  <2>1. CASE o.next = 1
    <3>1. n.stack = <<>> /\ n.items = <<>> /\ n.pc = "none"
      BY <1>1, <2>1 DEF Removes, NoOp
    <3> QED
      BY <3>1 DEF Listed
  <2>2. CASE o.next # 1
    <3>1. /\ n.path = o.path /\ n.token = o.token /\ n.items = o.items /\ n.stack = o.stack
          /\ n.pc = o.pc
      BY <1>1, <2>2 DEF Removes, OpTypes
    <3> QED
      BY <3>1 DEF Listed
  <2> QED
    BY <2>1, <2>2
<1>2. ASSUME NEW p PROVE Listed(Disturbed(o, p))
  BY DEF Listed, Disturbed, OpTypes
<1> QED
  BY <1>1, <1>2

\* The locks of a start.
LEMMA StartLocks ==
  ASSUME NEW d \in DiskTypes, NEW p \in Paths, NEW top \in Dirs, NEW exclusive \in BOOLEAN
  PROVE  LocksAt(d, top, p, exclusive) \in SUBSET LockTypes
<1>1. \A q \in Paths : d[q].ino \in Nat
  BY DEF DiskTypes, Tokens
<1>2. \A q \in Above[p] : q \in Paths
  BY Tree
<1>3. \A q \in Paths, b \in BOOLEAN : LockAt(d, q, b) \in LockTypes
  BY <1>1 DEF LockAt, LockTypes
<1> QED
  BY <1>2, <1>3 DEF LocksAt

\* The steps keep an operation's types.
LEMMA GoesTyped ==
  ASSUME NEW d \in DiskTypes, NEW x, NEW o, OpOf(x, o), NEW n, Goes(d, x, o, n), Listed(o),
         x[2] \in {"delete", "download"}
  PROVE  OpOf(x, n)
<1>1. o \in OpTypes /\ o.next \in Nat /\ Len(o.items) \in Nat /\ o.next <= Len(o.items)
  BY DEF OpOf, OpTypes
<1>2. CASE n = NoOp
  BY <1>2, IdleType
<1>3. CASE Waits(x, o, n)
  <2>1. PICK p \in Paths, k \in Tokens, i \in 0..MaxEpoch :
          n = [NoOp EXCEPT !.pc = "waiting", !.path = p, !.token = k, !.link = i, !.epoch = i]
    BY <1>3 DEF Waits
  <2>2. n \in OpTypes
    BY <2>1, IdleType DEF OpTypes
  <2>3. n.next = 0 /\ n.items = <<>> /\ n.pc = "waiting" /\ n.locks = {} /\ x[2] = "download"
    BY <1>3, <2>1 DEF NoOp, Waits
  <2> QED
    BY <2>2, <2>3 DEF OpOf
<1>4. CASE Starts(d, x, o, n)
  <2>1. PICK p \in Paths, top \in Dirs, i \in 0..MaxEpoch, j \in 0..MaxEpoch, pc \in {"collect", "send"} :
          /\ There(d, p) /\ top \in Above[p]
          /\ x[2] = "delete" => pc = "collect"
          /\ pc = "send" => p \in Files
          /\ n = [NoOp EXCEPT !.pc = pc, !.path = p, !.token = d[p], !.link = i, !.epoch = j,
                              !.top = top, !.locks = LocksAt(d, top, p, x[2] = "delete"),
                              !.stack = <<Visit(p)>>]
    BY <1>4, Zenon DEF Starts
  <2>2. LocksAt(d, top, p, x[2] = "delete") \in SUBSET LockTypes
    BY StartLocks
  <2>3. d[p] \in Tokens /\ <<Visit(p)>> \in Seq(ItemTypes)
    BY IdleType DEF DiskTypes
  <2> HIDE DEF LocksAt
  <2>4. n \in OpTypes
    <3> DEFINE L == LocksAt(d, top, p, x[2] = "delete")
               S == <<Visit(p)>>
    <3> HIDE DEF L, S
    <3>1. n = [NoOp EXCEPT !.pc = pc, !.path = p, !.token = d[p], !.link = i, !.epoch = j,
                           !.top = top, !.locks = L, !.stack = S]
      BY <2>1 DEF L, S
    <3>2. L \in SUBSET LockTypes /\ S \in Seq(ItemTypes)
      BY <2>2, <2>3 DEF L, S
    <3> QED
      BY <2>3, <3>1, <3>2, IdleType DEF OpTypes, Locking
  <2>5. n.next = 0 /\ n.items = <<>> /\ n.pc = pc
    BY <2>1 DEF NoOp
  <2> QED
    BY <2>1, <2>4, <2>5 DEF OpOf
<1>5. CASE Visits(d, o, n)
  <2>0. PICK p \in Paths : Visited(d, o, n, p)
    BY <1>1, <1>5, VisitMoves
  <2>1. /\ o.pc = "collect" /\ n = [o EXCEPT !.items = n.items, !.stack = n.stack]
        /\ n.stack \in Seq(ItemTypes) /\ n.items \in Seq(ItemTypes) /\ Len(n.items) = Len(o.items) + 1
    BY <2>0 DEF Visited
  <2>2. n \in OpTypes /\ n.pc = "collect" /\ n.next = o.next
    BY <1>1, <2>1 DEF OpTypes
  <2>3. n.next <= Len(n.items)
    BY <1>1, <2>1, <2>2
  <2> QED
    BY <2>2, <2>3 DEF OpOf
<1>6. CASE Compares(d, o, n)
  <2>1. o.pc = "collect" /\ n = [o EXCEPT !.stack = n.stack] /\ n.stack \in Seq(ItemTypes)
    BY <1>1, <1>6, CompareMoves
  <2>2. n \in OpTypes /\ n.pc = "collect" /\ n.next = o.next /\ n.items = o.items
    BY <1>1, <2>1 DEF OpTypes
  <2> QED
    BY <1>1, <2>2 DEF OpOf
<1>7. CASE Completes(x, o, n)
  <2>1. Len(o.items) > 0
    BY <1>1, <1>7 DEF Completes, Listed, OpTypes
  <2>2. /\ n \in OpTypes /\ n.items = o.items
        /\ n.pc = (IF x[2] = "delete" THEN "verify" ELSE "send")
        /\ n.next = (IF x[2] = "delete" THEN 1 ELSE 0)
    BY <1>1, <1>7 DEF Completes, Inventoried, OpTypes, Locking
  <2> QED
    BY <1>1, <2>1, <2>2 DEF OpOf
<1>8. CASE Verifies(d, x, o, n)
  <2>1. CASE o.next < Len(o.items)
    <3>0. n = [o EXCEPT !.next = o.next + 1] /\ o.pc = "verify" /\ o.next + 1 \in Nat
      BY <1>1, <1>8, <2>1 DEF Verifies
    <3>1. n \in OpTypes /\ n.items = o.items /\ n.pc = "verify" /\ n.next = o.next + 1
      BY <1>1, <3>0 DEF OpTypes
    <3> QED
      BY <1>1, <1>8, <2>1, <3>1 DEF OpOf, Verifies
  <2>2. CASE ~(o.next < Len(o.items))
    <3>1. n \in OpTypes /\ n.items = o.items /\ n.pc = "remove" /\ n.next = o.next
      BY <1>1, <1>8, <2>2 DEF Verifies, OpTypes, Locking
    <3> QED
      BY <1>1, <1>8, <3>1 DEF OpOf, Verifies
  <2> QED
    BY <2>1, <2>2
<1>9. CASE Sends(x, o, n)
  <2>1. n \in OpTypes /\ n.items = o.items /\ n.pc = "send" /\ n.next = o.next + 1 /\ x[2] = "download"
    BY SMTT(30), <1>1, <1>9 DEF Sends, OpTypes
  <2>2. n.next <= Len(n.items)
    BY <1>1, <1>9, <2>1 DEF Sends
  <2> QED
    BY <2>1, <2>2 DEF OpOf
<1> QED
  BY <1>2, <1>3, <1>4, <1>5, <1>6, <1>7, <1>8, <1>9 DEF Goes

\* ... and so do a removal and somebody else's change.
LEMMA OthersTyped ==
  ASSUME NEW x, NEW o, OpOf(x, o)
  PROVE  /\ \A n : Removes(x, o, n) => OpOf(x, n)
         /\ \A p : OpOf(x, Disturbed(o, p))
<1>1. o \in OpTypes /\ o.next \in Nat /\ Len(o.items) \in Nat /\ o.next <= Len(o.items)
  BY DEF OpOf, OpTypes
<1>2. ASSUME NEW n, Removes(x, o, n) PROVE OpOf(x, n)
  <2>1. CASE o.next = 1
    BY <1>2, <2>1, IdleType DEF Removes
  <2>2. CASE o.next # 1
    <3>1. o.next > 1 /\ o.pc = "remove" /\ x[2] = "delete"
      BY <1>1, <1>2, <2>2 DEF Removes, OpOf
    <3>2. n \in OpTypes /\ n.items = o.items /\ n.pc = "remove" /\ n.next = o.next - 1
      BY SMTT(30), <1>1, <1>2, <2>2, <3>1 DEF Removes, OpTypes
    <3> QED
      BY <1>1, <3>1, <3>2 DEF OpOf
  <2> QED
    BY <2>1, <2>2
<1>3. ASSUME NEW p PROVE OpOf(x, Disturbed(o, p))
  <2>1. Disturbed(o, p) = [o EXCEPT !.clean = Disturbed(o, p).clean]
    BY <1>1 DEF Disturbed, OpTypes
  <2>2. Disturbed(o, p).clean \in BOOLEAN
    BY <1>1 DEF Disturbed, OpTypes
  <2>3. Disturbed(o, p) \in OpTypes
    BY <1>1, <2>1, <2>2 DEF OpTypes
  <2> QED
    BY <1>1, <2>1, <2>3 DEF OpOf, OpTypes
<1> QED
  BY <1>2, <1>3
-----------------------------------------------------------------------------
(* Locks and inodes *)

\* What is there has all its ancestors.
AncestorsIn(d) == \A p \in Paths : There(d, p) => \A q \in Above[p] : There(d, q)

\* An operation under way has a shared lock on each directory from its root to its target,
\* and one on the target, exclusive unless it is a file that is sent; as long as the target
\* is the one that was confirmed, all these are locks on what the paths name now.
Guarded(d, x, o) ==
    o.pc \in Locking =>
       /\ o.top \in Above[o.path]
       /\ \A q \in Above[o.path] : q = o.top \/ o.top \in Above[q] => \E l \in o.locks : l.path = q
       /\ \E l \in o.locks : /\ l.path = o.path /\ l.ino = o.token.ino
                             /\ l.exclusive \/ (x[2] = "download" /\ o.path \in Files)
       /\ \A l \in o.locks : Within(o.path, l.path)
       /\ o.token.ino <= d[o.path].ino
       /\ There(d, o.path) /\ d[o.path].ino = o.token.ino => \A l \in o.locks : l.ino = d[l.path].ino
\* A step that goes on with the same work.
Carries(o, n) ==
    /\ o.pc \in Locking /\ n.path = o.path /\ n.token = o.token /\ n.top = o.top /\ n.locks = o.locks

\* Inodes do not decrease; one that is there, and was, has not been replaced.
LEMMA InodesGrow ==
  ASSUME NEW d, NEW e, NEW p, Alters(d, e, p), NEW q \in Paths
  PROVE  /\ d[q].ino \in Nat /\ e[q].ino \in Nat /\ d[q].ino <= e[q].ino
         /\ There(d, q) => e[q].ino = d[q].ino
         /\ There(e, q) /\ ~There(d, q) => q = p /\ e[q].ino > d[q].ino
<1>1. d[q].ino \in Nat /\ e[q].ino \in Nat
  BY DEF Alters, DiskTypes, Tokens
<1>2. CASE q = p
  BY <1>1, <1>2 DEF Alters
<1>3. CASE q # p
  BY <1>1, <1>3 DEF Alters
<1> QED
  BY <1>1, <1>2, <1>3

\* The ancestors stay under what is there.
LEMMA AncestorsStay ==
  ASSUME NEW d, NEW e, NEW p, Alters(d, e, p), AncestorsIn(d)
  PROVE  AncestorsIn(e)
<1> SUFFICES ASSUME NEW r \in Paths, There(e, r), NEW q \in Above[r] PROVE There(e, q)
  BY DEF AncestorsIn
<1>1. q \in Paths /\ p \in Paths /\ p # Top
  BY Tree DEF Alters
<1>2. CASE q # p /\ There(d, r)
  BY <1>1, <1>2 DEF Alters, AncestorsIn
<1>3. CASE q # p /\ ~There(d, r)
  <2>1. r = p
    BY <1>3, InodesGrow
  <2>2. There(d, Parent[p])
    BY <1>3, <2>1 DEF Alters
  <2>3. q = Parent[p] \/ q \in Above[Parent[p]]
    BY <1>1, <2>1, Parents
  <2>4. There(d, q)
    BY <1>1, <2>2, <2>3, Parents DEF AncestorsIn
  <2> QED
    BY <1>1, <1>3, <2>4 DEF Alters
<1>4. CASE q = p
  <2>1. r # p
    BY <1>1, <1>4, TreeAssumption
  <2>2. There(d, r)
    BY <2>1 DEF Alters
  <2>3. PICK c \in Paths \ {Top} : Parent[c] = p /\ Within(r, c)
    BY <1>1, <1>4, ChildTowards
  <2>4. There(d, c)
    BY <2>2, <2>3 DEF Within, AncestorsIn
  <2>5. Offspring(d, p) # {} /\ There(d, p)
    BY <1>4, <2>2, <2>3, <2>4 DEF Offspring, AncestorsIn
  <2> QED
    BY <1>4, <2>5 DEF Alters
<1> QED
  BY <1>2, <1>3, <1>4

\* The locks of a start.
LEMMA StartGuards ==
  ASSUME NEW d \in DiskTypes, NEW x, x[2] \in {"delete", "download"}, NEW o, NEW n, Starts(d, x, o, n)
  PROVE  Guarded(d, x, n)
<1>1. PICK p \in Paths, top \in Dirs, i \in 0..MaxEpoch, j \in 0..MaxEpoch, pc \in {"collect", "send"} :
          /\ There(d, p) /\ top \in Above[p]
          /\ x[2] = "delete" => pc = "collect"
          /\ pc = "send" => p \in Files
          /\ n = [NoOp EXCEPT !.pc = pc, !.path = p, !.token = d[p], !.link = i, !.epoch = j,
                              !.top = top, !.locks = LocksAt(d, top, p, x[2] = "delete"),
                              !.stack = <<Visit(p)>>]
  BY Zenon DEF Starts
<1> DEFINE L == LocksAt(d, top, p, x[2] = "delete")
<1>2. n.path = p /\ n.token = d[p] /\ n.top = top /\ n.locks = L
  BY <1>1 DEF NoOp
<1>3. \A q \in Above[p] : q = top \/ top \in Above[q] => LockAt(d, q, FALSE) \in L
  BY DEF LocksAt
<1>4. LockAt(d, p, x[2] = "delete" \/ p \in Dirs) \in L
  BY DEF LocksAt
<1>5. \A l \in L : Within(p, l.path) /\ l.ino = d[l.path].ino
  BY DEF LocksAt, LockAt, Within
<1>6. d[p].ino \in Nat
  BY DEF DiskTypes, Tokens
<1>7. x[2] = "delete" \/ p \in Dirs \/ (x[2] = "download" /\ p \in Files)
  BY <1>1 DEF Paths
<1> HIDE DEF L
<1>8. \E l \in L : /\ l.path = p /\ l.ino = d[p].ino
                   /\ l.exclusive \/ (x[2] = "download" /\ p \in Files)
  BY <1>4, <1>7 DEF LockAt
<1>9. \A q \in Above[p] : q = top \/ top \in Above[q] => \E l \in L : l.path = q
  BY <1>3 DEF LockAt
<1> QED
  BY <1>1, <1>2, <1>5, <1>6, <1>8, <1>9 DEF Guarded

\* Every step keeps the guard: it lets go of all, or carries on.
LEMMA GoesGuarded ==
  ASSUME NEW d \in DiskTypes, NEW x, x[2] \in {"delete", "download"},
         NEW o \in OpTypes, NEW n, Goes(d, x, o, n), Guarded(d, x, o)
  PROVE  Guarded(d, x, n)
<1>1. CASE n = NoOp
  BY <1>1 DEF Guarded, NoOp, Locking
<1>2. CASE Waits(x, o, n)
  <2>1. n.pc = "waiting"
    BY <1>2 DEF Waits, NoOp
  <2> QED
    BY <2>1 DEF Guarded, Locking
<1>3. CASE Starts(d, x, o, n)
  BY <1>3, StartGuards
<1>4. CASE Visits(d, o, n) \/ Compares(d, o, n)
  <2>1. Carries(o, n)
    BY <1>4 DEF Visits, Compares, Carries, OpTypes, Locking
  <2> QED
    BY <2>1 DEF Carries, Guarded
<1>5. CASE Completes(x, o, n)
  <2>1. Carries(o, n)
    BY <1>5 DEF Completes, Inventoried, Carries, OpTypes, Locking
  <2> QED
    BY <2>1 DEF Carries, Guarded
<1>6. CASE Verifies(d, x, o, n) \/ Sends(x, o, n)
  <2>1. Carries(o, n)
    BY <1>6 DEF Verifies, Sends, Carries, OpTypes, Locking
  <2> QED
    BY <2>1 DEF Carries, Guarded
<1> QED
  BY <1>1, <1>2, <1>3, <1>4, <1>5, <1>6 DEF Goes

\* A change on the disk keeps it too: under what has stayed nothing was replaced.
LEMMA AltersGuarded ==
  ASSUME NEW d, NEW e, NEW p, Alters(d, e, p), AncestorsIn(d),
         NEW x, NEW o \in OpTypes, Guarded(d, x, o)
  PROVE  Guarded(e, x, o)
<1> SUFFICES ASSUME o.pc \in Locking
             PROVE  /\ o.token.ino <= e[o.path].ino
                    /\ There(e, o.path) /\ e[o.path].ino = o.token.ino
                          => \A l \in o.locks : l.ino = e[l.path].ino
  BY DEF Guarded
<1>1. o.path \in Paths /\ o.token.ino \in Nat /\ \A l \in o.locks : l.path \in Paths
  BY DEF OpTypes, LockTypes, Tokens
<1>2. o.token.ino <= d[o.path].ino /\ d[o.path].ino \in Nat /\ e[o.path].ino \in Nat
      /\ d[o.path].ino <= e[o.path].ino
  BY <1>1, InodesGrow DEF Guarded
<1>3. ASSUME There(e, o.path), e[o.path].ino = o.token.ino, NEW l \in o.locks
      PROVE  l.ino = e[l.path].ino
  <2>1. There(d, o.path)
    <3> SUFFICES ASSUME ~There(d, o.path) PROVE FALSE
      OBVIOUS
    <3>1. e[o.path].ino > d[o.path].ino
      BY <1>1, <1>3, InodesGrow
    <3> QED
      BY <1>2, <1>3, <3>1
  <2>2. d[o.path].ino = o.token.ino
    BY <1>1, <1>3, <2>1, InodesGrow
  <2>3. l.ino = d[l.path].ino /\ Within(o.path, l.path) /\ l.path \in Paths
    BY <1>1, <2>1, <2>2 DEF Guarded
  <2>4. There(d, l.path)
    BY <1>1, <2>1, <2>3 DEF Within, AncestorsIn
  <2> QED
    BY <2>3, <2>4, InodesGrow
<1> QED
  BY <1>1, <1>2, <1>3

\* A removal, or somebody else's change.
LEMMA OthersGuarded ==
  ASSUME NEW d, NEW x, NEW o \in OpTypes, Guarded(d, x, o)
  PROVE  /\ \A n : Removes(x, o, n) => Guarded(d, x, n)
         /\ \A p : Guarded(d, x, Disturbed(o, p))
<1>1. ASSUME NEW n, Removes(x, o, n) PROVE Guarded(d, x, n)
  <2>1. CASE o.next = 1
    BY <1>1, <2>1 DEF Guarded, NoOp, Locking, Removes
  <2>2. CASE o.next # 1
    <3>1. Carries(o, n)
      BY <1>1, <2>2 DEF Removes, Carries, OpTypes, Locking
    <3> QED
      BY <3>1 DEF Carries, Guarded
  <2> QED
    BY <2>1, <2>2
<1>2. ASSUME NEW p PROVE Guarded(d, x, Disturbed(o, p))
  <2>1. /\ Disturbed(o, p).pc = o.pc /\ Disturbed(o, p).path = o.path /\ Disturbed(o, p).token = o.token
        /\ Disturbed(o, p).top = o.top /\ Disturbed(o, p).locks = o.locks
    BY DEF Disturbed, OpTypes
  <2> HIDE DEF Disturbed
  <2> QED
    BY <2>1 DEF Guarded
<1> QED
  BY <1>1, <1>2
-----------------------------------------------------------------------------
(* Inodes of an inventory *)

Alive(d, item) == There(d, item.path) /\ d[item.path].ino = item.token.ino
\* As long as an entry of the inventory is there, the target is the directory it was found
\* in; or the inventory cannot be completed, since the target has been replaced.
Rooted(d, o) ==
    o.pc \in Locking => \A k \in 1..Len(o.items) :
       /\ o.items[k].token.ino <= d[o.items[k].path].ino
       /\ Alive(d, o.items[k]) =>
             \/ d[o.path].ino = o.items[1].token.ino
             \/ o.pc = "collect" /\ o.stack # <<>> /\ d[o.path].ino > o.items[1].token.ino

\* Through a visit: the target was there before, or is the entry itself,
LEMMA VisitRooted ==
  ASSUME NEW d \in DiskTypes, NEW o \in OpTypes, NEW n, Visits(d, o, n), Listed(o), Rooted(d, o)
  PROVE  Rooted(d, n)
<1>1. PICK p \in Paths : Visited(d, o, n, p)
  BY VisitMoves
<1> DEFINE i == Len(o.items)
<1>2. /\ n.path = o.path /\ n.pc = "collect" /\ o.pc \in Locking /\ o.pc = "collect"
      /\ i \in Nat /\ o.items \in Seq(ItemTypes) /\ Len(o.stack) \in Nat
      /\ o.path \in Paths
  <2>1. n = [o EXCEPT !.items = n.items, !.stack = n.stack] /\ o.pc = "collect"
    BY <1>1 DEF Visited
  <2>2. n.path = o.path /\ n.pc = o.pc
    BY <2>1 DEF OpTypes
  <2> QED
    BY <2>1, <2>2 DEF OpTypes, Locking
<1>3. /\ Len(n.items) = i + 1 /\ n.items[i + 1] = ItemAt(d, p)
      /\ \A k \in 1..i : n.items[k] = o.items[k]
  BY <1>1 DEF Visited
<1>4. \A q \in Paths : d[q].ino \in Nat
  BY DEF DiskTypes, Tokens
<1>5. ItemAt(d, p).path = p /\ ItemAt(d, p).token.ino = d[p].ino
  BY DEF ItemAt
<1>6. CASE o.items = <<>>
  <2>1. p = o.path /\ i = 0
    BY <1>1, <1>6, FirstVisit
  <2> QED
    BY <1>2, <1>3, <1>4, <1>5, <2>1 DEF Rooted
<1>7. CASE o.items # <<>>
  <2>1. Len(o.stack) > 1 /\ i > 0 /\ o.items[1].path = o.path /\ n.items[1] = o.items[1]
    BY <1>1, <1>2, <1>3, <1>7, FirstVisit
  <2>2. n.stack # <<>>
    BY <1>1, <1>2, <2>1 DEF Visited
  <2>3. o.items[1].token.ino <= d[o.path].ino
    BY <1>2, <2>1 DEF Rooted
  <2>4. o.items[1].token.ino \in Nat
    <3>1. o.items[1] \in ItemTypes
      BY <1>2, <2>1
    <3> QED
      BY <3>1 DEF ItemTypes, Tokens
  <2>5. d[o.path].ino = o.items[1].token.ino \/ d[o.path].ino > o.items[1].token.ino
    BY <1>2, <1>4, <2>3, <2>4
  <2>6. ASSUME NEW k \in 1..(i + 1) PROVE n.items[k].token.ino <= d[n.items[k].path].ino
    <3>1. CASE k = i + 1
      BY <1>3, <1>4, <1>5, <3>1
    <3>2. CASE k # i + 1
      <4>1. k \in 1..i
        BY <1>2, <3>2
      <4> QED
        BY <1>2, <1>3, <4>1 DEF Rooted
    <3> QED
      BY <3>1, <3>2
  <2> QED
    BY <1>2, <1>3, <2>1, <2>2, <2>5, <2>6 DEF Rooted
<1> QED
  BY <1>6, <1>7

\* ... through every step of the operation,
LEMMA GoesRooted ==
  ASSUME NEW d \in DiskTypes, NEW x, NEW o \in OpTypes, NEW n, Goes(d, x, o, n), Listed(o), Rooted(d, o)
  PROVE  Rooted(d, n)
<1>1. CASE n = NoOp
  BY <1>1 DEF Rooted, NoOp, Locking
<1>2. CASE Waits(x, o, n)
  <2>1. n.pc = "waiting"
    BY <1>2 DEF Waits, NoOp
  <2> QED
    BY <2>1 DEF Rooted, Locking
<1>3. CASE Starts(d, x, o, n)
  <2>1. n.items = <<>>
    BY <1>3 DEF Starts, NoOp
  <2> QED
    BY <2>1 DEF Rooted
<1>4. CASE Visits(d, o, n)
  BY <1>4, VisitRooted
<1>5. CASE Compares(d, o, n)
  <2>1. /\ o.pc = "collect" /\ 1 \in 1..Len(o.stack) /\ o.stack[1] = ItemAt(d, o.stack[1].path)
        /\ n = [o EXCEPT !.stack = n.stack]
    BY <1>5, CompareMoves
  <2>1a. Len(n.stack) = Len(o.stack) - 1 /\ 1 \in 1..Len(o.stack)
    BY <1>5, CompareMoves
  <2>2. n.path = o.path /\ n.pc = "collect" /\ n.items = o.items /\ Len(o.stack) \in Nat /\ o.pc \in Locking
    BY <2>1 DEF OpTypes, Locking
  <2>3. o.stack[Len(o.stack)] = o.items[1] /\ o.items[1].path = o.path
    BY <1>5, ComparedLater
  <2>4. CASE Len(o.stack) = 1
    <3>1. o.items[1].token.ino = d[o.path].ino
      BY <2>1, <2>3, <2>4 DEF ItemAt
    <3>2. d[o.path].ino \in Nat
      BY DEF OpTypes, DiskTypes, Tokens
    <3> QED
      BY <2>1, <2>2, <3>1, <3>2 DEF Rooted
  <2>5. CASE Len(o.stack) # 1
    <3>1. n.stack # <<>>
      <4> DEFINE s == Len(o.stack)
                 t == Len(n.stack)
      <4>1. s \in Nat /\ 1 \in 1..s /\ s # 1 /\ t = s - 1
        BY <2>1a, <2>2, <2>5
      <4> HIDE DEF s, t
      <4>2. t # 0
        BY <4>1
      <4> QED
        BY <4>2 DEF t
    <3> QED
      BY <2>1, <2>2, <3>1 DEF Rooted
  <2> QED
    BY <2>4, <2>5
<1>6. CASE Completes(x, o, n)
  <2>1. o.pc = "collect" /\ o.stack = <<>> /\ n.path = o.path /\ n.items = o.items
    BY <1>6 DEF Completes, Inventoried, OpTypes
  <2> QED
    BY <2>1 DEF Rooted, Locking
<1>7. CASE Verifies(d, x, o, n) \/ Sends(x, o, n)
  <2>1. o.pc \in {"verify", "send"} /\ n.path = o.path /\ n.items = o.items
    BY <1>7 DEF Verifies, Sends, OpTypes
  <2> QED
    BY <2>1 DEF Rooted, Locking
<1> QED
  BY <1>1, <1>2, <1>3, <1>4, <1>5, <1>6, <1>7 DEF Goes

\* ... through any change of the disk: what goes, or is new, is not below the target of
\* an entry that stays,
LEMMA AltersRooted ==
  ASSUME NEW d, NEW e, NEW p, Alters(d, e, p), AncestorsIn(d),
         NEW o \in OpTypes, Listed(o), Rooted(d, o)
  PROVE  Rooted(e, o)
<1> SUFFICES ASSUME o.pc \in Locking, NEW k \in 1..Len(o.items)
             PROVE  /\ o.items[k].token.ino <= e[o.items[k].path].ino
                    /\ Alive(e, o.items[k]) =>
                          \/ e[o.path].ino = o.items[1].token.ino
                          \/ o.pc = "collect" /\ o.stack # <<>> /\ e[o.path].ino > o.items[1].token.ino
  BY DEF Rooted
<1> DEFINE q == o.items[k].path
           i == o.items[k].token.ino
<1>1. q \in Paths /\ o.path \in Paths /\ i \in Nat
  <2>1. o.items \in Seq(ItemTypes) /\ o.path \in Paths
    BY DEF OpTypes
  <2>2. o.items[k] \in ItemTypes
    BY <2>1
  <2> QED
    BY <2>1, <2>2 DEF ItemTypes, Tokens
<1>2. i <= d[q].ino /\ Within(q, o.path)
  BY DEF Rooted, Listed
<1> HIDE DEF q, i
<1>3. d[q].ino \in Nat /\ e[q].ino \in Nat /\ d[q].ino <= e[q].ino
  BY <1>1, InodesGrow
<1>4. ASSUME There(e, q), e[q].ino = i
      PROVE  There(d, q) /\ d[q].ino = i /\ e[o.path].ino = d[o.path].ino
  <2>1. There(d, q)
    <3> SUFFICES ASSUME ~There(d, q) PROVE FALSE
      OBVIOUS
    <3>1. e[q].ino > d[q].ino
      BY <1>1, <1>4, InodesGrow
    <3> QED
      BY <1>1, <1>2, <1>3, <1>4, <3>1
  <2>2. There(d, o.path)
    BY <1>1, <1>2, <2>1 DEF Within, AncestorsIn
  <2> QED
    BY <1>1, <1>4, <2>1, <2>2, InodesGrow
<1>5. i <= e[q].ino
  BY <1>1, <1>2, <1>3
<1> QED
  BY <1>4, <1>5 DEF q, i, Rooted, Alive

\* ... and through a removal, or somebody else's change.
LEMMA OthersRooted ==
  ASSUME NEW d, NEW x, NEW o \in OpTypes, Rooted(d, o)
  PROVE  /\ \A n : Removes(x, o, n) => Rooted(d, n)
         /\ \A p : Rooted(d, Disturbed(o, p))
<1>1. ASSUME NEW n, Removes(x, o, n) PROVE Rooted(d, n)
  <2>1. CASE o.next = 1
    BY <1>1, <2>1 DEF Rooted, NoOp, Locking, Removes
  <2>2. CASE o.next # 1
    <3>1. n.pc = o.pc /\ n.path = o.path /\ n.items = o.items /\ n.stack = o.stack
      BY <1>1, <2>2 DEF Removes, OpTypes
    <3> QED
      BY <3>1 DEF Rooted
  <2> QED
    BY <2>1, <2>2
<1>2. ASSUME NEW p PROVE Rooted(d, Disturbed(o, p))
  <2>1. /\ Disturbed(o, p).pc = o.pc /\ Disturbed(o, p).path = o.path
        /\ Disturbed(o, p).items = o.items /\ Disturbed(o, p).stack = o.stack
    BY DEF Disturbed, OpTypes
  <2> HIDE DEF Disturbed
  <2> QED
    BY <2>1 DEF Rooted
<1> QED
  BY <1>1, <1>2
-----------------------------------------------------------------------------
(* Order and completeness of an inventory *)

\* No entry of the inventory is below a later one or what is still to be visited, and no
\* two visits to come meet.
Ordered(o) ==
    /\ \A k, m \in 1..Len(o.items) : k < m => ~Within(o.items[k].path, o.items[m].path)
    /\ \A k, m \in 1..Len(o.stack) : k # m /\ IsVisit(o.stack[k]) /\ IsVisit(o.stack[m])
          => ~Within(o.stack[k].path, o.stack[m].path)
    /\ \A k \in 1..Len(o.items), m \in 1..Len(o.stack) :
          IsVisit(o.stack[m]) => ~Within(o.items[k].path, o.stack[m].path)

\* A child, its parent, and another path that is neither above nor below that parent.
LEMMA Children2 ==
  ASSUME NEW d, NEW p \in Paths, NEW c \in Offspring(d, p)
  PROVE  /\ c \in Paths /\ Within(c, p) /\ ~Within(p, c)
         /\ \A q \in Paths : Within(q, c) => Within(q, p)
         /\ \A b \in Offspring(d, p) : b # c => ~Within(b, c)
         /\ \A q \in Paths : ~Within(q, p) /\ ~Within(p, q) => ~Within(c, q) /\ ~Within(q, c)
<1>1. c \in Paths /\ c # Top /\ Parent[c] = p
  BY DEF Offspring
<1>2. Within(c, p) /\ c # p /\ Above[c] = Above[p] \cup {p}
  BY <1>1, Parents
<1>3. ~Within(p, c)
  BY <1>1, <1>2, Tree
<1>4. \A q \in Paths : Within(q, c) => Within(q, p)
  BY <1>1, <1>2, Tree
<1>5. ASSUME NEW b \in Offspring(d, p), b # c PROVE ~Within(b, c)
  <2>1. b \in Paths /\ b # Top /\ Parent[b] = p
    BY DEF Offspring
  <2>2. Above[b] = Above[p] \cup {p}
    BY <2>1, Parents
  <2> QED
    BY <1>2, <1>3, <1>5, <2>2 DEF Within
<1>6. ASSUME NEW q \in Paths, ~Within(q, p), ~Within(p, q) PROVE ~Within(c, q) /\ ~Within(q, c)
  <2>1. ~Within(q, c)
    BY <1>4, <1>6
  <2>2. ~Within(c, q)
    BY <1>2, <1>6, <2>1 DEF Within
  <2> QED
    BY <2>1, <2>2
<1> QED
  BY <1>1, <1>2, <1>3, <1>4, <1>5, <1>6

\* The visits on the stack after a visit: of children, or those that were there.
LEMMA VisitsAfter ==
  ASSUME NEW d \in DiskTypes, NEW o \in OpTypes, NEW n, NEW p \in Paths, Visited(d, o, n, p),
         NEW k \in 1..Len(n.stack), IsVisit(n.stack[k])
  PROVE  \/ /\ k \in 1..Len(Pushed(d, p)) /\ n.stack[k] = Pushed(d, p)[k]
            /\ n.stack[k].path \in Offspring(d, p)
         \/ /\ k > Len(Pushed(d, p)) /\ k - Len(Pushed(d, p)) + 1 \in 2..Len(o.stack)
            /\ n.stack[k] = o.stack[k - Len(Pushed(d, p)) + 1]
<1>1. Len(Pushed(d, p)) \in Nat /\ There(d, p)
  BY DEF Visited
<1>2. CASE k <= Len(Pushed(d, p))
  <2>1. k \in 1..Len(Pushed(d, p)) /\ n.stack[k] = Pushed(d, p)[k]
    BY <1>1, <1>2 DEF Visited
  <2> QED
    BY <1>1, <2>1, PushedEntries
<1>3. CASE k > Len(Pushed(d, p))
  BY <1>3 DEF Visited
<1> QED
  BY <1>1, <1>2, <1>3

\* A visit keeps the order,
LEMMA VisitOrdered ==
  ASSUME NEW d \in DiskTypes, NEW o \in OpTypes, NEW n, Visits(d, o, n), Ordered(o)
  PROVE  Ordered(n)
<1>1. PICK p \in Paths : Visited(d, o, n, p)
  BY VisitMoves
<1> DEFINE i == Len(o.items)
           a == Len(Pushed(d, p))
           s == Len(o.stack)
<1>2. /\ i \in Nat /\ a \in Nat /\ s \in Nat /\ 1 \in 1..s
      /\ o.items \in Seq(ItemTypes) /\ o.stack \in Seq(ItemTypes)
      /\ Len(n.items) = i + 1 /\ n.items[i + 1] = ItemAt(d, p)
      /\ \A k \in 1..i : n.items[k] = o.items[k]
      /\ o.stack[1] = Visit(p) /\ There(d, p) /\ Len(n.stack) \in Nat
  BY <1>1 DEF OpTypes, Visited
<1>3. /\ \A k \in 1..i : o.items[k].path \in Paths
      /\ \A k \in 1..s : o.stack[k].path \in Paths
  <2>1. \A k \in 1..i : o.items[k] \in ItemTypes
    BY <1>2
  <2>2. \A k \in 1..s : o.stack[k] \in ItemTypes
    BY <1>2
  <2> QED
    BY <2>1, <2>2 DEF ItemTypes
<1>4. ItemAt(d, p).path = p /\ o.stack[1].path = p /\ IsVisit(o.stack[1])
  BY <1>2, VisitHasNone DEF ItemAt
<1>5. \A k \in 1..i : ~Within(o.items[k].path, p)
  BY <1>2, <1>4 DEF Ordered
<1>6. ASSUME NEW j \in 2..s, IsVisit(o.stack[j])
      PROVE  /\ ~Within(p, o.stack[j].path) /\ ~Within(o.stack[j].path, p)
             /\ j \in 1..s
  <2>1. j \in 1..s /\ j # 1
    BY <1>2
  <2> QED
    BY <1>2, <1>4, <1>6, <2>1 DEF Ordered
<1>7. ASSUME NEW k \in 1..Len(n.items), NEW m \in 1..Len(n.items), k < m
      PROVE  ~Within(n.items[k].path, n.items[m].path)
  <2>1. k \in 1..i /\ (m \in 1..i \/ m = i + 1)
    BY <1>2, <1>7
  <2>2. CASE m \in 1..i
    BY <1>2, <1>7, <2>1, <2>2 DEF Ordered
  <2>3. CASE m = i + 1
    BY <1>2, <1>4, <1>5, <2>1, <2>3
  <2> QED
    BY <2>1, <2>2, <2>3
<1>8. ASSUME NEW k \in 1..Len(n.stack), NEW m \in 1..Len(n.stack), k # m,
             IsVisit(n.stack[k]), IsVisit(n.stack[m])
      PROVE  ~Within(n.stack[k].path, n.stack[m].path)
  <2>1. \/ k \in 1..a /\ n.stack[k] = Pushed(d, p)[k] /\ n.stack[k].path \in Offspring(d, p)
        \/ k > a /\ k - a + 1 \in 2..s /\ n.stack[k] = o.stack[k - a + 1]
    BY <1>1, <1>8, VisitsAfter
  <2>2. \/ m \in 1..a /\ n.stack[m] = Pushed(d, p)[m] /\ n.stack[m].path \in Offspring(d, p)
        \/ m > a /\ m - a + 1 \in 2..s /\ n.stack[m] = o.stack[m - a + 1]
    BY <1>1, <1>8, VisitsAfter
  <2>3. CASE k \in 1..a /\ n.stack[k].path \in Offspring(d, p) /\ n.stack[k] = Pushed(d, p)[k]
             /\ m \in 1..a /\ n.stack[m].path \in Offspring(d, p) /\ n.stack[m] = Pushed(d, p)[m]
    <3>1. n.stack[k].path # n.stack[m].path
      BY <1>2, <1>8, <2>3, PushedEntries
    <3> QED
      BY <2>3, <3>1, Children2
  <2>4. CASE k \in 1..a /\ n.stack[k].path \in Offspring(d, p)
             /\ m - a + 1 \in 2..s /\ n.stack[m] = o.stack[m - a + 1]
    <3>1. /\ ~Within(p, n.stack[m].path) /\ ~Within(n.stack[m].path, p) /\ n.stack[m].path \in Paths
      BY <1>3, <1>6, <1>8, <2>4
    <3> QED
      BY <2>4, <3>1, Children2
  <2>5. CASE m \in 1..a /\ n.stack[m].path \in Offspring(d, p)
             /\ k - a + 1 \in 2..s /\ n.stack[k] = o.stack[k - a + 1]
    <3>1. /\ ~Within(p, n.stack[k].path) /\ ~Within(n.stack[k].path, p) /\ n.stack[k].path \in Paths
      BY <1>3, <1>6, <1>8, <2>5
    <3> QED
      BY <2>5, <3>1, Children2
  <2>6. CASE k - a + 1 \in 2..s /\ n.stack[k] = o.stack[k - a + 1]
             /\ m - a + 1 \in 2..s /\ n.stack[m] = o.stack[m - a + 1]
    <3>1. k - a + 1 \in 1..s /\ m - a + 1 \in 1..s /\ k - a + 1 # m - a + 1
      BY SMTT(30), <1>2, <1>8, <2>6
    <3> QED
      BY <1>8, <2>6, <3>1 DEF Ordered
  <2> QED
    BY <2>1, <2>2, <2>3, <2>4, <2>5, <2>6
<1>9. ASSUME NEW k \in 1..Len(n.items), NEW m \in 1..Len(n.stack), IsVisit(n.stack[m])
      PROVE  ~Within(n.items[k].path, n.stack[m].path)
  <2>1. k \in 1..i \/ k = i + 1
    BY <1>2
  <2>2. \/ m \in 1..a /\ n.stack[m].path \in Offspring(d, p)
        \/ m - a + 1 \in 2..s /\ n.stack[m] = o.stack[m - a + 1]
    BY <1>1, <1>9, VisitsAfter
  <2>3. CASE n.stack[m].path \in Offspring(d, p)
    <3>1. CASE k \in 1..i
      BY SMTT(30), <1>2, <1>3, <1>5, <2>3, <3>1, Children2
    <3>2. CASE k = i + 1
      BY <1>2, <1>4, <2>3, <3>2, Children2
    <3> QED
      BY <2>1, <3>1, <3>2
  <2>4. CASE m - a + 1 \in 2..s /\ n.stack[m] = o.stack[m - a + 1]
    <3>1. CASE k \in 1..i
      BY <1>2, <1>6, <1>9, <2>4, <3>1 DEF Ordered
    <3>2. CASE k = i + 1
      BY <1>2, <1>4, <1>6, <1>9, <2>4, <3>2
    <3> QED
      BY <2>1, <3>1, <3>2
  <2> QED
    BY <2>2, <2>3, <2>4
<1> QED
  BY <1>7, <1>8, <1>9 DEF Ordered

\* ... and so does every other step.
LEMMA GoesOrdered ==
  ASSUME NEW d \in DiskTypes, NEW x, NEW o \in OpTypes, NEW n, Goes(d, x, o, n), Ordered(o)
  PROVE  Ordered(n)
<1>1. CASE n = NoOp
  BY <1>1 DEF Ordered, NoOp
<1>2. CASE Waits(x, o, n)
  <2>1. n.stack = <<>> /\ n.items = <<>>
    BY <1>2 DEF Waits, NoOp
  <2> QED
    BY <2>1 DEF Ordered
<1>3. CASE Starts(d, x, o, n)
  <2>1. n.items = <<>> /\ n.stack = <<Visit(n.path)>>
    BY <1>3 DEF Starts, NoOp
  <2>2. Len(n.items) = 0 /\ Len(n.stack) = 1
    BY <2>1
  <2> QED
    BY <2>2 DEF Ordered
<1>4. CASE Visits(d, o, n)
  BY <1>4, VisitOrdered
<1>5. CASE Compares(d, o, n)
  <2>1. /\ n.stack \in Seq(ItemTypes) /\ Len(n.stack) = Len(o.stack) - 1
        /\ \A k \in 1..Len(n.stack) : k + 1 \in 2..Len(o.stack) /\ n.stack[k] = o.stack[k + 1]
    BY <1>5, CompareMoves
  <2>2. n.items = o.items
    BY <1>5 DEF Compares, OpTypes
  <2>3. \A k \in 1..Len(n.stack) : k + 1 \in 1..Len(o.stack) /\ n.stack[k] = o.stack[k + 1]
    BY <2>1
  <2>4. \A k, m \in 1..Len(n.stack) : k # m => k + 1 # m + 1
    BY <2>1
  <2> QED
    BY <2>2, <2>3, <2>4 DEF Ordered
<1>6. CASE Completes(x, o, n) \/ Verifies(d, x, o, n) \/ Sends(x, o, n)
  <2>1. n.stack = o.stack /\ n.items = o.items
    BY <1>6 DEF Completes, Inventoried, Verifies, Sends, OpTypes
  <2> QED
    BY <2>1 DEF Ordered
<1> QED
  BY <1>1, <1>2, <1>3, <1>4, <1>5, <1>6 DEF Goes

\* ... and a removal, or somebody else's change.
LEMMA OthersOrdered ==
  ASSUME NEW x, NEW o \in OpTypes, Ordered(o)
  PROVE  /\ \A n : Removes(x, o, n) => Ordered(n)
         /\ \A p : Ordered(Disturbed(o, p))
<1>1. ASSUME NEW n, Removes(x, o, n) PROVE Ordered(n)
  <2>1. CASE o.next = 1
    BY <1>1, <2>1 DEF Ordered, NoOp, Removes
  <2>2. CASE o.next # 1
    <3>1. n.items = o.items /\ n.stack = o.stack
      BY <1>1, <2>2 DEF Removes, OpTypes
    <3> QED
      BY <3>1 DEF Ordered
  <2> QED
    BY <2>1, <2>2
<1>2. ASSUME NEW p PROVE Ordered(Disturbed(o, p))
  <2>1. Disturbed(o, p).items = o.items /\ Disturbed(o, p).stack = o.stack
    BY DEF Disturbed, OpTypes
  <2> QED
    BY <2>1 DEF Ordered
<1> QED
  BY <1>1, <1>2
-----------------------------------------------------------------------------
(* What a deletion has still to remove *)

Left(o) == IF o.pc = "remove" THEN o.next ELSE Len(o.items)
\* An entry is as the inventory says; the removal of its children may have changed a directory.
Intact(d, o, k) ==
    /\ Alive(d, o.items[k])
    /\ o.pc # "remove" \/ o.items[k].path \in Files => d[o.items[k].path] = o.items[k].token
Reached(o, q) ==
    \/ \E k \in 1..Left(o) : o.items[k].path = q
    \/ \E k \in 1..Len(o.stack) : IsVisit(o.stack[k]) /\ Within(q, o.stack[k].path)
\* As long as nobody else changes the tree, what is left of the inventory is intact, and
\* what is there is in it, or will be.
Complete(d, o) ==
    o.clean /\ o.pc \in {"collect", "verify", "remove"} =>
       /\ \A k \in 1..Left(o) : Intact(d, o, k)
       /\ \A q \in Paths : There(d, q) /\ Within(q, o.path) => Reached(o, q)
       /\ o.pc # "collect" => o.stack = <<>>

\* A visit adds an entry and leaves its children to be visited,
LEMMA VisitComplete ==
  ASSUME NEW d \in DiskTypes, AncestorsIn(d), NEW o \in OpTypes, NEW n, Visits(d, o, n),
         Complete(d, o)
  PROVE  Complete(d, n)
<1>1. PICK p \in Paths : Visited(d, o, n, p)
  BY VisitMoves
<1> DEFINE i == Len(o.items)
           a == Len(Pushed(d, p))
           s == Len(o.stack)
<1>2. /\ i \in Nat /\ a \in Nat /\ s \in Nat
      /\ Len(n.items) = i + 1 /\ n.items[i + 1] = ItemAt(d, p)
      /\ \A k \in 1..i : n.items[k] = o.items[k]
      /\ o.stack[1] = Visit(p) /\ There(d, p) /\ Len(n.stack) = a + s - 1
  BY <1>1 DEF OpTypes, Visited
<1>3. n.pc = "collect" /\ o.pc = "collect" /\ n.clean = o.clean /\ n.path = o.path
  <2>1. n = [o EXCEPT !.items = n.items, !.stack = n.stack] /\ o.pc = "collect"
    BY <1>1 DEF Visited
  <2> QED
    BY <2>1 DEF OpTypes
<1> SUFFICES ASSUME o.clean
             PROVE  /\ \A k \in 1..(i + 1) : Intact(d, n, k)
                    /\ \A q \in Paths : There(d, q) /\ Within(q, o.path) => Reached(n, q)
  BY <1>2, <1>3 DEF Complete, Left
<1>4. /\ \A k \in 1..i : Intact(d, o, k)
      /\ \A q \in Paths : There(d, q) /\ Within(q, o.path) => Reached(o, q)
  BY <1>3 DEF Complete, Left
<1>5. ASSUME NEW k \in 1..(i + 1) PROVE Intact(d, n, k)
  <2>1. CASE k = i + 1
    BY <1>2, <2>1 DEF Intact, Alive, ItemAt
  <2>2. CASE k # i + 1
    <3>1. k \in 1..i
      BY <1>2, <2>2
    <3> QED
      BY <1>2, <1>3, <1>4, <3>1 DEF Intact
  <2> QED
    BY <2>1, <2>2
<1>6. ASSUME NEW q \in Paths, There(d, q), Within(q, o.path)
      PROVE  Reached(n, q)
  <2>1. Reached(o, q)
    BY <1>4, <1>6
  <2>2. CASE \E k \in 1..i : o.items[k].path = q
    <3>1. PICK k \in 1..i : o.items[k].path = q
      BY <2>2
    <3>2. k \in 1..(i + 1) /\ n.items[k].path = q
      BY <1>2, <3>1
    <3> QED
      BY <1>2, <1>3, <3>2 DEF Reached, Left
  <2>3. CASE Within(q, p)
    <3>1. CASE q = p
      <4>1. i + 1 \in 1..(i + 1) /\ n.items[i + 1].path = q
        BY <1>2, <3>1 DEF ItemAt
      <4> QED
        BY <1>2, <1>3, <4>1 DEF Reached, Left
    <3>2. CASE q # p
      <4>1. PICK c \in Paths \ {Top} : Parent[c] = p /\ Within(q, c)
        BY <2>3, <3>2, ChildTowards DEF Within
      <4>2. c \in Offspring(d, p)
        BY <1>6, <4>1 DEF Offspring, AncestorsIn, Within
      <4>3. PICK k \in 1..a : Pushed(d, p)[k] = Visit(c)
        BY <1>2, <4>2, PushedEntries
      <4>4. n.stack[k] = Visit(c) /\ k \in 1..Len(n.stack)
        <5>1. s >= 1
          BY <1>1, <1>2 DEF Visited
        <5> QED
          BY <1>1, <1>2, <4>3, <5>1 DEF Visited
      <4> QED
        BY <4>1, <4>4, VisitHasNone DEF Reached
    <3> QED
      BY <3>1, <3>2
  <2>4. CASE \E k \in 1..s : k # 1 /\ IsVisit(o.stack[k]) /\ Within(q, o.stack[k].path)
    <3>1. PICK k \in 1..s : k # 1 /\ IsVisit(o.stack[k]) /\ Within(q, o.stack[k].path)
      BY <2>4
    <3> DEFINE j == a + k - 1
    <3>2. j \in 1..Len(n.stack) /\ j > a /\ j - a + 1 = k
      <4>1. a \in Nat /\ s \in Nat /\ k \in 1..s /\ k # 1 /\ Len(n.stack) = a + s - 1
        BY <1>2, <3>1
      <4> HIDE DEF a, s
      <4> QED
        BY <4>1
    <3>3. n.stack[j] = o.stack[k]
      BY <1>1, <3>2 DEF Visited
    <3> QED
      BY <3>1, <3>2, <3>3 DEF Reached
  <2>5. o.stack[1].path = p
    BY <1>2, VisitHasNone
  <2> QED
    BY <1>3, <2>1, <2>2, <2>3, <2>4, <2>5 DEF Reached, Left
<1> QED
  BY <1>5, <1>6

\* ... every other step but a removal leaves the inventory complete,
LEMMA GoesComplete ==
  ASSUME NEW d \in DiskTypes, AncestorsIn(d), NEW x, NEW o, OpOf(x, o), NEW n, Goes(d, x, o, n),
         Listed(o), Complete(d, o)
  PROVE  Complete(d, n)
<1>0. o \in OpTypes /\ o.next \in Nat /\ Len(o.items) \in Nat /\ o.next <= Len(o.items)
  BY DEF OpOf, OpTypes
<1>1. CASE n = NoOp
  BY <1>1 DEF Complete, NoOp
<1>2. CASE Waits(x, o, n)
  <2>1. n.pc = "waiting"
    BY <1>2 DEF Waits, NoOp
  <2> QED
    BY <2>1 DEF Complete
<1>3. CASE Starts(d, x, o, n)
  <2>1. n.items = <<>> /\ n.stack = <<Visit(n.path)>> /\ n.pc \in {"collect", "send"}
    BY <1>3 DEF Starts, NoOp
  <2>2. Len(n.items) = 0 /\ Len(n.stack) = 1 /\ n.stack[1] = Visit(n.path)
    BY <2>1
  <2>3. \A q \in Paths : Within(q, n.path) => Reached(n, q)
    BY <2>2, VisitHasNone DEF Reached
  <2> QED
    BY <2>1, <2>2, <2>3 DEF Complete, Left
<1>4. CASE Visits(d, o, n)
  BY <1>0, <1>4, VisitComplete
<1>5. CASE Compares(d, o, n)
  <2>1. /\ o.pc = "collect" /\ 1 \in 1..Len(o.stack) /\ o.stack[1] = ItemAt(d, o.stack[1].path)
        /\ n = [o EXCEPT !.stack = n.stack]
    BY <1>0, <1>5, CompareMoves
  <2>2. /\ Len(n.stack) = Len(o.stack) - 1 /\ 1 \in 1..Len(o.stack)
        /\ \A k \in 1..Len(n.stack) : n.stack[k] = o.stack[k + 1]
    BY <1>0, <1>5, CompareMoves
  <2>3. /\ n.pc = o.pc /\ n.path = o.path /\ n.items = o.items /\ n.clean = o.clean
        /\ Len(o.stack) \in Nat /\ o.stack[1].path \in Paths
    <3>1. o.stack[1] \in ItemTypes
      BY <1>0, <2>1 DEF OpTypes
    <3> QED
      BY <1>0, <2>1, <3>1 DEF OpTypes, ItemTypes
  <2>4. ~IsVisit(o.stack[1])
    <3>1. o.stack[1].token.ino > 0
      BY <2>1, <2>3 DEF ItemAt, DiskTypes
    <3> QED
      BY <3>1 DEF IsVisit, Visit, NoTicket
  <2>5. ASSUME NEW q \in Paths, Reached(o, q) PROVE Reached(n, q)
    <3>1. CASE \E k \in 1..Left(o) : o.items[k].path = q
      <4>1. Left(n) = Left(o)
        BY <2>1, <2>3 DEF Left
      <4> QED
        BY <2>3, <3>1, <4>1 DEF Reached
    <3>2. CASE \E k \in 1..Len(o.stack) : IsVisit(o.stack[k]) /\ Within(q, o.stack[k].path)
      <4>1. PICK k \in 1..Len(o.stack) : IsVisit(o.stack[k]) /\ Within(q, o.stack[k].path)
        BY <3>2
      <4>2. k # 1
        BY <2>4, <4>1
      <4>3. k - 1 \in 1..Len(n.stack) /\ (k - 1) + 1 = k
        BY <2>2, <2>3, <4>2
      <4>4. n.stack[k - 1] = o.stack[k]
        BY <2>2, <4>3
      <4> QED
        BY <4>1, <4>3, <4>4 DEF Reached
    <3> QED
      BY <2>5, <3>1, <3>2 DEF Reached
  <2>6. \A k \in 1..Left(o) : Intact(d, o, k) => Intact(d, n, k)
    BY <2>3 DEF Intact
  <2> QED
    BY <2>1, <2>3, <2>5, <2>6 DEF Complete, Left
<1>6. CASE Completes(x, o, n)
  <2>1. /\ o.pc = "collect" /\ o.stack = <<>> /\ n.path = o.path /\ n.items = o.items
        /\ n.stack = o.stack /\ n.clean = o.clean /\ n.pc \in {"verify", "send"}
    BY <1>0, <1>6 DEF Completes, Inventoried, OpTypes
  <2>2. Left(n) = Left(o)
    BY <2>1 DEF Left
  <2> QED
    BY <2>1, <2>2 DEF Complete, Reached, Intact
<1>7. CASE Verifies(d, x, o, n)
  <2>1. /\ n.path = o.path /\ n.items = o.items /\ n.stack = o.stack /\ n.clean = o.clean
        /\ o.pc = "verify" /\ (n.pc = "verify" \/ (n.pc = "remove" /\ n.next = o.next /\ ~(o.next < Len(o.items))))
    BY <1>0, <1>7 DEF Verifies, OpTypes
  <2>2. Left(n) = Left(o)
    BY <1>0, <2>1 DEF Left
  <2> QED
    BY <2>1, <2>2 DEF Complete, Reached, Intact
<1>8. CASE Sends(x, o, n)
  <2>1. n.pc = "send"
    BY <1>0, <1>8 DEF Sends, OpTypes
  <2> QED
    BY <2>1 DEF Complete
<1> QED
  BY <1>1, <1>2, <1>3, <1>4, <1>5, <1>6, <1>7, <1>8 DEF Goes

\* ... a change by somebody else does, unless it is under the target,
LEMMA AltersComplete ==
  ASSUME NEW d, NEW e, NEW p, Alters(d, e, p), NEW o \in OpTypes, Listed(o), Complete(d, o),
         NEW x, OpOf(x, o)
  PROVE  Complete(e, Disturbed(o, p))
<1> DEFINE n == Disturbed(o, p)
<1>1. /\ n.pc = o.pc /\ n.path = o.path /\ n.items = o.items /\ n.stack = o.stack /\ n.next = o.next
      /\ n.clean => o.clean /\ (o.pc = "none" \/ ~Within(p, o.path))
  BY DEF Disturbed, OpTypes
<1> HIDE DEF n
<1> SUFFICES ASSUME o.clean, ~Within(p, o.path), o.pc \in {"collect", "verify", "remove"}
             PROVE  /\ \A k \in 1..Left(n) : Intact(e, n, k)
                    /\ \A q \in Paths : There(e, q) /\ Within(q, o.path) => Reached(n, q)
                    /\ n.pc # "collect" => n.stack = <<>>
  BY <1>1 DEF Complete, n
<1>2. \A q \in Paths : Within(q, o.path) => e[q] = d[q]
  <2> SUFFICES ASSUME NEW q \in Paths, Within(q, o.path) PROVE e[q] = d[q]
    OBVIOUS
  <2>1. p \in Paths /\ p # Top /\ o.path \in Paths
    BY DEF Alters, OpTypes
  <2>2. q # p
    OBVIOUS
  <2>3. q # Parent[p]
    BY <2>1, Parents, Tree
  <2> QED
    BY <2>2, <2>3 DEF Alters
<1>3. \A k \in 1..Left(o) : k \in 1..Len(o.items) /\ o.items[k].path \in Paths
  <2>1. o.next \in Nat /\ Len(o.items) \in Nat /\ o.next <= Len(o.items) /\ o.items \in Seq(ItemTypes)
    BY DEF OpOf, OpTypes
  <2>2. \A k \in 1..Left(o) : k \in 1..Len(o.items)
    BY <2>1 DEF Left
  <2>3. \A k \in 1..Len(o.items) : o.items[k] \in ItemTypes
    BY <2>1
  <2> QED
    BY <2>2, <2>3 DEF ItemTypes
<1>4. \A k \in 1..Left(o) : e[o.items[k].path] = d[o.items[k].path]
  BY <1>2, <1>3 DEF Listed
<1>5. Left(n) = Left(o)
  BY <1>1 DEF Left
<1>6. \A k \in 1..Left(n) : Intact(e, n, k)
  BY <1>1, <1>4, <1>5 DEF Complete, Intact, Alive, There
<1>7. \A q \in Paths : There(e, q) /\ Within(q, o.path) => Reached(n, q)
  BY <1>1, <1>2, <1>5 DEF Complete, Reached, There
<1> QED
  BY <1>1, <1>6, <1>7 DEF Complete

\* ... and a removal takes the last entry that is left.
LEMMA RemovalComplete ==
  ASSUME NEW d, NEW e, NEW x, NEW o, OpOf(x, o), NEW n, Removes(x, o, n),
         Alters(d, e, o.items[o.next].path), Erased(d, e, o.items[o.next].path),
         Listed(o), Ordered(o), Complete(d, o)
  PROVE  Complete(e, n)
<1> DEFINE p == o.items[o.next].path
<1>1. CASE o.next = 1
  BY <1>1 DEF Complete, NoOp, Removes
<1>2. CASE o.next # 1
  <2>1. /\ n.pc = "remove" /\ o.pc = "remove" /\ n.path = o.path /\ n.items = o.items /\ n.stack = o.stack
        /\ n.next = o.next - 1 /\ n.clean = o.clean
    BY <1>2 DEF Removes, OpOf, OpTypes
  <2>2. /\ o.next \in Nat /\ Len(o.items) \in Nat /\ o.next <= Len(o.items) /\ o.next > 0
        /\ o.items \in Seq(ItemTypes)
    BY <2>1 DEF OpOf, OpTypes
  <2>3. p \in Paths /\ p # Top /\ Parent[p] \in Dirs /\ ~There(e, p)
    BY Parents DEF Alters, Erased
  <2> SUFFICES ASSUME o.clean
               PROVE  /\ \A k \in 1..(o.next - 1) : Intact(e, n, k)
                      /\ \A q \in Paths : There(e, q) /\ Within(q, o.path) => Reached(n, q)
                      /\ n.stack = <<>>
    BY <2>1 DEF Complete, Left
  <2>4. /\ \A k \in 1..o.next : Intact(d, o, k)
        /\ \A q \in Paths : There(d, q) /\ Within(q, o.path) => Reached(o, q)
        /\ o.stack = <<>>
    BY <2>1 DEF Complete, Left
  <2>5. ASSUME NEW k \in 1..(o.next - 1) PROVE Intact(e, n, k)
    <3> DEFINE q == o.items[k].path
    <3>1. k \in 1..o.next /\ k \in 1..Len(o.items) /\ o.next \in 1..Len(o.items) /\ k < o.next
      BY <2>2
    <3>2. q \in Paths
      <4>1. o.items[k] \in ItemTypes
        BY <2>2, <3>1
      <4> QED
        BY <4>1 DEF ItemTypes
    <3>3. q # p
      BY <3>1 DEF Ordered, Within
    <3>4. e[q].ino = d[q].ino /\ (There(e, q) <=> There(d, q)) /\ (q # Parent[p] => e[q] = d[q])
      BY <3>2, <3>3 DEF Alters
    <3>5. q \in Files => q # Parent[p]
      BY <2>3, TreeAssumption
    <3>6. Intact(d, o, k)
      BY <2>4, <3>1
    <3> HIDE DEF p
    <3> QED
      BY <2>1, <3>4, <3>5, <3>6 DEF Intact, Alive
  <2>6. ASSUME NEW q \in Paths, There(e, q), Within(q, o.path) PROVE Reached(n, q)
    <3>1. q # p
      BY <2>3, <2>6
    <3>2. There(d, q)
      BY <2>6, <3>1 DEF Alters
    <3>3. Reached(o, q) /\ Len(o.stack) = 0
      BY <2>4, <2>6, <3>2
    <3>4. PICK k \in 1..o.next : o.items[k].path = q
      BY <2>1, <3>3 DEF Reached, Left
    <3>5. k \in 1..(o.next - 1)
      BY <2>2, <3>1, <3>4
    <3> QED
      BY <2>1, <3>4, <3>5 DEF Reached, Left
  <2> QED
    BY <2>1, <2>4, <2>5, <2>6
<1> QED
  BY <1>1, <1>2
-----------------------------------------------------------------------------
(* The steps of the system *)

\* A lock that excludes is alone, between operations.
Exclusion ==
    \A x, y \in Workers : x # y => \A l \in op[x].locks, m \in op[y].locks :
        l.path = m.path /\ l.ino = m.ino => ~l.exclusive /\ ~m.exclusive
\* What holds of each operation.
Sound(d, x, o) == Listed(o) /\ Ordered(o) /\ Guarded(d, x, o) /\ Rooted(d, o) /\ Complete(d, o)
IInv ==
    /\ Typed /\ AncestorsIn(disk) /\ Exclusion
    /\ \A x \in Workers : Sound(disk, x, op[x])

\* Writers change one path, a step of an operation is as above, a removal takes one entry.
WriterStep(p) ==
    Alters(disk, disk', p) /\ ~Erased(disk, disk', p) /\ op' = [x \in Workers |-> Disturbed(op[x], p)]
Turn(x, n) ==
    /\ disk' = disk /\ op' = [op EXCEPT ![x] = n] /\ Goes(disk, x, op[x], n)
    /\ Starts(disk, x, op[x], n) => \A l \in n.locks : Free(l)
    /\ op[x].pc = "remove" => ~Removable(x[1], op[x], op[x].items[op[x].next])
Target(x) == op[x].items[op[x].next].path
Removal(x, n) ==
    /\ Removes(x, op[x], n) /\ Removable(x[1], op[x], op[x].items[op[x].next])
    /\ Alters(disk, disk', Target(x)) /\ Erased(disk, disk', Target(x))
    /\ op' = [y \in Workers |-> IF y = x THEN n ELSE Disturbed(op[y], Target(x))]

\* A worker is a session and one of the two operations.
LEMMA WorkerIs ==
  /\ \A x \in Workers : x[1] \in Sessions /\ x[2] \in {"delete", "download"} /\ x = <<x[1], x[2]>>
  /\ \A x \in Workers : x[2] = "delete" => x[1] \in Deleters
  /\ \A s \in Deleters : <<s, "delete">> \in Workers /\ s \in Sessions
  /\ \A s \in Downloaders : <<s, "download">> \in Workers /\ s \in Sessions
  BY BoundsAssumption DEF Workers

\* What a touch does to the path and to the others.
LEMMA Touches ==
  ASSUME NEW d \in DiskTypes, NEW p \in Paths
  PROVE  /\ Touched(d, p) \in DiskTypes
         /\ Touched(d, p)[p].ino = d[p].ino /\ There(Touched(d, p), p)
         /\ \A q \in Paths \ {p} : Touched(d, p)[q] = d[q]
<1>1. d \in [Paths -> Tokens] /\ \A q \in Paths : d[q].ino > 0
  BY DEF DiskTypes
<1>2. d[p] \in Tokens /\ d[p].rev + 1 \in Nat /\ d[p].rev + 1 > 0
  BY <1>1 DEF Tokens
<1> DEFINE e == Touched(d, p)
<1>3. e = [d EXCEPT ![p] = [d[p] EXCEPT !.rev = d[p].rev + 1]]
  BY DEF Touched
<1>4. [d[p] EXCEPT !.rev = d[p].rev + 1] \in Tokens
  BY <1>2 DEF Tokens
<1>5. e \in [Paths -> Tokens] /\ e[p] = [d[p] EXCEPT !.rev = d[p].rev + 1]
      /\ \A q \in Paths \ {p} : e[q] = d[q]
  BY <1>1, <1>3, <1>4
<1>6. e[p].ino = d[p].ino /\ e[p].rev > 0
  BY <1>2, <1>5 DEF Tokens
<1> HIDE DEF e
<1> QED
  BY <1>1, <1>5, <1>6 DEF e, DiskTypes, There

\* A write, a creation and a removal alter the disk at one path.
LEMMA WriteAlters ==
  ASSUME NEW d \in DiskTypes, NEW p \in Paths \ {Top}, There(d, p)
  PROVE  Alters(d, Touched(d, p), p) /\ ~Erased(d, Touched(d, p), p)
  BY Touches DEF Alters, Erased, There

\* A disk that differs from another in p, and in the revision of its parent.
Elsewhere(d, e, p) ==
    \A q \in Paths \ {p} : /\ e[q].ino = d[q].ino /\ (There(e, q) <=> There(d, q))
                           /\ q # Parent[p] => e[q] = d[q]

\* The disk with another token at p, before its parent is touched.
LEMMA ReplaceAlters ==
  ASSUME NEW d \in DiskTypes, NEW p \in Paths \ {Top}, NEW t \in Tokens, t.ino > 0,
         There(d, Parent[p]), NEW e, e = Touched([d EXCEPT ![p] = t], Parent[p])
  PROVE  e \in DiskTypes /\ e[p] = t /\ Elsewhere(d, e, p)
<1> DEFINE f == [d EXCEPT ![p] = t]
<1>1. Parent[p] \in Paths /\ Parent[p] # p
  BY Parents
<1>2. /\ f \in DiskTypes /\ f[p] = t /\ \A q \in Paths \ {p} : f[q] = d[q]
  BY DEF DiskTypes
<1> HIDE DEF f
<1>3. /\ e \in DiskTypes /\ e[Parent[p]].ino = f[Parent[p]].ino /\ There(e, Parent[p])
      /\ \A q \in Paths \ {Parent[p]} : e[q] = f[q]
  BY ZenonT(60), <1>1, <1>2, Touches DEF f
<1> QED
  BY <1>1, <1>2, <1>3 DEF There, Elsewhere

\* A new inode,
LEMMA CreateAlters ==
  ASSUME NEW d \in DiskTypes, NEW p \in Paths \ {Top}, ~There(d, p), There(d, Parent[p]),
         NEW e, e = Touched([d EXCEPT ![p] = [ino |-> d[p].ino + 1, rev |-> 1]], Parent[p])
  PROVE  Alters(d, e, p) /\ ~Erased(d, e, p)
<1> DEFINE t == [ino |-> d[p].ino + 1, rev |-> 1]
<1>1. d[p].ino \in Nat
  BY DEF DiskTypes, Tokens
<1>2. t \in Tokens /\ t.ino > 0 /\ t.ino = d[p].ino + 1 /\ t.rev = 1
  BY <1>1 DEF Tokens
<1>3. e = Touched([d EXCEPT ![p] = t], Parent[p])
  OBVIOUS
<1> HIDE DEF t
<1>4. e \in DiskTypes /\ e[p] = t /\ Elsewhere(d, e, p)
  BY <1>2, <1>3, ReplaceAlters
<1>5. There(e, p) /\ e[p].ino = d[p].ino + 1
  BY <1>2, <1>4 DEF There
<1>6. \A q \in Paths \ {p} : /\ e[q].ino = d[q].ino /\ (There(e, q) <=> There(d, q))
                             /\ q # Parent[p] => e[q] = d[q]
  BY <1>4 DEF Elsewhere
<1> HIDE DEF There
<1> QED
  BY <1>4, <1>5, <1>6, Zenon DEF Alters, Erased

\* ... or no revision any more.
LEMMA RemoveAlters ==
  ASSUME NEW d \in DiskTypes, NEW p \in Paths \ {Top}, There(d, p), There(d, Parent[p]),
         Offspring(d, p) = {}, NEW e, e = Touched([d EXCEPT ![p].rev = 0], Parent[p])
  PROVE  Alters(d, e, p) /\ Erased(d, e, p)
<1> DEFINE t == [d[p] EXCEPT !.rev = 0]
<1>1. d[p] \in Tokens /\ d[p].ino > 0
  BY DEF DiskTypes
<1>2. t \in Tokens /\ t.ino > 0 /\ t.ino = d[p].ino /\ t.rev = 0
  BY <1>1 DEF Tokens
<1>3. e = Touched([d EXCEPT ![p] = t], Parent[p])
  OBVIOUS
<1> HIDE DEF t
<1>4. e \in DiskTypes /\ e[p] = t /\ Elsewhere(d, e, p)
  BY <1>2, <1>3, ReplaceAlters
<1>5. ~There(e, p) /\ e[p].ino = d[p].ino
  BY <1>2, <1>4 DEF There
<1>6. \A q \in Paths \ {p} : /\ e[q].ino = d[q].ino /\ (There(e, q) <=> There(d, q))
                             /\ q # Parent[p] => e[q] = d[q]
  BY <1>4 DEF Elsewhere
<1> HIDE DEF There
<1> QED
  BY <1>4, <1>5, <1>6, Zenon DEF Alters, Erased

\* A writer's step.
LEMMA WriterIs ==
  ASSUME IInv, Writer
  PROVE  \E p \in Paths \ {Top} : WriterStep(p)
<1>1. PICK p \in Paths \ {Top} :
        /\ Write(p) \/ Create(p)
        /\ op' = [x \in DOMAIN op |-> Disturbed(op[x], p)]
  BY DEF Writer
<1>2. disk \in DiskTypes /\ DOMAIN op = Workers
  BY DEF IInv, Typed
<1>3. Alters(disk, disk', p) /\ ~Erased(disk, disk', p)
  <2>1. CASE Write(p)
    BY <1>2, <2>1, WriteAlters DEF Write, Present, There
  <2>2. CASE Create(p)
    <3>1. disk' = Touched([disk EXCEPT ![p] = [ino |-> disk[p].ino + 1, rev |-> 1]], Parent[p])
      BY <2>2 DEF Create
    <3>2. ~There(disk, p) /\ There(disk, Parent[p])
      BY <2>2 DEF Create, Present, There
    <3> QED
      BY <1>2, <3>1, <3>2, CreateAlters
  <2> QED
    BY <1>1, <2>1, <2>2
<1> QED
  BY <1>1, <1>2, <1>3 DEF WriterStep

\* A step of an inventory.
LEMMA CollectIs ==
  ASSUME IInv, NEW x \in Workers, Collect(x[1], x[2])
  PROVE  \E n : Turn(x, n)
<1> DEFINE o == op[x]
           h == Head(o.stack)
<1>1. x = <<x[1], x[2]>> /\ o \in OpTypes /\ disk' = disk /\ o.pc = "collect"
  BY WorkerIs DEF IInv, Typed, Collect
<1>2. \/ End(x[1], x[2])
      \/ o.stack = <<>> /\ o.items[1].token = o.token /\ Set(x[1], x[2], Inventoried(o, x[2]))
      \/ /\ o.stack # <<>> /\ h = Visit(h.path) /\ Present(h.path)
         /\ Set(x[1], x[2], [o EXCEPT
              !.items = Append(@, [path |-> h.path, token |-> disk[h.path]]),
              !.stack = SetToSeq({Visit(q) : q \in Children(h.path)})
                   \o (IF h.path \in Dirs THEN <<[path |-> h.path, token |-> disk[h.path]]>> ELSE <<>>)
                   \o Tail(@)])
      \/ /\ o.stack # <<>> /\ h = [path |-> h.path, token |-> disk[h.path]]
         /\ Set(x[1], x[2], [o EXCEPT !.stack = Tail(@)])
  BY <1>1, Zenon DEF Collect
<1>3. \A n : Set(x[1], x[2], n) => op' = [op EXCEPT ![x] = n]
  BY <1>1 DEF Set
<1>4. ~\E n : Starts(disk, x, o, n)
  BY <1>1 DEF Starts
<1>5. CASE End(x[1], x[2])
  <2>1. op' = [op EXCEPT ![x] = NoOp] /\ Goes(disk, x, o, NoOp)
    BY <1>3, <1>5 DEF End, Goes
  <2> QED
    BY <1>1, <1>4, <2>1 DEF Turn
<1>6. CASE o.stack = <<>> /\ o.items[1].token = o.token /\ Set(x[1], x[2], Inventoried(o, x[2]))
  <2>1. op' = [op EXCEPT ![x] = Inventoried(o, x[2])] /\ Goes(disk, x, o, Inventoried(o, x[2]))
    BY <1>1, <1>3, <1>6 DEF Goes, Completes
  <2> QED
    BY <1>1, <1>4, <2>1 DEF Turn
<1>7. CASE /\ o.stack # <<>> /\ h = Visit(h.path) /\ Present(h.path)
           /\ Set(x[1], x[2], [o EXCEPT
                !.items = Append(@, [path |-> h.path, token |-> disk[h.path]]),
                !.stack = SetToSeq({Visit(q) : q \in Children(h.path)})
                     \o (IF h.path \in Dirs THEN <<[path |-> h.path, token |-> disk[h.path]]>> ELSE <<>>)
                     \o Tail(@)])
  <2> DEFINE n == [o EXCEPT !.items = Append(o.items, ItemAt(disk, h.path)),
                            !.stack = Pushed(disk, h.path) \o Tail(o.stack)]
  <2>1. Children(h.path) = Offspring(disk, h.path)
    BY DEF Children, Offspring, Present, There
  <2>2. Set(x[1], x[2], n)
    BY <1>7, <2>1 DEF ItemAt, Pushed
  <2>3. h \in ItemTypes
    BY <1>1, <1>7 DEF OpTypes
  <2>4. h.path \in Paths /\ There(disk, h.path)
    BY <1>7, <2>3 DEF ItemTypes, Present, There
  <2>5. Visits(disk, o, n)
    BY <1>1, <1>7, <2>4 DEF Visits
  <2>6. op' = [op EXCEPT ![x] = n] /\ Goes(disk, x, o, n)
    BY <1>3, <2>2, <2>5 DEF Goes
  <2> HIDE DEF n
  <2> QED
    BY <1>1, <1>4, <2>6 DEF Turn
<1>8. CASE /\ o.stack # <<>> /\ h = [path |-> h.path, token |-> disk[h.path]]
           /\ Set(x[1], x[2], [o EXCEPT !.stack = Tail(@)])
  <2> DEFINE n == [o EXCEPT !.stack = Tail(o.stack)]
  <2>1. Compares(disk, o, n)
    BY <1>1, <1>8 DEF Compares, ItemAt
  <2>2. op' = [op EXCEPT ![x] = n] /\ Goes(disk, x, o, n)
    BY <1>3, <1>8, <2>1 DEF Goes
  <2> HIDE DEF n
  <2> QED
    BY <1>1, <1>4, <2>2 DEF Turn
<1> QED
  BY <1>2, <1>5, <1>6, <1>7, <1>8

\* The entry a deletion has come to.
LEMMA Targets ==
  ASSUME IInv, NEW x \in Workers, op[x].pc \in {"verify", "remove"}
  PROVE  /\ op[x].next \in 1..Len(op[x].items) /\ op[x].items[op[x].next] \in ItemTypes
         /\ Target(x) \in Paths \ {Top} /\ Within(Target(x), op[x].path)
<1> DEFINE o == op[x]
<1>1. OpOf(x, o) /\ o \in OpTypes /\ Listed(o) /\ Guarded(disk, x, o)
  BY DEF IInv, Typed, Sound
<1>2. o.next \in 1..Len(o.items) /\ o.items \in Seq(ItemTypes) /\ o.path \in Paths
  BY <1>1 DEF OpOf, OpTypes
<1>3. o.items[o.next] \in ItemTypes
  BY <1>2
<1>4. Within(Target(x), o.path) /\ Target(x) \in Paths
  BY <1>1, <1>2, <1>3 DEF Listed, ItemTypes, Target
<1>5. o.top \in Above[o.path]
  BY <1>1 DEF Guarded, Locking
<1>6. Target(x) # Top
  BY <1>2, <1>4, <1>5, TopAbove, TreeAssumption
<1> QED
  BY <1>2, <1>3, <1>4, <1>6

\* A start.
LEMMA StartIs ==
  ASSUME IInv, NEW x \in Workers, op[x].pc \in {"none", "waiting"},
         NEW p \in Paths, NEW i \in 0..MaxEpoch, NEW pc \in {"collect", "send"},
         x[2] = "delete" => pc = "collect", pc = "send" => p \in Files,
         Openable(x[1], p, disk[p], x[2] = "delete"),
         NEW n, n = Started(x[1], p, disk[p], i, x[2] = "delete", pc)
  PROVE  Starts(disk, x, op[x], n) /\ \A l \in n.locks : Free(l)
<1> DEFINE s == x[1]
           top == root[s].path
           L == LocksOf(s, p, x[2] = "delete")
<1>1. s \in Sessions /\ top \in Dirs /\ epoch[s] \in 0..MaxEpoch
  BY WorkerIs DEF IInv, Typed
<1>2. There(disk, p) /\ top \in Above[p] /\ \A l \in L : Free(l)
  BY DEF Openable, Present, There
<1>3. L = LocksAt(disk, top, p, x[2] = "delete")
  BY DEF LocksOf, LocksAt, Lock, LockAt
<1>4. n = [NoOp EXCEPT !.pc = pc, !.path = p, !.token = disk[p], !.link = i, !.epoch = epoch[s],
                       !.top = top, !.locks = L, !.stack = <<Visit(p)>>]
  BY DEF Started
<1>5. n.locks = L
  BY <1>4 DEF NoOp
<1>6. \E q \in Paths, up \in Dirs, k \in 0..MaxEpoch, j \in 0..MaxEpoch, c \in {"collect", "send"} :
          /\ There(disk, q) /\ up \in Above[q]
          /\ x[2] = "delete" => c = "collect"
          /\ c = "send" => q \in Files
          /\ n = [NoOp EXCEPT !.pc = c, !.path = q, !.token = disk[q], !.link = k, !.epoch = j,
                              !.top = up, !.locks = LocksAt(disk, up, q, x[2] = "delete"),
                              !.stack = <<Visit(q)>>]
  <2> DEFINE e == epoch[s]
  <2>1. n = [NoOp EXCEPT !.pc = pc, !.path = p, !.token = disk[p], !.link = i, !.epoch = e,
                       !.top = top, !.locks = LocksAt(disk, top, p, x[2] = "delete"), !.stack = <<Visit(p)>>]
    BY <1>3, <1>4
  <2>2. top \in Dirs /\ e \in 0..MaxEpoch
    BY <1>1
  <2>3. There(disk, p) /\ top \in Above[p] /\ (x[2] = "delete" => pc = "collect") /\ (pc = "send" => p \in Files)
    BY <1>2
  <2> HIDE DEF s, top, L, e
  <2> USE <2>1, <2>2, <2>3
  <2> WITNESS p \in Paths, top \in Dirs, i \in 0..MaxEpoch, e \in 0..MaxEpoch, pc \in {"collect", "send"}
  <2> QED
    OBVIOUS
<1> QED
  BY <1>2, <1>5, <1>6, Zenon DEF Starts

\* What has started collects or sends.
LEMMA StartsPc ==
  ASSUME NEW d, NEW x, NEW o, NEW n, Starts(d, x, o, n)
  PROVE  n.pc \in {"collect", "send"}
<1>1. PICK p \in Paths, top \in Dirs, i \in 0..MaxEpoch, j \in 0..MaxEpoch, pc \in {"collect", "send"} :
          /\ There(d, p) /\ top \in Above[p]
          /\ x[2] = "delete" => pc = "collect"
          /\ pc = "send" => p \in Files
          /\ n = [NoOp EXCEPT !.pc = pc, !.path = p, !.token = d[p], !.link = i, !.epoch = j,
                              !.top = top, !.locks = LocksAt(d, top, p, x[2] = "delete"),
                              !.stack = <<Visit(p)>>]
  BY Zenon DEF Starts
<1> QED
  BY <1>1 DEF NoOp

\* A step that starts a deletion.
LEMMA StartDeleteIs ==
  ASSUME IInv, NEW s \in Deleters, NEW p \in Paths, StartDelete(s, p)
  PROVE  \E x \in Workers : \E n : Turn(x, n)
<1> DEFINE x == <<s, "delete">>
           n == Started(s, p, disk[p], epoch[s], TRUE, "collect")
<1>1. x \in Workers /\ s \in Sessions /\ x[1] = s /\ x[2] = "delete" /\ (x[2] = "delete") = TRUE
  BY WorkerIs
<1>2. op[x].pc = "none" /\ Openable(s, p, disk[p], TRUE) /\ op' = [op EXCEPT ![x] = n] /\ disk' = disk
  BY DEF StartDelete, Set
<1>3. epoch[s] \in 0..MaxEpoch
  BY <1>1 DEF IInv, Typed
<1>4. Starts(disk, x, op[x], n) /\ \A l \in n.locks : Free(l)
  <2> HIDE DEF x
  <2> QED
    BY <1>1, <1>2, <1>3, StartIs
<1> QED
  BY <1>1, <1>2, <1>4 DEF Turn, Goes

\* ... or a download, or refuses it.
LEMMA StartDownloadIs ==
  ASSUME IInv, NEW x \in Workers, x[2] = "download", StartDownload(x[1])
  PROVE  \E n : Turn(x, n)
<1> DEFINE s == x[1]
           o == op[x]
           pc == IF o.path \in Dirs THEN "collect" ELSE "send"
           n == Started(s, o.path, o.token, o.link, FALSE, pc)
<1>1. x = <<s, "download">> /\ s \in Sessions /\ (x[2] = "delete") = FALSE /\ o \in OpTypes
  BY WorkerIs DEF IInv, Typed
<1>2. /\ o.pc = "waiting" /\ disk' = disk
      /\ \/ op' = [op EXCEPT ![x] = NoOp]
         \/ Openable(s, o.path, o.token, FALSE) /\ op' = [op EXCEPT ![x] = n]
  BY <1>1 DEF StartDownload, Set, End
<1>3. CASE op' = [op EXCEPT ![x] = NoOp]
  <2>1. ~Starts(disk, x, o, NoOp)
    BY ZenonT(60) DEF Starts, NoOp
  <2> QED
    BY <1>2, <1>3, <2>1 DEF Turn, Goes
<1>4. CASE Openable(s, o.path, o.token, FALSE) /\ op' = [op EXCEPT ![x] = n]
  <2>1. disk[o.path] = o.token /\ o.path \in Paths /\ o.link \in 0..MaxEpoch
    BY <1>1, <1>4 DEF Openable, OpTypes
  <2>2. pc \in {"collect", "send"} /\ (pc = "send" => o.path \in Files) /\ x[2] # "delete"
    BY <1>1, <2>1 DEF Paths
  <2>3. n = Started(s, o.path, disk[o.path], o.link, x[2] = "delete", pc)
    BY <1>1, <2>1
  <2>4. Openable(s, o.path, disk[o.path], x[2] = "delete")
    BY <1>1, <1>4, <2>1
  <2> HIDE DEF n, pc
  <2>5. Starts(disk, x, o, n) /\ \A l \in n.locks : Free(l)
    BY <1>2, <2>1, <2>2, <2>3, <2>4, StartIs
  <2> QED
    BY <1>2, <1>4, <2>5 DEF Turn, Goes
<1> QED
  BY <1>2, <1>3, <1>4

\* A link that is followed.
LEMMA FollowLinkIs ==
  ASSUME IInv, NEW s \in Downloaders, FollowLink(s)
  PROVE  (disk' = disk /\ op' = op) \/ \E x \in Workers : \E n : Turn(x, n)
<1> DEFINE x == <<s, "download">>
           n == [NoOp EXCEPT !.pc = "waiting", !.path = ticket[s].path, !.token = ticket[s].token,
                             !.link = ticket[s].root, !.epoch = ticket[s].root]
<1>1. x \in Workers /\ s \in Sessions /\ x[2] = "download"
  BY WorkerIs
<1>2. disk' = disk /\ (op' = op \/ (s \notin Transferring /\ op' = [op EXCEPT ![x] = n]))
  BY DEF FollowLink, Set
<1>3. CASE s \notin Transferring /\ op' = [op EXCEPT ![x] = n]
  <2>1. op[x].pc = "none"
    BY <1>3 DEF Transferring
  <2>2. ticket[s].path \in Paths /\ ticket[s].token \in Tokens /\ ticket[s].root \in 0..MaxEpoch
    BY <1>1 DEF IInv, Typed
  <2>3. Waits(x, op[x], n)
    BY <1>1, <2>1, <2>2 DEF Waits
  <2>4. n.pc = "waiting"
    BY DEF NoOp
  <2>5. ~Starts(disk, x, op[x], n)
    <3> HIDE DEF n
    <3> QED
      BY <2>4, StartsPc
  <2> HIDE DEF n, x
  <2>6. Turn(x, n)
    BY <1>2, <1>3, <2>1, <2>3, <2>5 DEF Turn, Goes
  <2> QED
    BY <1>1, <2>6
<1> QED
  BY <1>2, <1>3

\* The body of a download goes on, ends, or is cut.
LEMMA SendIs ==
  ASSUME IInv, NEW x \in Workers, x[2] = "download", Send(x[1]) \/ CutTransfer(x[1])
  PROVE  \E n : Turn(x, n)
<1> DEFINE o == op[x]
           n == [o EXCEPT !.next = o.next + 1]
<1>1. x = <<x[1], "download">>
  BY WorkerIs
<1>2. /\ o.pc = "send" /\ disk' = disk
      /\ op' = [op EXCEPT ![x] = NoOp] \/ (o.next < Len(o.items) /\ op' = [op EXCEPT ![x] = n])
  BY <1>1 DEF Send, CutTransfer, Set, End
<1>3. \A m : ~Starts(disk, x, o, m)
  BY <1>2 DEF Starts
<1>4. CASE op' = [op EXCEPT ![x] = NoOp]
  BY <1>2, <1>3, <1>4 DEF Turn, Goes
<1>5. CASE o.next < Len(o.items) /\ op' = [op EXCEPT ![x] = n]
  <2>1. Sends(x, o, n)
    BY <1>2, <1>5 DEF Sends
  <2> HIDE DEF n
  <2> QED
    BY <1>2, <1>3, <1>5, <2>1 DEF Turn, Goes
<1> QED
  BY <1>2, <1>4, <1>5

\* An entry is verified, or the deletion ends.
LEMMA VerifyIs ==
  ASSUME IInv, NEW x \in Workers, x[2] = "delete", Verify(x[1])
  PROVE  \E n : Turn(x, n)
<1> DEFINE o == op[x]
           n == IF o.next < Len(o.items) THEN [o EXCEPT !.next = o.next + 1] ELSE [o EXCEPT !.pc = "remove"]
<1>1. x = <<x[1], "delete">>
  BY WorkerIs
<1>2. /\ o.pc = "verify" /\ disk' = disk
      /\ \/ op' = [op EXCEPT ![x] = NoOp]
         \/ disk[o.items[o.next].path] = o.items[o.next].token /\ op' = [op EXCEPT ![x] = n]
  BY <1>1 DEF Verify, Set, End
<1>3. \A m : ~Starts(disk, x, o, m)
  BY <1>2 DEF Starts
<1>4. CASE op' = [op EXCEPT ![x] = NoOp]
  BY <1>2, <1>3, <1>4 DEF Turn, Goes
<1>5. CASE disk[o.items[o.next].path] = o.items[o.next].token /\ op' = [op EXCEPT ![x] = n]
  <2>1. Verifies(disk, x, o, n)
    BY <1>2, <1>5 DEF Verifies
  <2> HIDE DEF n
  <2> QED
    BY <1>2, <1>3, <1>5, <2>1 DEF Turn, Goes
<1> QED
  BY <1>2, <1>4, <1>5

\* An entry is removed, or the deletion ends.
LEMMA RemoveIs ==
  ASSUME IInv, NEW x \in Workers, x[2] = "delete", RemoveEntry(x[1])
  PROVE  \E n : Turn(x, n) \/ Removal(x, n)
<1> DEFINE o == op[x]
           p == o.items[o.next].path
           n == IF o.next = 1 THEN NoOp ELSE [o EXCEPT !.next = o.next - 1]
<1>1. x = <<x[1], "delete">> /\ p = Target(x) /\ DOMAIN op = Workers /\ disk \in DiskTypes /\ AncestorsIn(disk)
  BY WorkerIs DEF IInv, Typed, Target
<1>2. /\ o.pc = "remove"
      /\ \/ ~Removable(x[1], o, o.items[o.next]) /\ op' = [op EXCEPT ![x] = NoOp] /\ disk' = disk
         \/ /\ Removable(x[1], o, o.items[o.next])
            /\ disk' = Touched([disk EXCEPT ![p].rev = 0], Parent[p])
            /\ op' = [y \in Workers |-> IF y = x THEN n ELSE Disturbed(op[y], p)]
  BY <1>1 DEF RemoveEntry, Fails, Set, End
<1>3. CASE ~Removable(x[1], o, o.items[o.next]) /\ op' = [op EXCEPT ![x] = NoOp] /\ disk' = disk
  <2>1. ~Starts(disk, x, o, NoOp)
    BY <1>2 DEF Starts
  <2> QED
    BY <1>2, <1>3, <2>1 DEF Turn, Goes
<1>4. CASE /\ Removable(x[1], o, o.items[o.next])
           /\ disk' = Touched([disk EXCEPT ![p].rev = 0], Parent[p])
           /\ op' = [y \in Workers |-> IF y = x THEN n ELSE Disturbed(op[y], p)]
  <2>1. Removes(x, o, n)
    BY <1>2 DEF Removes
  <2> HIDE DEF n
  <2>2. p \in Paths \ {Top}
    BY <1>1, <1>2, Targets
  <2>3. There(disk, p) /\ Offspring(disk, p) = {}
    BY <1>4 DEF Removable, Present, There, Children, Offspring
  <2>4. There(disk, Parent[p])
    BY <1>1, <2>2, <2>3, Parents DEF AncestorsIn
  <2>5. Alters(disk, disk', p) /\ Erased(disk, disk', p)
    <3> HIDE DEF p
    <3> QED
      BY <1>1, <1>4, <2>2, <2>3, <2>4, RemoveAlters
  <2> QED
    BY <1>1, <1>4, <2>1, <2>5 DEF Removal
<1> QED
  BY <1>2, <1>3, <1>4

\* Every step is one of these.
LEMMA StepCases ==
  ASSUME IInv, [Next]_vars
  PROVE  \/ disk' = disk /\ op' = op
         \/ \E p \in Paths \ {Top} : WriterStep(p)
         \/ \E x \in Workers : \E n : Turn(x, n) \/ Removal(x, n)
<1>1. CASE UNCHANGED vars
  BY <1>1 DEF vars
<1>2. CASE Writer
  BY <1>2, WriterIs
<1>3. ASSUME NEW s \in Sessions, Session(s)
      PROVE  \/ disk' = disk /\ op' = op
             \/ \E x \in Workers : \E n : Turn(x, n)
  <2>1. CASE OpenRoot(s) \/ CloseRoot(s) \/ CloseSession(s) \/ \E p \in Paths : Prepare(s, p)
    BY <2>1 DEF OpenRoot, CloseRoot, SetRoot, CloseSession, Prepare
  <2>2. CASE s \in Downloaders /\ FollowLink(s)
    BY <2>2, FollowLinkIs
  <2>3. CASE s \in Downloaders /\ Send(s)
    <3> DEFINE x == <<s, "download">>
    <3>1. x \in Workers /\ x[1] = s /\ x[2] = "download"
      BY <2>3, WorkerIs
    <3> HIDE DEF x
    <3> QED
      BY <2>3, <3>1, SendIs
  <2>4. ASSUME NEW p \in Paths, s \in Deleters, StartDelete(s, p)
        PROVE  \E x \in Workers : \E n : Turn(x, n)
    BY <2>4, StartDeleteIs
  <2> QED
    BY <1>3, <2>1, <2>2, <2>3, <2>4 DEF Session
<1>4. ASSUME NEW x \in Workers, Work(x[1], x[2])
      PROVE  \E n : Turn(x, n) \/ Removal(x, n)
  <2>1. CASE Collect(x[1], x[2])
    BY <2>1, CollectIs
  <2>2. CASE x[2] = "delete" /\ (Verify(x[1]) \/ RemoveEntry(x[1]))
    BY <2>2, VerifyIs, RemoveIs
  <2>3. CASE x[2] = "download" /\ (StartDownload(x[1]) \/ CutTransfer(x[1]))
    BY <2>3, StartDownloadIs, SendIs
  <2> QED
    BY <1>4, <2>1, <2>2, <2>3 DEF Work
<1> QED
  BY <1>1, <1>2, <1>3, <1>4 DEF Next
-----------------------------------------------------------------------------
(* The invariant *)

\* Nothing is under way at first.
LEMMA InitIInv == Init => IInv
<1> SUFFICES ASSUME Init PROVE IInv
  OBVIOUS
<1>1. disk \in DiskTypes /\ AncestorsIn(disk)
  BY Tree DEF Init, DiskTypes, Tokens, AncestorsIn, There
<1>2. \A x \in Workers : op[x] = NoOp
  BY DEF Init
<1>3. Typed
  <2>1. NoRoot \in [path : Dirs, ino : Nat] /\ 0 \in 0..MaxEpoch /\ 0 \in 0..MaxChanges
    BY TreeAssumption, BoundsAssumption DEF NoRoot
  <2>2. NoTicket \in [path : Paths, token : Tokens, root : 0..MaxEpoch]
    BY <2>1, TreeAssumption DEF NoTicket, Tokens, Paths
  <2>3. op \in [Workers -> OpTypes] /\ \A x \in Workers : OpOf(x, op[x])
    BY <1>2, IdleType DEF Init
  <2> QED
    BY <1>1, <2>1, <2>2, <2>3 DEF Typed, Init
<1>4. \A x \in Workers : Sound(disk, x, op[x])
  BY <1>2 DEF Sound, Listed, Ordered, Guarded, Rooted, Complete, NoOp, Locking
<1>5. Exclusion
  BY <1>2 DEF Exclusion, NoOp
<1> QED
  BY <1>1, <1>3, <1>4, <1>5 DEF IInv

\* The sum of the epochs bounds each.
LEMMA EpochBound ==
  ASSUME Typed, NEW s \in Sessions, SumFunction(epoch) < MaxEpoch
  PROVE  epoch[s] + 1 \in 0..MaxEpoch
<1>1. MaxEpoch \in Nat /\ IsFiniteSet(Sessions) /\ DOMAIN epoch = Sessions /\ \A t \in Sessions : epoch[t] \in Nat
  BY BoundsAssumption DEF Typed
<1>2. SumFunctionOnSet(epoch, Sessions) = epoch[s] + SumFunctionOnSet(epoch, Sessions \ {s})
  BY <1>1, SumTakes
<1>3. IsFiniteSet(Sessions \ {s}) /\ \A t \in Sessions \ {s} : epoch[t] \in Nat
  BY <1>1, FS_Subset
<1>4. SumFunctionOnSet(epoch, Sessions \ {s}) \in Nat
  BY <1>3, SumTakes
<1>5. SumFunction(epoch) = SumFunctionOnSet(epoch, Sessions)
  BY <1>1 DEF SumFunction
<1>6. epoch[s] + SumFunctionOnSet(epoch, Sessions \ {s}) < MaxEpoch
  BY <1>2, <1>5
<1> QED
  BY <1>1, <1>4, <1>6

\* The types of what is not an operation, nor the disk.
RestTyped ==
    /\ changes \in 0..MaxChanges /\ root \in [Sessions -> [path : Dirs, ino : Nat]]
    /\ epoch \in [Sessions -> 0..MaxEpoch] /\ closed \in [Sessions -> BOOLEAN]
    /\ ticket \in [Sessions -> [path : Paths, token : Tokens, root : 0..MaxEpoch]]

\* Every step keeps those types.
LEMMA RestStep == Typed /\ [Next]_vars => RestTyped'
<1> SUFFICES ASSUME Typed, [Next]_vars PROVE RestTyped'
  OBVIOUS
<1>1. RestTyped /\ disk \in DiskTypes
  BY DEF RestTyped, Typed
<1>2. NoRoot \in [path : Dirs, ino : Nat] /\ MaxEpoch \in Nat /\ MaxChanges \in Nat
  BY TreeAssumption, BoundsAssumption DEF NoRoot
<1>3. NoTicket \in [path : Paths, token : Tokens, root : 0..MaxEpoch]
  BY <1>2, TreeAssumption DEF NoTicket, Tokens, Paths
<1>4. CASE UNCHANGED vars
  BY <1>1, <1>4 DEF RestTyped, vars
<1>5. CASE Writer
  BY <1>1, <1>2, <1>5 DEF RestTyped, Writer
<1>6. ASSUME NEW s \in Sessions, NEW opened \in [path : Dirs, ino : Nat], SetRoot(s, opened)
      PROVE  RestTyped'
  <2>1. epoch[s] + 1 \in 0..MaxEpoch
    BY <1>6, EpochBound DEF SetRoot
  <2> QED
    BY <1>1, <1>3, <1>6, <2>1 DEF RestTyped, SetRoot
<1>7. ASSUME NEW s \in Sessions, Session(s) PROVE RestTyped'
  <2>1. CASE OpenRoot(s)
    <3>1. PICK d \in Roots : SetRoot(s, [path |-> d, ino |-> disk[d].ino])
      BY <2>1 DEF OpenRoot
    <3>2. d \in Dirs /\ disk[d].ino \in Nat
      BY <1>1, TreeAssumption DEF DiskTypes, Tokens, Paths
    <3> QED
      BY <1>6, <3>1, <3>2
  <2>2. CASE CloseRoot(s)
    BY <1>2, <1>6, <2>2 DEF CloseRoot
  <2>3. CASE CloseSession(s)
    BY <1>1, <1>2, <1>3, <2>3 DEF CloseSession, RestTyped
  <2>4. CASE FollowLink(s) \/ Send(s)
    BY <1>1, <1>3, <2>4 DEF FollowLink, Send, RestTyped
  <2>5. ASSUME NEW p \in Paths, Prepare(s, p) PROVE RestTyped'
    <3>1. [path |-> p, token |-> disk[p], root |-> epoch[s]]
            \in [path : Paths, token : Tokens, root : 0..MaxEpoch]
      BY <1>1 DEF RestTyped, DiskTypes
    <3> QED
      BY <1>1, <2>5, <3>1 DEF Prepare, RestTyped
  <2>6. ASSUME NEW p \in Paths, StartDelete(s, p) PROVE RestTyped'
    BY <1>1, <2>6 DEF StartDelete, RestTyped
  <2> QED
    BY <1>7, <2>1, <2>2, <2>3, <2>4, <2>5, <2>6 DEF Session
<1>8. ASSUME NEW x \in Workers, Work(x[1], x[2]) PROVE RestTyped'
  <2>1. UNCHANGED <<changes, root, epoch, closed, ticket>>
    BY <1>8, Zenon DEF Work, Collect, Verify, RemoveEntry, StartDownload, CutTransfer
  <2> QED
    BY <1>1, <2>1 DEF RestTyped
<1> QED
  BY <1>4, <1>5, <1>7, <1>8 DEF Next

\* A step starts with new locks, carries on with its locks, or has none.
LEMMA GoesLocks ==
  ASSUME NEW d \in DiskTypes, NEW x, NEW o \in OpTypes, NEW n, Goes(d, x, o, n)
  PROVE  n.locks = {} \/ n.locks = o.locks \/ Starts(d, x, o, n)
<1>1. CASE n = NoOp
  BY <1>1 DEF NoOp
<1>2. CASE Waits(x, o, n)
  <2>1. PICK p \in Paths, k \in Tokens, i \in 0..MaxEpoch :
          n = [NoOp EXCEPT !.pc = "waiting", !.path = p, !.token = k, !.link = i, !.epoch = i]
    BY <1>2 DEF Waits
  <2> QED
    BY <2>1 DEF NoOp
<1>3. CASE Visits(d, o, n)
  <2>1. PICK p \in Paths : Visited(d, o, n, p)
    BY <1>3, VisitMoves
  <2>2. n = [o EXCEPT !.items = n.items, !.stack = n.stack]
    BY <2>1 DEF Visited
  <2> QED
    BY <2>2 DEF OpTypes
<1>4. CASE Compares(d, o, n)
  BY <1>4 DEF Compares, OpTypes
<1>5. CASE Completes(x, o, n) \/ Verifies(d, x, o, n) \/ Sends(x, o, n)
  BY <1>5 DEF Completes, Inventoried, Verifies, Sends, OpTypes
<1> QED
  BY <1>1, <1>2, <1>3, <1>4, <1>5 DEF Goes

\* Exclusion, said of two workers.
LEMMA Excludes ==
  ASSUME Exclusion, NEW x \in Workers, NEW y \in Workers, x # y, NEW l \in op[x].locks, NEW m \in op[y].locks,
         l.path = m.path, l.ino = m.ino
  PROVE  ~l.exclusive /\ ~m.exclusive
  BY DEF Exclusion

\* A step of an operation keeps the exclusion: it takes only what is free.
LEMMA TurnExcludes ==
  ASSUME IInv, NEW x \in Workers, NEW n, Turn(x, n)
  PROVE  Exclusion'
<1>1. /\ op \in [Workers -> OpTypes] /\ Exclusion /\ disk \in DiskTypes
  BY DEF IInv, Typed
<1>2. /\ op'[x] = n /\ \A y \in Workers : y # x => op'[y] = op[y]
      /\ Goes(disk, x, op[x], n) /\ (Starts(disk, x, op[x], n) => \A l \in n.locks : Free(l))
  BY <1>1 DEF Turn
<1>3. n.locks = {} \/ n.locks = op[x].locks \/ \A l \in n.locks : Free(l)
  BY <1>1, <1>2, GoesLocks
<1>4. ASSUME NEW y \in Workers, y # x, NEW l \in n.locks, NEW m \in op[y].locks, l.path = m.path, l.ino = m.ino
      PROVE  ~l.exclusive /\ ~m.exclusive
  <2>1. CASE n.locks = op[x].locks
    BY <1>1, <1>4, <2>1, Excludes
  <2>2. CASE \A k \in n.locks : Free(k)
    <3>1. m \in Held
      BY DEF Held
    <3> QED
      BY <1>4, <2>2, <3>1 DEF Free
  <2> QED
    BY <1>3, <1>4, <2>1, <2>2
<1>5. ASSUME NEW y \in Workers, NEW z \in Workers, y # z, NEW l \in op'[y].locks, NEW m \in op'[z].locks,
             l.path = m.path, l.ino = m.ino
      PROVE  ~l.exclusive /\ ~m.exclusive
  <2>1. CASE y = x
    BY <1>2, <1>4, <1>5, <2>1
  <2>2. CASE z = x
    BY <1>2, <1>4, <1>5, <2>2
  <2>3. CASE y # x /\ z # x
    BY <1>1, <1>2, <1>5, <2>3, Excludes
  <2> QED
    BY <2>1, <2>2, <2>3
<1> QED
  BY <1>5 DEF Exclusion

\* ... and so do a writer and a removal.
LEMMA FewerLocksExclude ==
  ASSUME Exclusion, \A x \in Workers : op'[x].locks \subseteq op[x].locks
  PROVE  Exclusion'
  BY DEF Exclusion

\* Somebody else's change leaves the locks.
LEMMA DisturbedLocks == ASSUME NEW o \in OpTypes, NEW p PROVE Disturbed(o, p).locks = o.locks
  BY DEF Disturbed, OpTypes

\* A change of the disk by somebody else leaves an operation sound.
LEMMA DisturbedSound ==
  ASSUME NEW x, NEW o, OpOf(x, o), NEW p, NEW d, NEW e, Alters(d, e, p), AncestorsIn(d), Sound(d, x, o)
  PROVE  OpOf(x, Disturbed(o, p)) /\ Sound(e, x, Disturbed(o, p))
<1> DEFINE n == Disturbed(o, p)
<1>1. o \in OpTypes /\ Listed(o) /\ Ordered(o) /\ Guarded(d, x, o) /\ Rooted(d, o) /\ Complete(d, o)
  BY DEF Sound, OpOf
<1>2. OpOf(x, n)
  BY OthersTyped
<1>3. Listed(n) /\ Ordered(n)
  BY <1>1, OthersListed, OthersOrdered
<1>4. Guarded(e, x, n)
  BY <1>1, AltersGuarded, OthersGuarded
<1>5. Rooted(e, n)
  BY <1>1, AltersRooted, OthersRooted
<1>6. Complete(e, n)
  BY <1>1, AltersComplete
<1> HIDE DEF n
<1> QED
  BY <1>2, <1>3, <1>4, <1>5, <1>6 DEF Sound, n

\* A step of an operation leaves it sound,
LEMMA GoesSound ==
  ASSUME NEW x, x[2] \in {"delete", "download"}, NEW o, OpOf(x, o), NEW d \in DiskTypes, AncestorsIn(d),
         Sound(d, x, o), NEW n, Goes(d, x, o, n)
  PROVE  OpOf(x, n) /\ Sound(d, x, n)
<1>1. o \in OpTypes /\ Listed(o) /\ Ordered(o) /\ Guarded(d, x, o) /\ Rooted(d, o) /\ Complete(d, o)
  BY DEF Sound, OpOf
<1>2. OpOf(x, n)
  BY <1>1, GoesTyped
<1>3. Listed(n) /\ Ordered(n)
  BY <1>1, IdleType, GoesListed, GoesOrdered
<1>4. Guarded(d, x, n)
  BY <1>1, GoesGuarded
<1>5. Rooted(d, n)
  BY <1>1, GoesRooted
<1>6. Complete(d, n)
  BY <1>1, GoesComplete
<1> QED
  BY <1>2, <1>3, <1>4, <1>5, <1>6 DEF Sound

\* ... and so does a removal.
LEMMA RemovesSound ==
  ASSUME NEW x, NEW o, OpOf(x, o), NEW d, NEW e, AncestorsIn(d), Sound(d, x, o), NEW n, Removes(x, o, n),
         Alters(d, e, o.items[o.next].path), Erased(d, e, o.items[o.next].path)
  PROVE  OpOf(x, n) /\ Sound(e, x, n)
<1>1. o \in OpTypes /\ Listed(o) /\ Ordered(o) /\ Guarded(d, x, o) /\ Rooted(d, o) /\ Complete(d, o)
  BY DEF Sound, OpOf
<1>2. OpOf(x, n)
  BY OthersTyped
<1>3. Listed(n) /\ Ordered(n)
  BY <1>1, OthersListed, OthersOrdered
<1>4. Guarded(e, x, n)
  BY <1>1, AltersGuarded, OthersGuarded
<1>5. Rooted(e, n)
  BY <1>1, AltersRooted, OthersRooted
<1>6. Complete(e, n)
  BY <1>1, RemovalComplete
<1> QED
  BY <1>2, <1>3, <1>4, <1>5, <1>6 DEF Sound

\* The invariant but for the types of what is no operation, nor the disk.
Operations ==
    /\ disk \in DiskTypes /\ op \in [Workers -> OpTypes] /\ \A x \in Workers : OpOf(x, op[x])
    /\ AncestorsIn(disk) /\ Exclusion
    /\ \A x \in Workers : Sound(disk, x, op[x])

\* The state's operations after each kind of step: a writer's,
LEMMA WriterOperations ==
  ASSUME IInv, NEW p \in Paths, WriterStep(p)
  PROVE  Operations'
<1>1. /\ op \in [Workers -> OpTypes] /\ \A x \in Workers : OpOf(x, op[x]) /\ Sound(disk, x, op[x])
      /\ AncestorsIn(disk) /\ Exclusion
  BY DEF IInv, Typed
<1>2. /\ Alters(disk, disk', p) /\ \A x \in Workers : op'[x] = Disturbed(op[x], p)
      /\ op' = [x \in Workers |-> Disturbed(op[x], p)]
  BY DEF WriterStep
<1>3. disk' \in DiskTypes /\ AncestorsIn(disk')
  BY <1>1, <1>2, AncestorsStay DEF Alters
<1>4. \A x \in Workers : OpOf(x, op'[x]) /\ Sound(disk', x, op'[x])
  BY <1>1, <1>2, DisturbedSound
<1>5. \A x \in Workers : op'[x].locks \subseteq op[x].locks
  BY <1>1, <1>2, DisturbedLocks
<1>6. Exclusion'
  BY <1>1, <1>5, FewerLocksExclude
<1>7. op' \in [Workers -> OpTypes]
  BY <1>2, <1>4 DEF OpOf
<1> QED
  BY <1>3, <1>4, <1>6, <1>7 DEF Operations

\* ... a step of an operation,
LEMMA TurnOperations ==
  ASSUME IInv, NEW x \in Workers, NEW n, Turn(x, n)
  PROVE  Operations'
<1>1. /\ op \in [Workers -> OpTypes] /\ \A y \in Workers : OpOf(y, op[y]) /\ Sound(disk, y, op[y])
      /\ AncestorsIn(disk) /\ disk \in DiskTypes
  BY DEF IInv, Typed
<1>2. /\ disk' = disk /\ op' = [op EXCEPT ![x] = n] /\ Goes(disk, x, op[x], n)
  BY DEF Turn
<1>3. x[2] \in {"delete", "download"}
  BY WorkerIs
<1>4. OpOf(x, n) /\ Sound(disk, x, n)
  BY <1>1, <1>2, <1>3, GoesSound
<1>5. op' \in [Workers -> OpTypes] /\ \A y \in Workers : op'[y] = IF y = x THEN n ELSE op[y]
  BY <1>1, <1>2, <1>4 DEF OpOf
<1>6. \A y \in Workers : OpOf(y, op'[y]) /\ Sound(disk', y, op'[y])
  BY <1>1, <1>2, <1>4, <1>5
<1>7. AncestorsIn(disk') /\ disk' \in DiskTypes /\ Exclusion'
  BY <1>1, <1>2, TurnExcludes
<1> QED
  BY <1>5, <1>6, <1>7 DEF Operations

\* ... a removal.
LEMMA RemovalOperations ==
  ASSUME IInv, NEW x \in Workers, NEW n, Removal(x, n)
  PROVE  Operations'
<1> DEFINE p == Target(x)
<1>1. /\ op \in [Workers -> OpTypes] /\ \A y \in Workers : OpOf(y, op[y]) /\ Sound(disk, y, op[y])
      /\ AncestorsIn(disk) /\ Exclusion
  BY DEF IInv, Typed
<1>2. /\ Removes(x, op[x], n) /\ Alters(disk, disk', p) /\ Erased(disk, disk', p)
      /\ op' = [y \in Workers |-> IF y = x THEN n ELSE Disturbed(op[y], p)]
  BY DEF Removal
<1>3. OpOf(x, n) /\ Sound(disk', x, n)
  BY <1>1, <1>2, RemovesSound DEF Target
<1>4. \A y \in Workers : op'[y] = IF y = x THEN n ELSE Disturbed(op[y], p)
  BY <1>2
<1> HIDE DEF p
<1>5. \A y \in Workers : y # x => OpOf(y, op'[y]) /\ Sound(disk', y, op'[y])
  BY <1>1, <1>2, <1>4, DisturbedSound
<1>6. \A y \in Workers : OpOf(y, op'[y]) /\ Sound(disk', y, op'[y])
  BY <1>3, <1>4, <1>5
<1>7. n.locks \subseteq op[x].locks
  BY <1>1, <1>2 DEF Removes, NoOp, OpTypes
<1>8. \A y \in Workers : op'[y].locks \subseteq op[y].locks
  BY <1>1, <1>4, <1>7, DisturbedLocks
<1>9. disk' \in DiskTypes /\ AncestorsIn(disk') /\ Exclusion'
  BY <1>1, <1>2, <1>8, AncestorsStay, FewerLocksExclude DEF Alters
<1>10. op' \in [Workers -> OpTypes]
  BY <1>2, <1>4, <1>6 DEF OpOf
<1> QED
  BY <1>6, <1>9, <1>10 DEF Operations

\* The invariant holds after every step.
LEMMA StepIInv == IInv /\ [Next]_vars => IInv'
<1> SUFFICES ASSUME IInv, [Next]_vars PROVE IInv'
  OBVIOUS
<1>1. RestTyped'
  BY RestStep DEF IInv
<1>2. Operations'
  <2>1. CASE disk' = disk /\ op' = op
    BY <2>1 DEF Operations, IInv, Typed, Exclusion
  <2>2. CASE \E p \in Paths \ {Top} : WriterStep(p)
    BY <2>2, WriterOperations
  <2>3. CASE \E x \in Workers : \E n : Turn(x, n) \/ Removal(x, n)
    BY <2>3, TurnOperations, RemovalOperations
  <2> QED
    BY <2>1, <2>2, <2>3, StepCases
<1> QED
  BY <1>1, <1>2 DEF IInv, Typed, RestTyped, Operations

\* The invariant of the proofs.
THEOREM Invariant == Spec => []IInv
<1>1. Init => IInv
  BY InitIInv
<1>2. IInv /\ [Next]_vars => IInv'
  BY StepIInv
<1> QED
  BY <1>1, <1>2, PTL DEF Spec

\* The types that the runs check hold for every tree and every number of sessions.
THEOREM Types == Spec => []TypeOK
<1>1. IInv => TypeOK
  BY TypedOK DEF IInv
<1> QED
  BY <1>1, Invariant, PTL
-----------------------------------------------------------------------------
(* What a deletion may remove *)

\* What a deletion removes is its own target's entry, in a step of its own.
LEMMA DeletionIs ==
  ASSUME IInv, [Next]_vars, NEW t \in Deleters, NEW p \in Paths, Deletes(t, p)
  PROVE  /\ <<t, "delete">> \in Workers /\ p = Target(<<t, "delete">>)
         /\ \E n : Removal(<<t, "delete">>, n)
<1> DEFINE x == <<t, "delete">>
<1>1. x \in Workers /\ op \in [Workers -> OpTypes]
  BY WorkerIs DEF IInv, Typed
<1>2. op'[x].next # op[x].next /\ p = Target(x) /\ disk'[p] # disk[p]
  <2>1. op'[x].next # op[x].next /\ p = Target(x) /\ Gone(p)
    BY DEF Deletes, Target
  <2>2. disk'[p].rev # disk[p].rev
    BY <2>1 DEF Gone
  <2> QED
    BY <2>1, <2>2
<1> HIDE DEF x
<1>3. ~\E q \in Paths : WriterStep(q)
  <2> SUFFICES ASSUME NEW q \in Paths, WriterStep(q) PROVE FALSE
    OBVIOUS
  <2>1. op'[x] = Disturbed(op[x], q) /\ op[x] \in OpTypes
    BY <1>1 DEF WriterStep
  <2> QED
    BY <1>2, <2>1 DEF Disturbed, OpTypes
<1>4. ~\E y \in Workers : \E n : Turn(y, n)
  BY <1>2 DEF Turn
<1>5. PICK y \in Workers : \E n : Removal(y, n)
  BY <1>2, <1>3, <1>4, StepCases
<1>6. y = x
  <2> SUFFICES ASSUME y # x PROVE FALSE
    OBVIOUS
  <2>1. op'[x] = Disturbed(op[x], Target(y)) /\ op[x] \in OpTypes
    BY <1>1, <1>5 DEF Removal
  <2> QED
    BY <1>2, <2>1 DEF Disturbed, OpTypes
<1> QED
  BY <1>1, <1>2, <1>5, <1>6 DEF x

\* The state in which an operation removes an entry: its target is still the one that was
\* confirmed, and its locks are on what the paths name now.
LEMMA RemovingHolds ==
  ASSUME IInv, NEW x \in Workers, NEW n, Removal(x, n)
  PROVE  /\ There(disk, Target(x)) /\ Within(Target(x), op[x].path) /\ Target(x) \in Paths
         /\ op[x].pc = "remove" /\ There(disk, op[x].path)
         /\ \A l \in op[x].locks : l.ino = disk[l.path].ino
         /\ \E l \in op[x].locks : l.path = op[x].path /\ l.exclusive
<1> DEFINE o == op[x]
           item == o.items[o.next]
<1>1. OpOf(x, o) /\ Listed(o) /\ Guarded(disk, x, o) /\ Rooted(disk, o) /\ AncestorsIn(disk)
  BY DEF IInv, Typed, Sound
<1>2. /\ x[2] = "delete" /\ o.pc = "remove" /\ There(disk, Target(x))
      /\ disk[item.path].ino = item.token.ino /\ item.path = Target(x)
  BY DEF Removal, Removes, Removable, Present, There, Target
<1>3. o.next \in 1..Len(o.items) /\ Target(x) \in Paths /\ Within(Target(x), o.path) /\ o.path \in Paths
  BY <1>1, <1>2, Targets DEF OpOf, OpTypes
<1>4. There(disk, o.path)
  BY <1>1, <1>2, <1>3 DEF AncestorsIn, Within
<1>5. disk[o.path].ino = o.items[1].token.ino
  BY <1>1, <1>2, <1>3 DEF Rooted, Alive, Locking
<1>6. o.items[1].token = o.token
  BY <1>1, <1>2 DEF Listed
<1>7. \A l \in o.locks : l.ino = disk[l.path].ino
  BY <1>1, <1>2, <1>4, <1>5, <1>6 DEF Guarded, Locking
<1>8. \E l \in o.locks : l.path = o.path /\ l.exclusive
  BY <1>1, <1>2 DEF Guarded, Locking
<1> QED
  BY <1>2, <1>3, <1>4, <1>7, <1>8

\* A lock on each directory from an operation's root to its target.
LEMMA WayLocked ==
  ASSUME IInv, NEW x \in Workers, op[x].pc \in Locking, NEW q \in Above[op[x].path]
  PROVE  (\E l \in op[x].locks : l.path = q) \/ q \in Above[op[x].top]
<1>1. /\ op[x].path \in Paths /\ Guarded(disk, x, op[x])
  BY DEF IInv, Typed, OpTypes, Sound
<1>2. op[x].top \in Above[op[x].path]
  BY <1>1 DEF Guarded
<1>3. q = op[x].top \/ q \in Above[op[x].top] \/ op[x].top \in Above[q]
  BY <1>1, <1>2, TreeAssumption
<1> QED
  BY <1>1, <1>3 DEF Guarded

\* A removal under a transfer whose target has not been replaced: the two work apart.
LEMMA RemovedApart ==
  ASSUME IInv, NEW x \in Workers, NEW n, Removal(x, n),
         NEW y \in Workers, y[2] = "download", op[y].pc \in {"collect", "send"},
         disk[op[y].path].ino = op[y].token.ino, Within(Target(x), op[y].path)
  PROVE  op[y].path \in Dirs /\ Apart(op[y], op[x])
<1> DEFINE o == op[y]
           d == op[x]
           p == Target(x)
<1>1. /\ There(disk, p) /\ Within(p, d.path) /\ p \in Paths /\ d.pc = "remove" /\ There(disk, d.path)
      /\ \A l \in d.locks : l.ino = disk[l.path].ino
  BY RemovingHolds
<1>2. PICK ld \in d.locks : ld.path = d.path /\ ld.exclusive
  BY RemovingHolds
<1>3. /\ o \in OpTypes /\ d \in OpTypes /\ Guarded(disk, y, o) /\ AncestorsIn(disk) /\ Exclusion
      /\ o.pc \in Locking /\ d.pc \in Locking /\ o.path \in Paths /\ d.path \in Paths
  BY <1>1 DEF IInv, Typed, Sound, Locking, OpTypes
<1>4. There(disk, o.path)
  BY <1>1, <1>3 DEF AncestorsIn, Within
<1>5. \A l \in o.locks : l.ino = disk[l.path].ino
  BY <1>3, <1>4 DEF Guarded
<1>6. PICK lo \in o.locks : lo.path = o.path /\ (lo.exclusive \/ o.path \in Files)
  BY <1>3 DEF Guarded
<1>7. x # y
  BY DEF Removal, Removes
<1>8. \A l \in o.locks, m \in d.locks : l.path = m.path => ~l.exclusive /\ ~m.exclusive
  BY <1>1, <1>3, <1>5, <1>7, Excludes
<1> HIDE DEF p
<1>9. o.path # d.path
  BY <1>2, <1>6, <1>8
<1>10. o.path \in Above[d.path] \/ d.path \in Above[o.path]
  BY <1>1, <1>3, <1>9, Tree DEF Within, p
<1>11. CASE o.path \in Above[d.path]
  <2>1. o.path \in Dirs /\ o.path \notin Files
    BY <1>3, <1>11, Tree, TreeAssumption
  <2>2. (\E l \in d.locks : l.path = o.path) \/ o.path \in Above[d.top]
    BY <1>3, <1>11, WayLocked
  <2>3. ~\E l \in d.locks : l.path = o.path
    BY <1>6, <1>8, <2>1
  <2> QED
    BY <2>1, <2>2, <2>3 DEF Apart
<1>12. CASE d.path \in Above[o.path]
  <2>1. (\E l \in o.locks : l.path = d.path) \/ d.path \in Above[o.top]
    BY <1>3, <1>12, WayLocked
  <2>2. ~\E l \in o.locks : l.path = d.path
    BY <1>2, <1>8
  <2>3. Apart(o, d)
    BY <2>1, <2>2 DEF Apart
  <2>4. ASSUME o.path \in Files PROVE FALSE
    <3>1. p = o.path
      BY <1>1, <2>4, Tree, TreeAssumption DEF Within, p
    <3>2. ~LockedByAnother(d, p)
      BY DEF Removal, Removable, Target, p
    <3>3. Free(Lock(p, TRUE))
      BY <1>9, <2>4, <3>1, <3>2 DEF LockedByAnother
    <3>4. lo \in Held /\ lo.path = p /\ lo.ino = disk[p].ino
      BY <1>5, <1>6, <3>1 DEF Held
    <3> QED
      BY <3>3, <3>4 DEF Free, Lock
  <2> QED
    BY <1>3, <2>3, <2>4 DEF Paths
<1> QED
  BY <1>10, <1>11, <1>12

\* Nothing is deleted under a transfer whose target has not been replaced, unless the two
\* work apart (actions.rs's locks from the root to the target), for any tree, any number of
\* sessions and any changes by others.
THEOREM NothingUnderTransfers == Spec => TransferKept
<1>1. IInv /\ [Next]_vars =>
        [\A s \in Downloaders, t \in Deleters, p \in Paths :
           LET o == op[s, "download"]
               d == op[t, "delete"] IN
           o.pc \in {"collect", "send"} /\ disk[o.path].ino = o.token.ino
           /\ Deletes(t, p) /\ Within(p, o.path)
              => o.path \in Dirs /\ Apart(o, d)]_vars
  <2> SUFFICES ASSUME IInv, [Next]_vars, NEW s \in Downloaders, NEW t \in Deleters, NEW p \in Paths,
                      op[s, "download"].pc \in {"collect", "send"},
                      disk[op[s, "download"].path].ino = op[s, "download"].token.ino,
                      Deletes(t, p), Within(p, op[s, "download"].path)
               PROVE  op[s, "download"].path \in Dirs /\ Apart(op[s, "download"], op[t, "delete"])
    OBVIOUS
  <2> DEFINE x == <<t, "delete">>
             y == <<s, "download">>
  <2>1. x \in Workers /\ p = Target(x) /\ \E n : Removal(x, n)
    BY DeletionIs
  <2>2. y \in Workers /\ y[2] = "download"
    BY WorkerIs
  <2>3. op[y].path \in Dirs /\ Apart(op[y], op[x])
    <3> HIDE DEF x
    <3> QED
      BY <2>1, <2>2, RemovedApart
  <2> QED
    BY <2>3
<1> QED
  BY <1>1, Invariant, PTL DEF Spec, TransferKept

\* A file is deleted only in the state of the inventory, which the user's confirmation was
\* checked against.
THEOREM ChangedSurvive == Spec => ChangedFilesSurvive
<1>1. IInv /\ [Next]_vars =>
        [\A t \in Deleters, p \in Files :
           Deletes(t, p) => disk[p] = op[t, "delete"].items[op[t, "delete"].next].token]_vars
  <2> SUFFICES ASSUME IInv, [Next]_vars, NEW t \in Deleters, NEW p \in Files, Deletes(t, p)
               PROVE  disk[p] = op[t, "delete"].items[op[t, "delete"].next].token
    OBVIOUS
  <2> DEFINE x == <<t, "delete">>
             item == op[x].items[op[x].next]
  <2>1. p \in Paths /\ p \notin Dirs
    BY TreeAssumption DEF Paths
  <2>2. x \in Workers /\ p = Target(x) /\ \E n : Removal(x, n)
    BY <2>1, DeletionIs
  <2>3. disk[item.path] = ExpectedRevision(item) /\ item.path = p
    BY <2>2 DEF Removal, Removable, Target
  <2> QED
    BY <2>1, <2>3 DEF ExpectedRevision
<1> QED
  BY <1>1, Invariant, PTL DEF Spec, ChangedFilesSurvive

\* As long as nobody else changes the tree, the entry a deletion has come to is as the
\* inventory says, and what was below it is gone.
LEMMA CompleteRemovable ==
  ASSUME IInv, NEW x \in Workers, op[x].pc = "remove", op[x].clean,
         ~Cancelled(x[1], op[x]), ~LockedByAnother(op[x], Target(x))
  PROVE  Removable(x[1], op[x], op[x].items[op[x].next])
<1> DEFINE o == op[x]
           item == o.items[o.next]
           p == Target(x)
<1>1. o \in OpTypes /\ OpOf(x, o) /\ Ordered(o) /\ Complete(disk, o) /\ disk \in DiskTypes
  BY DEF IInv, Typed, Sound
<1>2. o.next \in 1..Len(o.items) /\ p \in Paths /\ p # Top /\ Within(p, o.path) /\ item.path = p
  BY Targets DEF Target
<1>3. o.next \in 1..o.next /\ o.path \in Paths /\ o.items \in Seq(ItemTypes) /\ Len(o.items) \in Nat
  BY <1>1, <1>2 DEF OpTypes
<1>4. /\ Intact(disk, o, o.next)
      /\ \A q \in Paths : There(disk, q) /\ Within(q, o.path) => Reached(o, q)
      /\ o.stack = <<>>
  BY <1>1, <1>3 DEF Complete, Left
<1> HIDE DEF p
<1>5. Present(p) /\ disk[p].ino = item.token.ino /\ (p \in Files => disk[p] = item.token)
  BY <1>2, <1>4 DEF Intact, Alive, There, Present
<1>6. disk[p] = ExpectedRevision(item)
  BY <1>2, <1>5 DEF ExpectedRevision, Paths
<1>7. Children(p) = {}
  <2> SUFFICES ASSUME NEW c \in Children(p) PROVE FALSE
    OBVIOUS
  <2>1. c \in Paths /\ c # Top /\ Parent[c] = p /\ There(disk, c)
    BY DEF Children, Present, There
  <2>2. Within(c, p) /\ c # p /\ Within(c, o.path)
    BY <1>2, <1>3, <2>1, Parents, Tree
  <2>3. Reached(o, c) /\ Len(o.stack) = 0
    BY <1>4, <2>1, <2>2
  <2>4. PICK k \in 1..o.next : o.items[k].path = c
    BY <2>3 DEF Reached, Left
  <2>5. k < o.next /\ k \in 1..Len(o.items)
    BY <1>2, <1>3, <2>2, <2>4
  <2>6. ~Within(o.items[k].path, o.items[o.next].path)
    BY <1>1, <1>2, <2>5 DEF Ordered
  <2> QED
    BY <1>2, <2>2, <2>4, <2>6
<1> QED
  BY <1>2, <1>5, <1>6, <1>7 DEF Removable, p

\* The last entry that a deletion removes is its target.
LEMMA LastRemoval ==
  ASSUME IInv, NEW x \in Workers, NEW n, Removal(x, n), op'[x].pc = "none"
  PROVE  Gone(op[x].path)
<1>1. /\ op \in [Workers -> OpTypes] /\ OpOf(x, op[x]) /\ Listed(op[x])
  BY DEF IInv, Typed, Sound
<1>2. op'[x] = n /\ Removes(x, op[x], n) /\ Erased(disk, disk', Target(x)) /\ Alters(disk, disk', Target(x))
  BY DEF Removal
<1>3. op[x].pc = "remove"
  BY <1>2 DEF Removes
<1>4. op[x].next = 1
  BY <1>1, <1>2, <1>3 DEF Removes, OpTypes
<1>5. Target(x) = op[x].path
  BY <1>1, <1>3, <1>4 DEF Target, Listed
<1>6. disk' \in DiskTypes /\ op[x].path \in Paths
  BY <1>1, <1>2 DEF Alters, OpTypes
<1>7. disk'[op[x].path].rev \in Nat /\ ~(disk'[op[x].path].rev > 0) /\ disk[op[x].path].rev > 0
  BY <1>2, <1>5, <1>6 DEF DiskTypes, Tokens, Erased, There
<1> QED
  BY <1>7 DEF Gone

\* A verified deletion is stopped by its session, another's change or another's lock, never
\* by its own removals.
THEOREM RemovalsGoOn == Spec => OwnRemovalsNeverStop
<1>1. IInv /\ [Next]_vars =>
        [\A s \in Deleters : LET o == op[s, "delete"] IN
           o.pc = "remove" /\ op'[s, "delete"].pc = "none" /\ ~Gone(o.path)
             => ~o.clean \/ Cancelled(s, o) \/ LockedByAnother(o, o.items[o.next].path)]_vars
  <2> SUFFICES ASSUME IInv, [Next]_vars, NEW s \in Deleters,
                      op[s, "delete"].pc = "remove", op'[s, "delete"].pc = "none", ~Gone(op[s, "delete"].path)
               PROVE  \/ ~op[s, "delete"].clean \/ Cancelled(s, op[s, "delete"])
                      \/ LockedByAnother(op[s, "delete"],
                                         op[s, "delete"].items[op[s, "delete"].next].path)
    OBVIOUS
  <2> DEFINE x == <<s, "delete">>
  <2>1. x \in Workers /\ x[1] = s /\ op[x].pc = "remove" /\ op'[x].pc = "none" /\ ~Gone(op[x].path)
    BY WorkerIs
  <2>2. op \in [Workers -> OpTypes] /\ OpOf(x, op[x]) /\ Listed(op[x])
    BY <2>1 DEF IInv, Typed, Sound
  <2> SUFFICES ~op[x].clean \/ Cancelled(x[1], op[x]) \/ LockedByAnother(op[x], Target(x))
    BY <2>1 DEF Target
  <2> HIDE DEF x
  <2>3. ~\E p \in Paths : WriterStep(p)
    <3> SUFFICES ASSUME NEW p \in Paths, WriterStep(p) PROVE FALSE
      OBVIOUS
    <3>1. op'[x] = Disturbed(op[x], p) /\ op[x] \in OpTypes
      BY <2>1, <2>2 DEF WriterStep
    <3> QED
      BY <2>1, <3>1 DEF Disturbed, OpTypes
  <2>4. ASSUME NEW y \in Workers, NEW n, Removal(y, n) PROVE FALSE
    <3>1. CASE y # x
      <4>1. op'[x] = Disturbed(op[x], Target(y)) /\ op[x] \in OpTypes
        BY <2>1, <2>2, <2>4, <3>1 DEF Removal
      <4> QED
        BY <2>1, <4>1 DEF Disturbed, OpTypes
    <3>2. CASE y = x
      BY <2>1, <2>4, <3>2, LastRemoval
    <3> QED
      BY <3>1, <3>2
  <2>5. PICK y \in Workers : \E n : Turn(y, n)
    BY <2>1, <2>3, <2>4, StepCases
  <2>6. y = x
    BY <2>1, <2>2, <2>5 DEF Turn
  <2>7. ~Removable(x[1], op[x], op[x].items[op[x].next])
    BY <2>1, <2>5, <2>6 DEF Turn
  <2> QED
    BY <2>1, <2>7, CompleteRemovable
<1> QED
  BY <1>1, Invariant, PTL DEF Spec, OwnRemovalsNeverStop
=============================================================================

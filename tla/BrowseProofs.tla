----------------------------- MODULE BrowseProofs -----------------------------
(***************************************************************************)
(* The tree of the viewer and the identifiers of the companion, for any    *)
(* sizes of the cache and of the queue, any changes of the disk and any    *)
(* number of cuts.  IInv: the index of the paths agrees with the nodes,    *)
(* the sizes are kept, and each load under way is the only one of its      *)
(* directory.  FlowInv, which rests on it: unless a flow may have outlived *)
(* its socket, TInv: a page that is not right is being loaded, or          *)
(* something on its way will have it loaded again.                         *)
(***************************************************************************)
EXTENDS Browse, SequenceTheorems, FiniteSetTheorems, TLAPS

\* The identifiers and the index of an open root, and how they agree.
CacheTyped(c) ==
    /\ c = [nodes |-> c.nodes, ids |-> c.ids, order |-> c.order,
            generations |-> c.generations, last |-> c.last]
    /\ c.last \in Nat \ {0}
    /\ c.nodes \in [DOMAIN c.nodes -> Paths] /\ DOMAIN c.nodes \subseteq 1..c.last
    /\ c.ids \in [DOMAIN c.ids -> 1..c.last]
    /\ c.order \in Seq(2..c.last)
OrderSound(c) ==
    /\ \A i, j \in DOMAIN c.order : c.order[i] = c.order[j] => i = j
    /\ DOMAIN c.nodes = {TopId} \cup {c.order[i] : i \in DOMAIN c.order}
IndexSound(c) ==
    /\ DOMAIN c.generations \subseteq DOMAIN c.nodes
    /\ \A p \in DOMAIN c.ids : c.ids[p] \in DOMAIN c.nodes /\ c.nodes[c.ids[p]] = p
CacheSound(c) ==
    CacheTyped(c) /\ OrderSound(c) /\ IndexSound(c) /\ Cardinality(DOMAIN c.nodes) <= NodeLimit

\* A page in the making.
PageSound(page) ==
    /\ CacheSound(page.cache)
    /\ page.entries \subseteq Paths \X (1..page.cache.last)
-----------------------------------------------------------------------------
(* Identifiers *)

\* The identifiers that have a node can be counted.
LEMMA NodesFinite ==
  ASSUME NEW c, CacheTyped(c)
  PROVE  IsFiniteSet(DOMAIN c.nodes) /\ Cardinality(DOMAIN c.nodes) \in Nat
<1>1. c.last \in Int
  BY DEF CacheTyped
<1>2. IsFiniteSet(1..c.last)
  BY <1>1, FS_Interval
<1> QED
  BY <1>2, FS_Subset, FS_CardinalityType DEF CacheTyped

\* A cache is given by its fields.
LEMMA CacheOf ==
  ASSUME NEW n, NEW i, NEW o, NEW g, NEW l,
         NEW c \in [nodes : {n}, ids : {i}, order : {o}, generations : {g}, last : {l}]
  PROVE  c = [nodes |-> n, ids |-> i, order |-> o, generations |-> g, last |-> l]
OBVIOUS

\* What a relocation leaves alone.
LEMMA RelocationFields ==
  ASSUME NEW c, CacheTyped(c), NEW n, NEW i
  PROVE  [c EXCEPT !.nodes = n, !.ids = i]
           = [nodes |-> n, ids |-> i, order |-> c.order,
              generations |-> c.generations, last |-> c.last]
<1>1. PICK a, b, d, e, f :
        c = [nodes |-> a, ids |-> b, order |-> d, generations |-> e, last |-> f]
  BY DEF CacheTyped
<1>2. c.nodes = a /\ c.ids = b /\ c.order = d /\ c.generations = e /\ c.last = f
  BY <1>1
<1>3. c \in [nodes : {a}, ids : {b}, order : {d}, generations : {e}, last : {f}]
  BY <1>1
<1>4. [c EXCEPT !.nodes = n, !.ids = i]
        \in [nodes : {n}, ids : {i}, order : {d}, generations : {e}, last : {f}]
  BY <1>3
<1> QED
  BY <1>2, <1>4, CacheOf

\* What a read leaves alone.
LEMMA GenerationFields ==
  ASSUME NEW c, CacheTyped(c), NEW g
  PROVE  [c EXCEPT !.generations = g]
           = [nodes |-> c.nodes, ids |-> c.ids, order |-> c.order,
              generations |-> g, last |-> c.last]
<1>1. PICK a, b, d, e, f :
        c = [nodes |-> a, ids |-> b, order |-> d, generations |-> e, last |-> f]
  BY DEF CacheTyped
<1>2. c.nodes = a /\ c.ids = b /\ c.order = d /\ c.generations = e /\ c.last = f
  BY <1>1
<1>3. c \in [nodes : {a}, ids : {b}, order : {d}, generations : {e}, last : {f}]
  BY <1>1
<1>4. [c EXCEPT !.generations = g]
        \in [nodes : {a}, ids : {b}, order : {d}, generations : {g}, last : {f}]
  BY <1>3
<1> QED
  BY <1>2, <1>4, CacheOf

\* A file that took its final name keeps its identifier, and the index follows.
LEMMA RelocatedSound ==
  ASSUME NEW c, CacheSound(c), NEW id \in DOMAIN c.nodes, c.nodes[id] = Active
  PROVE  /\ CacheSound(Relocated(c, id)) /\ Relocated(c, id).last = c.last
         /\ DOMAIN Relocated(c, id).nodes = DOMAIN c.nodes
<1> DEFINE d == Relocated(c, id)
           nodes == [c.nodes EXCEPT ![id] = Final]
           ids == With(Without(c.ids, {Active}), Final, id)
<1>1. d = [nodes |-> nodes, ids |-> ids, order |-> c.order,
           generations |-> c.generations, last |-> c.last]
  <2>1. d = [c EXCEPT !.nodes = nodes, !.ids = ids]
    BY DEF Relocated
  <2> QED
    BY <2>1, RelocationFields DEF CacheSound
<1>2. Final \in Paths
  BY DEF Paths, Names, ToSet
<1>3. nodes \in [DOMAIN c.nodes -> Paths] /\ DOMAIN nodes = DOMAIN c.nodes
  BY <1>2 DEF CacheSound, CacheTyped
<1>4. ids \in [DOMAIN ids -> 1..c.last]
  BY DEF CacheSound, CacheTyped, With, Without
<1>5. ASSUME NEW p \in DOMAIN ids PROVE ids[p] \in DOMAIN nodes /\ nodes[ids[p]] = p
  <2>1. CASE p = Final
    BY <2>1 DEF CacheSound, CacheTyped, With
  <2>2. CASE p # Final
    <3>1. p \in DOMAIN c.ids /\ p # Active /\ ids[p] = c.ids[p]
      BY <1>5, <2>2 DEF With, Without
    <3>2. c.ids[p] \in DOMAIN c.nodes /\ c.nodes[c.ids[p]] = p
      BY <3>1 DEF CacheSound, IndexSound
    <3> QED
      BY <3>1, <3>2 DEF CacheSound, CacheTyped
  <2> QED
    BY <2>1, <2>2
<1> HIDE DEF nodes, ids
<1>6. /\ d.nodes = nodes /\ d.ids = ids /\ d.order = c.order
      /\ d.generations = c.generations /\ d.last = c.last
  BY <1>1
<1> HIDE DEF d
<1>7. CacheTyped(d)
  BY <1>1, <1>3, <1>4, <1>6 DEF CacheSound, CacheTyped
<1>8. OrderSound(d) /\ IndexSound(d) /\ Cardinality(DOMAIN d.nodes) <= NodeLimit
  BY <1>3, <1>5, <1>6 DEF CacheSound, OrderSound, IndexSound
<1> QED
  BY <1>3, <1>6, <1>7, <1>8 DEF CacheSound, d

\* The search for renamed files, whether it finds one or not.
LEMMA RelocateSound ==
  ASSUME NEW c, CacheSound(c), NEW candidates
  PROVE  /\ CacheSound(Relocate(c, candidates)) /\ Relocate(c, candidates).last = c.last
         /\ DOMAIN Relocate(c, candidates).nodes = DOMAIN c.nodes
<1> DEFINE moved == {id \in candidates : Moved(c, id)}
<1>1. CASE moved = {}
  BY <1>1 DEF Relocate
<1>2. CASE moved # {}
  <2> DEFINE id == CHOOSE i \in moved : TRUE
  <2>1. id \in moved
    BY <1>2
  <2>2. id \in DOMAIN c.nodes /\ c.nodes[id] = Active
    BY <2>1 DEF Moved, Known
  <2>3. Relocate(c, candidates) = Relocated(c, id)
    BY <1>2 DEF Relocate
  <2> HIDE DEF id
  <2> QED
    BY <2>2, <2>3, RelocatedSound
<1> QED
  BY <1>1, <1>2

\* The eviction of the oldest identifier takes its node and its path, and one place.
LEMMA EvictedSound ==
  ASSUME NEW c, CacheSound(c), c.order # <<>>
  PROVE  /\ CacheSound(Evicted(c)) /\ Evicted(c).last = c.last
         /\ Cardinality(DOMAIN Evicted(c).nodes) = Cardinality(DOMAIN c.nodes) - 1
<1> DEFINE d == Evicted(c)
           id == Head(c.order)
           nodes == Without(c.nodes, {id})
           ids == Without(c.ids, {c.nodes[id]})
           generations == Without(c.generations, {id})
<1>1. d = [nodes |-> nodes, ids |-> ids, order |-> Tail(c.order),
           generations |-> generations, last |-> c.last]
  BY DEF Evicted
<1>2. id = c.order[1] /\ 1 \in DOMAIN c.order /\ id \in 2..c.last /\ id # TopId
  BY DEF CacheSound, CacheTyped, TopId
<1>3. id \in DOMAIN c.nodes
  BY <1>2 DEF CacheSound, OrderSound
<1>4. nodes \in [DOMAIN nodes -> Paths] /\ DOMAIN nodes = DOMAIN c.nodes \ {id}
  BY DEF CacheSound, CacheTyped, Without
<1>5. ids \in [DOMAIN ids -> 1..c.last] /\ DOMAIN generations = DOMAIN c.generations \ {id}
  BY DEF CacheSound, CacheTyped, Without
<1>6. ASSUME NEW p \in DOMAIN ids PROVE ids[p] \in DOMAIN nodes /\ nodes[ids[p]] = p
  <2>1. p \in DOMAIN c.ids /\ p # c.nodes[id] /\ ids[p] = c.ids[p]
    BY <1>6 DEF Without
  <2>2. c.ids[p] \in DOMAIN c.nodes /\ c.nodes[c.ids[p]] = p
    BY <2>1 DEF CacheSound, IndexSound
  <2> QED
    BY <2>1, <2>2 DEF Without
<1> DEFINE order == Tail(c.order)
<1>7. /\ order \in Seq(2..c.last) /\ Len(order) = Len(c.order) - 1 /\ Len(c.order) \in Nat
      /\ DOMAIN order = 1..Len(order) /\ DOMAIN c.order = 1..Len(c.order)
      /\ \A i \in 1..Len(order) : order[i] = c.order[i + 1]
  BY DEF CacheSound, CacheTyped
<1>8. \A i, j \in DOMAIN order : order[i] = order[j] => i = j
  <2>1. ASSUME NEW i \in DOMAIN order, NEW j \in DOMAIN order, order[i] = order[j]
        PROVE  i = j
    <3>1. i \in Nat /\ j \in Nat /\ i + 1 \in DOMAIN c.order /\ j + 1 \in DOMAIN c.order
      BY <1>7
    <3>2. c.order[i + 1] = c.order[j + 1]
      BY <1>7, <2>1
    <3>3. i + 1 = j + 1
      BY <3>1, <3>2 DEF CacheSound, OrderSound
    <3> QED
      BY <3>1, <3>3
  <2> QED
    BY <2>1
<1>9. DOMAIN nodes = {TopId} \cup {order[i] : i \in DOMAIN order}
  <2>1. ASSUME NEW x \in DOMAIN c.nodes, x # id, x # TopId
        PROVE  \E i \in DOMAIN order : order[i] = x
    <3>1. PICK j \in DOMAIN c.order : c.order[j] = x
      BY <2>1 DEF CacheSound, OrderSound
    <3>2. j # 1 /\ j - 1 \in DOMAIN order /\ order[j - 1] = c.order[j]
      BY <1>2, <1>7, <2>1, <3>1
    <3> QED
      BY <3>1, <3>2
  <2>2. ASSUME NEW i \in DOMAIN order PROVE order[i] \in DOMAIN c.nodes /\ order[i] # id
    BY SMTT(30), <1>2, <1>7, <2>2 DEF CacheSound, OrderSound
  <2>3. TopId \in DOMAIN c.nodes
    BY DEF CacheSound, OrderSound
  <2> HIDE DEF order, nodes, id
  <2> QED
    BY <1>2, <1>4, <2>1, <2>2, <2>3
<1>10. Cardinality(DOMAIN nodes) = Cardinality(DOMAIN c.nodes) - 1
  BY <1>3, <1>4, NodesFinite, FS_RemoveElement DEF CacheSound
<1> HIDE DEF nodes, ids, generations, order
<1>11. /\ d.nodes = nodes /\ d.ids = ids /\ d.order = order
       /\ d.generations = generations /\ d.last = c.last
  BY <1>1 DEF order
<1> HIDE DEF d
<1>12. DOMAIN nodes \subseteq 1..c.last /\ c.last \in Nat \ {0}
  BY <1>4 DEF CacheSound, CacheTyped
<1>13. CacheTyped(d)
  BY <1>1, <1>4, <1>5, <1>7, <1>11, <1>12 DEF CacheTyped, order
<1>14. OrderSound(d)
  BY <1>8, <1>9, <1>11 DEF OrderSound
<1>15. IndexSound(d)
  BY <1>4, <1>5, <1>6, <1>11 DEF CacheSound, IndexSound
<1>16. Cardinality(DOMAIN d.nodes) <= NodeLimit
  BY <1>10, <1>11, NodesFinite, LimitsAssumption DEF CacheSound
<1> QED
  BY <1>10, <1>11, <1>13, <1>14, <1>15, <1>16 DEF CacheSound, d

\* There is room for one identifier more.
LEMMA RoomSound ==
  ASSUME NEW c, CacheSound(c)
  PROVE  /\ CacheSound(Room(c)) /\ Room(c).last = c.last
         /\ Cardinality(DOMAIN Room(c).nodes) < NodeLimit
<1>1. IsFiniteSet(DOMAIN c.nodes) /\ Cardinality(DOMAIN c.nodes) \in Nat /\ NodeLimit \in Nat
  BY NodesFinite, LimitsAssumption DEF CacheSound
<1>2. CASE Cardinality(DOMAIN c.nodes) >= NodeLimit
  <2>1. c.order # <<>>
    <3>1. SUFFICES ASSUME c.order = <<>> PROVE FALSE
      OBVIOUS
    <3>2. DOMAIN c.nodes = {TopId}
      BY <3>1 DEF CacheSound, OrderSound
    <3>3. Cardinality({TopId}) = 1
      BY FS_Singleton
    <3> QED
      BY <1>2, <3>2, <3>3, LimitsAssumption
  <2>2. Room(c) = Evicted(c)
    BY <1>2, <2>1 DEF Room
  <2>3. Cardinality(DOMAIN c.nodes) <= NodeLimit
    BY DEF CacheSound
  <2>4. /\ CacheSound(Evicted(c)) /\ Evicted(c).last = c.last
        /\ Cardinality(DOMAIN Evicted(c).nodes) = Cardinality(DOMAIN c.nodes) - 1
    BY <2>1, EvictedSound
  <2> QED
    BY <1>1, <2>2, <2>3, <2>4
<1>3. CASE ~(Cardinality(DOMAIN c.nodes) >= NodeLimit)
  BY <1>1, <1>3 DEF Room
<1> QED
  BY <1>2, <1>3

\* A new identifier in a cache that has room for it.
LEMMA NewIdentifier ==
  ASSUME NEW c, CacheSound(c), Cardinality(DOMAIN c.nodes) < NodeLimit, NEW p \in Paths,
         NEW id, id = c.last + 1,
         NEW d, d = [nodes |-> With(c.nodes, id, p), ids |-> With(c.ids, p, id),
                     order |-> Append(c.order, id), generations |-> c.generations, last |-> id]
  PROVE  CacheSound(d)
<1> DEFINE nodes == With(c.nodes, id, p)
           ids == With(c.ids, p, id)
           order == Append(c.order, id)
<1>0. /\ c.last \in Nat \ {0} /\ id \in Nat \ {0} /\ 1..c.last \subseteq 1..id /\ id \in 2..id
      /\ id \notin 1..c.last /\ 2..c.last \subseteq 2..id
  BY DEF CacheSound, CacheTyped
<1>1. /\ d.nodes = nodes /\ d.ids = ids /\ d.order = order
      /\ d.generations = c.generations /\ d.last = id
  OBVIOUS
<1>2. /\ nodes \in [DOMAIN nodes -> Paths] /\ DOMAIN nodes = DOMAIN c.nodes \cup {id}
      /\ id \notin DOMAIN c.nodes
  BY <1>0 DEF CacheSound, CacheTyped, With
<1>3. ids \in [DOMAIN ids -> 1..id]
  BY <1>0 DEF CacheSound, CacheTyped, With
<1>4. ASSUME NEW q \in DOMAIN ids PROVE ids[q] \in DOMAIN nodes /\ nodes[ids[q]] = q
  <2>1. CASE q = p
    BY <1>2, <2>1 DEF With
  <2>2. CASE q # p
    <3>1. q \in DOMAIN c.ids /\ ids[q] = c.ids[q]
      BY <1>4, <2>2 DEF With
    <3>2. c.ids[q] \in DOMAIN c.nodes /\ c.nodes[c.ids[q]] = q
      BY <3>1 DEF CacheSound, IndexSound
    <3> QED
      BY <1>2, <3>1, <3>2 DEF With
  <2> QED
    BY <2>1, <2>2
<1>5. /\ c.order \in Seq(2..id) /\ order \in Seq(2..id) /\ Len(c.order) \in Nat
      /\ DOMAIN c.order = 1..Len(c.order) /\ DOMAIN order = 1..(Len(c.order) + 1)
      /\ \A i \in 1..Len(c.order) : order[i] = c.order[i] /\ order[i] \in 1..c.last
      /\ order[Len(c.order) + 1] = id
  <2>1. c.order \in Seq(2..c.last)
    BY DEF CacheSound, CacheTyped
  <2>2. c.order \in Seq(2..id)
    BY <1>0, <2>1
  <2>3. \A i \in 1..Len(c.order) : c.order[i] \in 1..c.last
    BY SMTT(30), <1>0, <2>1
  <2> QED
    BY <1>0, <2>2, <2>3
<1>6. \A i, j \in DOMAIN order : order[i] = order[j] => i = j
  <2>1. ASSUME NEW i \in DOMAIN order, NEW j \in DOMAIN order, order[i] = order[j]
        PROVE  i = j
    <3>1. CASE i \in DOMAIN c.order /\ j \in DOMAIN c.order
      BY <1>5, <2>1, <3>1 DEF CacheSound, OrderSound
    <3>2. CASE i \notin DOMAIN c.order /\ j \notin DOMAIN c.order
      BY <1>5, <3>2
    <3>3. CASE i \in DOMAIN c.order /\ j \notin DOMAIN c.order
      <4>1. order[i] \in 1..c.last /\ j = Len(c.order) + 1
        BY <1>5, <3>3
      <4> QED
        BY <1>0, <1>5, <2>1, <4>1
    <3>4. CASE i \notin DOMAIN c.order /\ j \in DOMAIN c.order
      <4>1. order[j] \in 1..c.last /\ i = Len(c.order) + 1
        BY <1>5, <3>4
      <4> QED
        BY <1>0, <1>5, <2>1, <4>1
    <3> QED
      BY <3>1, <3>2, <3>3, <3>4
  <2> QED
    BY <2>1
<1>7. DOMAIN nodes = {TopId} \cup {order[i] : i \in DOMAIN order}
  <2>1. {order[i] : i \in DOMAIN order} = {c.order[i] : i \in DOMAIN c.order} \cup {id}
    BY <1>5
  <2>2. DOMAIN c.nodes = {TopId} \cup {c.order[i] : i \in DOMAIN c.order}
    BY DEF CacheSound, OrderSound
  <2> QED
    BY <1>2, <2>1, <2>2
<1>8. Cardinality(DOMAIN nodes) <= NodeLimit
  <2>1. Cardinality(DOMAIN nodes) = Cardinality(DOMAIN c.nodes) + 1
    BY <1>2, NodesFinite, FS_AddElement DEF CacheSound
  <2> QED
    BY <2>1, NodesFinite, LimitsAssumption DEF CacheSound
<1> HIDE DEF nodes, ids, order
<1>9. DOMAIN nodes \subseteq 1..id
  BY <1>0, <1>2 DEF CacheSound, CacheTyped
<1>10. CacheTyped(d)
  <2>1. d = [nodes |-> d.nodes, ids |-> d.ids, order |-> d.order,
             generations |-> d.generations, last |-> d.last]
    OBVIOUS
  <2> QED
    BY <1>0, <1>1, <1>2, <1>3, <1>5, <1>9, <2>1 DEF CacheTyped
<1>11. OrderSound(d)
  <2>1. \A i, j \in DOMAIN d.order : d.order[i] = d.order[j] => i = j
    BY <1>1, <1>6
  <2>2. DOMAIN d.nodes = {TopId} \cup {d.order[i] : i \in DOMAIN d.order}
    BY <1>1, <1>7, Zenon
  <2> QED
    BY <2>1, <2>2 DEF OrderSound
<1>12. IndexSound(d)
  BY <1>1, <1>2, <1>4 DEF CacheSound, IndexSound
<1> QED
  BY <1>1, <1>8, <1>10, <1>11, <1>12 DEF CacheSound

\* A path that is remembered has an identifier, of its own or the one it had.
LEMMA RememberSound ==
  ASSUME NEW c, CacheSound(c), NEW p \in Paths
  PROVE  /\ CacheSound(Remember(c, p)) /\ Remember(c, p).last \in Nat
         /\ Remember(c, p).last >= c.last /\ p \in DOMAIN Remember(c, p).ids
<1>0. c.last \in Nat
  BY DEF CacheSound, CacheTyped
<1>1. CASE p \in DOMAIN c.ids
  BY <1>0, <1>1 DEF Remember
<1>2. CASE p \notin DOMAIN c.ids
  <2>1. PICK room : room = Room(c)
    OBVIOUS
  <2>2. PICK id : id = room.last + 1
    OBVIOUS
  <2>3. CacheSound(room) /\ Cardinality(DOMAIN room.nodes) < NodeLimit /\ room.last = c.last
    BY <2>1, RoomSound
  <2>4. PICK d : d = [nodes |-> With(room.nodes, id, p), ids |-> With(room.ids, p, id),
                      order |-> Append(room.order, id), generations |-> room.generations,
                      last |-> id]
    OBVIOUS
  <2>5. Remember(c, p) = d
    BY <1>2, <2>1, <2>2, <2>3, <2>4 DEF Remember
  <2>6. CacheSound(d)
    BY <2>2, <2>3, <2>4, NewIdentifier
  <2>7. d.last = c.last + 1 /\ p \in DOMAIN d.ids
    BY <2>2, <2>3, <2>4 DEF With
  <2> QED
    BY <1>0, <2>5, <2>6, <2>7
<1> QED
  BY <1>1, <1>2

\* An entry more on a page.
LEMMA EntrySound ==
  ASSUME NEW page, PageSound(page), NEW p \in Paths
  PROVE  PageSound(Entry(page, p)) /\ Entry(page, p).cache.last >= page.cache.last
<1>1. PICK c : c = Remember(page.cache, p)
  OBVIOUS
<1>2. CacheSound(page.cache) /\ page.cache.last \in Nat
  BY DEF PageSound, CacheSound, CacheTyped
<1>3. /\ CacheSound(c) /\ c.last \in Nat /\ c.last >= page.cache.last /\ p \in DOMAIN c.ids
  BY <1>1, <1>2, RememberSound
<1>4. Entry(page, p) = [cache |-> c, entries |-> page.entries \cup {<<p, c.ids[p]>>}]
  BY <1>1 DEF Entry
<1>5. c.ids[p] \in 1..c.last
  BY <1>3 DEF CacheSound, CacheTyped
<1>6. 1..page.cache.last \subseteq 1..c.last
  BY <1>2, <1>3
<1>7. page.entries \cup {<<p, c.ids[p]>>} \subseteq Paths \X (1..c.last)
  BY <1>5, <1>6 DEF PageSound
<1> QED
  BY <1>3, <1>4, <1>7 DEF PageSound

\* A function that lists the names one after the other, as `Listed` defines it.
Lists(page, c, names) ==
    page = [i \in 0..Len(Names) |->
               IF i = 0 THEN [cache |-> c, entries |-> {}]
               ELSE IF Names[i] \in names THEN Entry(page[i - 1], Names[i]) ELSE page[i - 1]]

\* A page, with a path more if it is to be listed.
Lengthened(page, names, p) == IF p \in names THEN Entry(page, p) ELSE page

\* There is one, for the names are few: they are listed one after the other.
LEMMA ListedUnfolds ==
  ASSUME NEW c, NEW names
  PROVE  \E p0, p1, p2, p3, p4 :
            /\ p0 = [cache |-> c, entries |-> {}]
            /\ p1 = Lengthened(p0, names, Directory) /\ p2 = Lengthened(p1, names, Final)
            /\ p3 = Lengthened(p2, names, Active) /\ p4 = Lengthened(p3, names, Inner)
            /\ Listed(c, names) = p4
<1>1. Len(Names) = 4 /\ Names[1] = Directory /\ Names[2] = Final /\ Names[3] = Active
      /\ Names[4] = Inner
  BY DEF Names
<1>2. PICK p0 : p0 = [cache |-> c, entries |-> {}]
  OBVIOUS
<1>3. PICK p1 : p1 = Lengthened(p0, names, Directory)
  OBVIOUS
<1>4. PICK p2 : p2 = Lengthened(p1, names, Final)
  OBVIOUS
<1>5. PICK p3 : p3 = Lengthened(p2, names, Active)
  OBVIOUS
<1>6. PICK p4 : p4 = Lengthened(p3, names, Inner)
  OBVIOUS
<1>7. \E page : Lists(page, c, names)
  <2> DEFINE page == [i \in 0..4 |-> IF i = 0 THEN p0 ELSE IF i = 1 THEN p1
                                     ELSE IF i = 2 THEN p2 ELSE IF i = 3 THEN p3 ELSE p4]
  <2>1. page[0] = p0 /\ page[1] = p1 /\ page[2] = p2 /\ page[3] = p3 /\ page[4] = p4
    OBVIOUS
  <2>2. ASSUME NEW i \in 0..4
        PROVE  page[i] = IF i = 0 THEN [cache |-> c, entries |-> {}]
                         ELSE Lengthened(page[i - 1], names, Names[i])
    <3>1. i = 0 \/ i = 1 \/ i = 2 \/ i = 3 \/ i = 4
      OBVIOUS
    <3>2. CASE i = 0
      BY <1>2, <2>1, <3>2
    <3>3. CASE i = 1
      BY <1>1, <1>3, <2>1, <3>3
    <3>4. CASE i = 2
      BY <1>1, <1>4, <2>1, <3>4
    <3>5. CASE i = 3
      BY <1>1, <1>5, <2>1, <3>5
    <3>6. CASE i = 4
      BY <1>1, <1>6, <2>1, <3>6
    <3> QED
      BY <3>1, <3>2, <3>3, <3>4, <3>5, <3>6
  <2>3. page = [i \in 0..4 |-> page[i]]
    OBVIOUS
  <2> HIDE DEF page
  <2>4. page = [i \in 0..4 |-> IF i = 0 THEN [cache |-> c, entries |-> {}]
                               ELSE Lengthened(page[i - 1], names, Names[i])]
    BY <2>2, <2>3
  <2> QED
    BY <1>1, <2>4 DEF Lists, Lengthened
<1>8. PICK page : Lists(page, c, names) /\ Listed(c, names) = page[4]
  <2>1. Listed(c, names) = (CHOOSE page : Lists(page, c, names))[4]
    BY <1>1 DEF Listed, Lists
  <2> QED
    BY <1>7, <2>1
<1>9. ASSUME NEW i \in 0..4
      PROVE  page[i] = IF i = 0 THEN p0 ELSE Lengthened(page[i - 1], names, Names[i])
  BY <1>1, <1>2, <1>8 DEF Lists, Lengthened
<1>10. page[0] = p0
  BY <1>9
<1>11. page[1] = p1
  BY <1>1, <1>3, <1>9, <1>10
<1>12. page[2] = p2
  BY <1>1, <1>4, <1>9, <1>11
<1>13. page[3] = p3
  BY <1>1, <1>5, <1>9, <1>12
<1>14. page[4] = p4
  BY <1>1, <1>6, <1>9, <1>13
<1> QED
  BY <1>2, <1>3, <1>4, <1>5, <1>6, <1>8, <1>14

\* A path more or not, the page is sound.
LEMMA LengthenedSound ==
  ASSUME NEW page, PageSound(page), NEW names, NEW p \in Paths, NEW n \in Nat,
         page.cache.last >= n, NEW after, after = Lengthened(page, names, p)
  PROVE  PageSound(after) /\ after.cache.last >= n
<1>1. CASE p \notin names
  BY <1>1 DEF Lengthened
<1>2. CASE p \in names
  <2>1. after = Entry(page, p)
    BY <1>2 DEF Lengthened
  <2>2. PageSound(after) /\ after.cache.last >= page.cache.last
    BY <2>1, EntrySound
  <2>3. page.cache.last \in Nat /\ after.cache.last \in Nat
    BY <2>2 DEF PageSound, CacheSound, CacheTyped
  <2> QED
    BY <2>2, <2>3
<1> QED
  BY <1>1, <1>2

\* What is listed is sound.
LEMMA ListedSound ==
  ASSUME NEW c, CacheSound(c), NEW names
  PROVE  PageSound(Listed(c, names)) /\ Listed(c, names).cache.last >= c.last
<1>1. PICK p0, p1, p2, p3, p4 :
        /\ p0 = [cache |-> c, entries |-> {}]
        /\ p1 = Lengthened(p0, names, Directory) /\ p2 = Lengthened(p1, names, Final)
        /\ p3 = Lengthened(p2, names, Active) /\ p4 = Lengthened(p3, names, Inner)
        /\ Listed(c, names) = p4
  BY ListedUnfolds
<1>2. Directory \in Paths /\ Final \in Paths /\ Active \in Paths /\ Inner \in Paths
  BY DEF Names, Paths, ToSet
<1>3. c.last \in Nat
  BY DEF CacheSound, CacheTyped
<1>4. PageSound(p0) /\ p0.cache.last >= c.last
  BY <1>1, <1>3 DEF PageSound
<1>5. PageSound(p1) /\ p1.cache.last >= c.last
  BY <1>1, <1>2, <1>3, <1>4, LengthenedSound
<1>6. PageSound(p2) /\ p2.cache.last >= c.last
  BY <1>1, <1>2, <1>3, <1>5, LengthenedSound
<1>7. PageSound(p3) /\ p3.cache.last >= c.last
  BY <1>1, <1>2, <1>3, <1>6, LengthenedSound
<1>8. PageSound(p4) /\ p4.cache.last >= c.last
  BY <1>1, <1>2, <1>3, <1>7, LengthenedSound
<1> QED
  BY <1>1, <1>8
-----------------------------------------------------------------------------
(* Requests *)

\* The directories that a queue of requests loads.
Loading(reqs) == {reqs[i].id : i \in {j \in DOMAIN reqs : reqs[j].kind = "entries"}}

RequestRecords(n) ==
    {r \in [kind : {"entries", "content"}, id : 0..n, pc : {"waits", "failed", "answered"},
            entries : SUBSET (Paths \X (1..n)), generation : Nat] :
        r.kind = "entries" => r.id \in 1..n}

\* The loads in the queue: as many as it may hold, one for each directory, and another one
\* promised only to a directory that is being loaded; n: identifiers given so far.
QueueSound(reqs, n) ==
    /\ reqs \in Seq(RequestRecords(n)) /\ Len(reqs) <= RequestLimit
    /\ \A i, j \in DOMAIN reqs : reqs[i].kind = "entries" /\ reqs[j].kind = "entries"
                                 /\ reqs[i].id = reqs[j].id => i = j

\* Orders in which directories are loaded.
Unrepeated(ids) == \A i, j \in DOMAIN ids : ids[i] = ids[j] => i = j

\* An enumeration of the members of a set names each of them once.
LEMMA OrdersOnto ==
  ASSUME NEW n \in Nat, NEW ids \in SUBSET (1..n), NEW order \in Orders(ids)
  PROVE  /\ order \in Seq(1..n) /\ Unrepeated(order) /\ ToSet(order) = ids
         /\ \A i \in DOMAIN order : order[i] \in ids
<1>1. IsFiniteSet(1..n)
  BY FS_Interval
<1>2. IsFiniteSet(ids)
  BY <1>1, FS_Subset
<1>3. Cardinality(ids) \in Nat
  BY <1>2, FS_CardinalityType
<1> DEFINE S == 1..Cardinality(ids)
<1>4. order \in [S -> ids] /\ ToSet(order) = ids
  BY DEF Orders
<1>5. order \in Surjection(S, ids)
  BY <1>4 DEF ToSet, Surjection
<1>6. IsFiniteSet(S) /\ Cardinality(S) = Cardinality(ids)
  BY <1>3, FS_Interval
<1>7. order \in Injection(S, ids)
  BY <1>5, <1>6, FS_SurjSameCardinalityImpliesInj
<1>8. Unrepeated(order)
  BY <1>4, <1>7 DEF Unrepeated, Injection, IsInjective
<1>9. order \in Seq(1..n)
  <2>1. order \in [S -> 1..n]
    BY <1>4
  <2> QED
    BY <1>3, <2>1
<1> QED
  BY <1>4, <1>8, <1>9

\* More identifiers do no harm to the requests.
LEMMA QueueGrows ==
  ASSUME NEW n \in Nat, NEW m \in Nat, n <= m, NEW reqs, QueueSound(reqs, n)
  PROVE  QueueSound(reqs, m)
<1>1. 0..n \subseteq 0..m /\ 1..n \subseteq 1..m
  OBVIOUS
<1>2. Paths \X (1..n) \subseteq Paths \X (1..m)
  BY <1>1
<1>3. RequestRecords(n) \subseteq RequestRecords(m)
  BY <1>1, <1>2 DEF RequestRecords
<1>4. reqs \in Seq(RequestRecords(m))
  BY <1>3 DEF QueueSound
<1> QED
  BY <1>4 DEF QueueSound

\* The first k directories; requests followed by the loads of some directories.
First(ids, k) == SubSeq(ids, 1, k)
Extended(reqs, ids) == reqs \o [i \in DOMAIN ids |-> Request("entries", ids[i])]

\* Loads that begin, in their order, as far as the queue has room.
LEMMA LoadsBegin ==
  ASSUME NEW n \in Nat, NEW reqs, QueueSound(reqs, n),
         NEW ids \in Seq(1..n), Unrepeated(ids), ToSet(ids) \cap Loading(reqs) = {},
         NEW k \in 0..Len(ids), Len(reqs) + k <= RequestLimit,
         NEW sent, sent = First(ids, k), NEW after, after = Extended(reqs, sent)
  PROVE  /\ QueueSound(after, n) /\ Loading(after) = Loading(reqs) \cup ToSet(sent)
         /\ ToSet(sent) \subseteq ToSet(ids)
         /\ reqs # <<>> => after # <<>> /\ Head(after) = Head(reqs)
<1>1. /\ reqs \in Seq(RequestRecords(n)) /\ Len(reqs) \in Nat /\ k \in Nat
      /\ DOMAIN reqs = 1..Len(reqs) /\ Len(ids) \in Nat
  BY DEF QueueSound
<1>2. /\ DOMAIN sent = 1..k /\ Len(sent) = k
      /\ \A i \in 1..k : sent[i] = ids[i] /\ sent[i] \in 1..n /\ i \in DOMAIN ids
  BY <1>1 DEF First
<1>3. PICK more : more = [i \in DOMAIN sent |-> Request("entries", sent[i])]
  OBVIOUS
<1>4. ASSUME NEW i \in 1..k
      PROVE  /\ more[i] \in RequestRecords(n) /\ more[i].kind = "entries" /\ more[i].id = ids[i]
  <2>1. more[i] = Request("entries", ids[i]) /\ ids[i] \in 1..n
    BY <1>2, <1>3
  <2> QED
    BY <2>1 DEF Request, RequestRecords
<1>5. more \in Seq(RequestRecords(n)) /\ Len(more) = k
  <2>1. more \in [1..k -> RequestRecords(n)]
    BY <1>2, <1>3, <1>4
  <2> QED
    BY <1>1, <2>1
<1>6. /\ after \in Seq(RequestRecords(n)) /\ Len(after) = Len(reqs) + k
      /\ DOMAIN after = 1..(Len(reqs) + k)
      /\ \A i \in 1..Len(reqs) : after[i] = reqs[i]
      /\ \A i \in 1..k : after[Len(reqs) + i] = more[i]
  <2>1. after = reqs \o more
    BY <1>3 DEF Extended
  <2>2. after \in Seq(RequestRecords(n)) /\ Len(after) = Len(reqs) + k
    <3>1. PICK R : R = RequestRecords(n)
      OBVIOUS
    <3>2. reqs \in Seq(R) /\ more \in Seq(R)
      BY <1>1, <1>5, <3>1
    <3>3. after \in Seq(R) /\ Len(after) = Len(reqs) + Len(more)
      BY <2>1, <3>2
    <3> QED
      BY <1>5, <3>1, <3>3
  <2>3. DOMAIN after = 1..(Len(reqs) + k)
    BY <1>1, <2>2
  <2>4. \A i \in 1..Len(reqs) : after[i] = reqs[i]
    BY <1>1, <1>5, <2>1
  <2>5. \A i \in 1..k : after[Len(reqs) + i] = more[i]
    BY <1>1, <1>5, <2>1
  <2> QED
    BY <2>2, <2>3, <2>4, <2>5
<1>7. ASSUME NEW i \in DOMAIN after, i \notin DOMAIN reqs
      PROVE  /\ i - Len(reqs) \in 1..k /\ after[i].kind = "entries"
             /\ after[i].id = ids[i - Len(reqs)] /\ after[i].id \notin Loading(reqs)
             /\ after[i].id = sent[i - Len(reqs)]
  <2>1. i - Len(reqs) \in 1..k /\ i = Len(reqs) + (i - Len(reqs))
    BY <1>1, <1>6, <1>7
  <2>2. after[i] = more[i - Len(reqs)]
    BY <1>6, <2>1
  <2>3. ids[i - Len(reqs)] \in ToSet(ids)
    BY <1>2, <2>1 DEF ToSet
  <2> QED
    BY <1>2, <1>4, <2>1, <2>2, <2>3
<1>8. ASSUME NEW i \in DOMAIN reqs PROVE i \in DOMAIN after /\ after[i] = reqs[i]
  BY <1>1, <1>6, <1>8
<1>9. ASSUME NEW i \in DOMAIN after, NEW j \in DOMAIN after,
             after[i].kind = "entries", after[j].kind = "entries", after[i].id = after[j].id
      PROVE  i = j
  <2>1. CASE i \in DOMAIN reqs /\ j \in DOMAIN reqs
    BY <1>8, <1>9, <2>1 DEF QueueSound
  <2>2. CASE i \in DOMAIN reqs /\ j \notin DOMAIN reqs
    <3>1. after[i].id \in Loading(reqs)
      BY <1>8, <1>9, <2>2 DEF Loading
    <3>2. after[j].id \notin Loading(reqs)
      BY <1>7, <2>2
    <3> QED
      BY <1>9, <3>1, <3>2
  <2>3. CASE i \notin DOMAIN reqs /\ j \in DOMAIN reqs
    <3>1. after[j].id \in Loading(reqs)
      BY <1>8, <1>9, <2>3 DEF Loading
    <3>2. after[i].id \notin Loading(reqs)
      BY <1>7, <2>3
    <3> QED
      BY <1>9, <3>1, <3>2
  <2>4. CASE i \notin DOMAIN reqs /\ j \notin DOMAIN reqs
    <3>0. /\ i - Len(reqs) \in 1..k /\ j - Len(reqs) \in 1..k
          /\ after[i].id = ids[i - Len(reqs)] /\ after[j].id = ids[j - Len(reqs)]
      BY <1>7, <2>4
    <3>1. i - Len(reqs) = j - Len(reqs)
      BY <1>2, <1>9, <3>0 DEF Unrepeated
    <3> QED
      BY <1>1, <1>6, <3>1
  <2> QED
    BY <2>1, <2>2, <2>3, <2>4
<1>10. QueueSound(after, n)
  <2>1. Len(after) <= RequestLimit
    BY <1>6
  <2> QED
    BY <1>6, <1>9, <2>1 DEF QueueSound
<1>11. Loading(after) = Loading(reqs) \cup ToSet(sent)
  <2>1. ASSUME NEW x \in Loading(after) PROVE x \in Loading(reqs) \cup ToSet(sent)
    <3>1. PICK i \in DOMAIN after : after[i].kind = "entries" /\ x = after[i].id
      BY DEF Loading
    <3>2. CASE i \in DOMAIN reqs
      BY <1>8, <3>1, <3>2 DEF Loading
    <3>3. CASE i \notin DOMAIN reqs
      BY <1>2, <1>7, <3>1, <3>3 DEF ToSet
    <3> QED
      BY <3>2, <3>3
  <2>2. ASSUME NEW x \in Loading(reqs) PROVE x \in Loading(after)
    <3>1. PICK i \in DOMAIN reqs : reqs[i].kind = "entries" /\ x = reqs[i].id
      BY DEF Loading
    <3> QED
      BY <1>8, <3>1 DEF Loading
  <2>3. ASSUME NEW x \in ToSet(sent) PROVE x \in Loading(after)
    <3>1. PICK i \in 1..k : x = sent[i]
      BY <1>2, <2>3 DEF ToSet
    <3>2. Len(reqs) + i \in DOMAIN after /\ Len(reqs) + i \notin DOMAIN reqs
      BY <1>1, <1>6
    <3>3. after[Len(reqs) + i].kind = "entries" /\ after[Len(reqs) + i].id = x
      BY <1>2, <1>4, <1>6, <3>1
    <3> QED
      BY <3>2, <3>3 DEF Loading
  <2> QED
    BY <2>1, <2>2, <2>3
<1>12. ToSet(sent) \subseteq ToSet(ids)
  BY <1>2 DEF ToSet
<1>13. reqs # <<>> => after # <<>> /\ Head(after) = Head(reqs)
  BY <1>1, <1>6
<1> QED
  BY <1>10, <1>11, <1>12, <1>13

\* A request that is served: its answer is written in its place.
LEMMA HeadServed ==
  ASSUME NEW n \in Nat, NEW reqs, QueueSound(reqs, n), reqs # <<>>,
         NEW r \in RequestRecords(n), r.kind = Head(reqs).kind, r.id = Head(reqs).id,
         NEW after, after = [reqs EXCEPT ![1] = r]
  PROVE  QueueSound(after, n) /\ Loading(after) = Loading(reqs) /\ Head(after) = r
         /\ after # <<>>
<1>1. /\ reqs \in Seq(RequestRecords(n)) /\ Len(reqs) \in Nat \ {0} /\ Head(reqs) = reqs[1]
      /\ DOMAIN reqs = 1..Len(reqs) /\ 1 \in DOMAIN reqs
  BY DEF QueueSound
<1>2. /\ after \in Seq(RequestRecords(n)) /\ Len(after) = Len(reqs) /\ DOMAIN after = DOMAIN reqs
      /\ after[1] = r /\ Head(after) = r /\ after # <<>>
  BY <1>1
<1>3. \A i \in DOMAIN reqs : after[i].kind = reqs[i].kind /\ after[i].id = reqs[i].id
  BY <1>1, <1>2
<1>4. QueueSound(after, n)
  BY <1>2, <1>3 DEF QueueSound
<1>5. Loading(after) = Loading(reqs)
  BY <1>2, <1>3 DEF Loading
<1> QED
  BY <1>2, <1>4, <1>5

\* The first request taken: its directory is loaded no more, and there is a place.
LEMMA HeadTaken ==
  ASSUME NEW n \in Nat, NEW reqs, QueueSound(reqs, n), reqs # <<>>
  PROVE  /\ QueueSound(Tail(reqs), n) /\ Len(Tail(reqs)) + 1 <= RequestLimit
         /\ Loading(Tail(reqs)) = IF Head(reqs).kind = "entries" THEN Loading(reqs) \ {Head(reqs).id}
                                  ELSE Loading(reqs)
         /\ Len(Tail(reqs)) \in Nat
<1> DEFINE rest == Tail(reqs)
<1>1. /\ reqs \in Seq(RequestRecords(n)) /\ Len(reqs) \in Nat \ {0} /\ Head(reqs) = reqs[1]
      /\ DOMAIN reqs = 1..Len(reqs) /\ Len(reqs) <= RequestLimit
  BY DEF QueueSound
<1>2. /\ rest \in Seq(RequestRecords(n)) /\ Len(rest) = Len(reqs) - 1
      /\ DOMAIN rest = 1..(Len(reqs) - 1)
      /\ \A i \in 1..(Len(reqs) - 1) : rest[i] = reqs[i + 1]
  BY <1>1
<1> HIDE DEF rest
<1>3. ASSUME NEW i \in DOMAIN rest
      PROVE  i \in Nat /\ i + 1 \in DOMAIN reqs /\ i + 1 # 1 /\ rest[i] = reqs[i + 1]
  BY <1>1, <1>2
<1>4. ASSUME NEW j \in DOMAIN reqs, j # 1
      PROVE  j - 1 \in DOMAIN rest /\ reqs[j] = rest[j - 1]
  <2>1. j - 1 \in 1..(Len(reqs) - 1) /\ (j - 1) + 1 = j
    BY <1>1, <1>4
  <2> QED
    BY <1>2, <2>1
<1>5. RequestLimit \in Nat /\ Len(rest) <= RequestLimit /\ Len(rest) + 1 <= RequestLimit
  BY <1>1, <1>2, LimitsAssumption
<1>6. QueueSound(rest, n)
  <2>1. ASSUME NEW i \in DOMAIN rest, NEW j \in DOMAIN rest,
               rest[i].kind = "entries", rest[j].kind = "entries", rest[i].id = rest[j].id
        PROVE  i = j
    <3>1. i + 1 = j + 1
      BY <1>3, <2>1 DEF QueueSound
    <3> QED
      BY <1>3, <3>1
  <2> QED
    BY <1>2, <1>5, <2>1 DEF QueueSound
<1>7. ASSUME NEW x \in Loading(rest)
      PROVE  x \in Loading(reqs) /\ (Head(reqs).kind = "entries" => x # Head(reqs).id)
  <2>1. PICK i \in DOMAIN rest : rest[i].kind = "entries" /\ x = rest[i].id
    BY DEF Loading
  <2>2. i + 1 \in DOMAIN reqs /\ i + 1 # 1 /\ reqs[i + 1].kind = "entries" /\ x = reqs[i + 1].id
    BY <1>3, <2>1
  <2>3. 1 \in DOMAIN reqs
    BY <1>1
  <2> QED
    BY <1>1, <2>2, <2>3 DEF Loading, QueueSound
<1>8. ASSUME NEW x \in Loading(reqs), Head(reqs).kind = "entries" => x # Head(reqs).id
      PROVE  x \in Loading(rest)
  <2>1. PICK j \in DOMAIN reqs : reqs[j].kind = "entries" /\ x = reqs[j].id
    BY DEF Loading
  <2>2. j # 1
    BY <1>1, <1>8, <2>1
  <2> QED
    BY <1>4, <2>1, <2>2 DEF Loading
<1>9. Loading(rest) = IF Head(reqs).kind = "entries" THEN Loading(reqs) \ {Head(reqs).id}
                      ELSE Loading(reqs)
  BY <1>7, <1>8
<1> QED
  BY <1>2, <1>5, <1>6, <1>9, <1>1 DEF rest

\* Requests followed by one for the content of a file.
WithContent(reqs, id) == Append(reqs, Request("content", id))

\* A request more for the content of a file.
LEMMA ContentAsked ==
  ASSUME NEW n \in Nat, NEW reqs, QueueSound(reqs, n), NEW id \in 0..n,
         Len(reqs) < RequestLimit, NEW after, after = WithContent(reqs, id)
  PROVE  /\ QueueSound(after, n) /\ Loading(after) = Loading(reqs)
         /\ reqs # <<>> => after # <<>> /\ Head(after) = Head(reqs)
<1>1. PICK r : r = Request("content", id)
  OBVIOUS
<1>2. r \in RequestRecords(n) /\ r.kind = "content"
  BY <1>1 DEF Request, RequestRecords
<1>3. /\ reqs \in Seq(RequestRecords(n)) /\ Len(reqs) \in Nat /\ DOMAIN reqs = 1..Len(reqs)
  BY DEF QueueSound
<1>4. /\ after \in Seq(RequestRecords(n)) /\ Len(after) = Len(reqs) + 1
      /\ DOMAIN after = 1..(Len(reqs) + 1) /\ after[Len(reqs) + 1] = r
      /\ \A i \in 1..Len(reqs) : after[i] = reqs[i]
  BY <1>1, <1>2, <1>3 DEF WithContent
<1>5. ASSUME NEW i \in DOMAIN after, after[i].kind = "entries"
      PROVE  i \in DOMAIN reqs /\ after[i] = reqs[i]
  <2>1. i # Len(reqs) + 1
    BY <1>2, <1>4, <1>5
  <2> QED
    BY <1>3, <1>4, <2>1
<1>6. ASSUME NEW i \in DOMAIN reqs PROVE i \in DOMAIN after /\ after[i] = reqs[i]
  BY <1>3, <1>4
<1>7. Loading(after) = Loading(reqs)
  BY <1>5, <1>6 DEF Loading
<1>8. Len(after) <= RequestLimit
  BY <1>3, <1>4, LimitsAssumption
<1>9. QueueSound(after, n)
  BY <1>4, <1>5, <1>8 DEF QueueSound
<1>10. reqs # <<>> => after # <<>> /\ Head(after) = Head(reqs)
  BY <1>3, <1>4
<1> QED
  BY <1>7, <1>9, <1>10
-----------------------------------------------------------------------------
(* The invariant *)

DiskTyped ==
    /\ changes \in 0..MaxChanges
    /\ disk \in [Paths -> 0..MaxChanges + 1] /\ disk[Top] = 1

\* What the viewer shows, and what the companion observes, has an identifier.
ViewSound(n) ==
    /\ DOMAIN branches \subseteq 1..n /\ opened \subseteq 1..n
    /\ DOMAIN pages \subseteq 1..n /\ treeErrors \subseteq 1..n
    /\ \A id \in DOMAIN pages : pages[id] \subseteq Paths \X (1..n)
    /\ refreshing \in Seq([id : 1..n, sent : BOOLEAN])
    /\ selected \in 0..n

LoadsSound(n) ==
    /\ QueueSound(requests, n) /\ activeBranchLoads = Loading(requests)
    /\ pendingTree \subseteq activeBranchLoads

\* The listing in progress is the first request's.
ReadingSound ==
    reading # Idle => requests # <<>> /\ Head(requests).kind = "entries"
                      /\ Head(requests).pc = "waits"

IInv ==
    /\ DiskTyped /\ CacheSound(cache) /\ ViewSound(cache.last) /\ LoadsSound(cache.last)
    /\ ReadingSound

\* The inductive invariant implies the two that the run checks.
LEMMA IInvImplies == IInv => TypeOK /\ IndexMatchesNodes
<1> SUFFICES ASSUME IInv PROVE TypeOK /\ IndexMatchesNodes
  OBVIOUS
<1>1. IndexMatchesNodes
  BY DEF IInv, CacheSound, IndexSound, IndexMatchesNodes, Known
<1>2. disk \in [Paths -> 0..MaxChanges + 1] /\ disk[Top] = 1
  BY DEF IInv, DiskTyped
<1>3. DOMAIN cache.nodes \subseteq 1..cache.last /\ Cardinality(DOMAIN cache.nodes) <= NodeLimit
  BY DEF IInv, CacheSound, CacheTyped
<1>4. ToSet(cache.order) \cup {TopId} = DOMAIN cache.nodes
  BY DEF IInv, CacheSound, OrderSound, ToSet
<1>5. DOMAIN cache.generations \subseteq DOMAIN cache.nodes
  BY DEF IInv, CacheSound, IndexSound
<1>6. DOMAIN branches \cup opened \cup DOMAIN pages \cup treeErrors \subseteq 1..cache.last
  BY DEF IInv, ViewSound
<1>7. Len(requests) <= RequestLimit
  BY DEF IInv, LoadsSound, QueueSound
<1>8. /\ activeBranchLoads = {requests[i].id : i \in {j \in DOMAIN requests :
                                                         requests[j].kind = "entries"}}
      /\ pendingTree \subseteq activeBranchLoads
  BY DEF IInv, LoadsSound, Loading
<1> QED
  BY <1>1, <1>2, <1>3, <1>4, <1>5, <1>6, <1>7, <1>8 DEF TypeOK

\* The first state.
LEMMA InitIInv == Init => IInv
<1> SUFFICES ASSUME Init PROVE IInv
  OBVIOUS
<1>1. DiskTyped
  <2>1. Top \in Paths /\ Top \notin {Final, Inner} /\ MaxChanges \in Nat
    BY PathsAssumption, LimitsAssumption DEF Paths
  <2> QED
    BY <2>1 DEF Init, DiskTyped
<1>2. /\ cache = [nodes |-> cache.nodes, ids |-> cache.ids, order |-> cache.order,
                  generations |-> cache.generations, last |-> cache.last]
      /\ cache.nodes = [id \in {1} |-> Top] /\ cache.ids = [p \in {Top} |-> 1]
      /\ cache.order = <<>> /\ cache.generations = <<>> /\ cache.last = 1
  BY DEF Init, TopId
<1>3. CacheSound(cache)
  <2>1. cache.nodes \in [{1} -> Paths] /\ DOMAIN cache.nodes = {1}
    BY <1>2 DEF Paths
  <2>2. cache.ids \in [DOMAIN cache.ids -> 1..1] /\ DOMAIN cache.ids = {Top}
    BY <1>2
  <2>3. CacheTyped(cache)
    <3>1. cache.order \in Seq(2..cache.last)
      BY <1>2
    <3>2. cache.last \in Nat \ {0} /\ {1} \subseteq 1..cache.last
      BY <1>2
    <3> QED
      BY <1>2, <2>1, <2>2, <3>1, <3>2 DEF CacheTyped
  <2>4. OrderSound(cache)
    BY <1>2, <2>1 DEF OrderSound, TopId
  <2>5. IndexSound(cache)
    BY <1>2, <2>1, <2>2 DEF IndexSound
  <2>6. Cardinality(DOMAIN cache.nodes) <= NodeLimit
    <3>1. Cardinality({1}) = 1
      BY FS_Singleton
    <3> QED
      BY <2>1, <3>1, LimitsAssumption
  <2> QED
    BY <2>3, <2>4, <2>5, <2>6 DEF CacheSound
<1>4. ViewSound(1)
  BY DEF Init, ViewSound, TopId
<1>5. LoadsSound(1)
  <2>1. PICK r : r = Request("entries", 1)
    OBVIOUS
  <2>2. r \in RequestRecords(1) /\ r.kind = "entries" /\ r.id = 1
    BY <2>1 DEF Request, RequestRecords
  <2>3. requests = <<r>> /\ activeBranchLoads = {1} /\ pendingTree = {}
    BY <2>1 DEF Init, TopId
  <2>4. QueueSound(requests, 1)
    BY <2>2, <2>3, LimitsAssumption DEF QueueSound
  <2>5. Loading(requests) = {1}
    BY <2>2, <2>3 DEF Loading
  <2> QED
    BY <2>3, <2>4, <2>5 DEF LoadsSound
<1>6. ReadingSound
  BY DEF Init, ReadingSound
<1> QED
  BY <1>1, <1>2, <1>3, <1>4, <1>5, <1>6 DEF IInv
-----------------------------------------------------------------------------
(* The steps *)

\* The identifiers given so far are numbers from one on.
LEMMA LastTyped ==
  ASSUME IInv
  PROVE  cache.last \in Nat \ {0} /\ DOMAIN cache.nodes \subseteq 1..cache.last
BY DEF IInv, CacheSound, CacheTyped

\* A read notes which file the identifier stands for.
LEMMA ReadSound ==
  ASSUME NEW c, CacheSound(c), NEW id \in DOMAIN c.nodes, NEW file,
         NEW d, d = [c EXCEPT !.generations = With(c.generations, id, file)]
  PROVE  CacheSound(d) /\ d.last = c.last
<1> DEFINE g == With(c.generations, id, file)
<1>1. CacheTyped(c)
  BY DEF CacheSound
<1>2. d = [nodes |-> c.nodes, ids |-> c.ids, order |-> c.order,
           generations |-> g, last |-> c.last]
  BY <1>1, GenerationFields
<1>3. DOMAIN g \subseteq DOMAIN c.nodes
  BY DEF CacheSound, IndexSound, With
<1> HIDE DEF g
<1>4. /\ d.nodes = c.nodes /\ d.ids = c.ids /\ d.order = c.order /\ d.generations = g
      /\ d.last = c.last
  BY <1>2
<1>5. CacheTyped(d)
  BY <1>1, <1>2, <1>4 DEF CacheTyped
<1>6. OrderSound(d)
  BY <1>4 DEF CacheSound, OrderSound
<1>7. IndexSound(d)
  BY <1>3, <1>4 DEF CacheSound, IndexSound
<1>8. Cardinality(DOMAIN d.nodes) <= NodeLimit
  BY <1>4 DEF CacheSound
<1> QED
  BY <1>4, <1>5, <1>6, <1>7, <1>8 DEF CacheSound

\* The first request fails.
LEMMA FailedSound ==
  ASSUME NEW n \in Nat, QueueSound(requests, n), requests # <<>>, Failed
  PROVE  /\ QueueSound(requests', n) /\ Loading(requests') = Loading(requests)
         /\ requests' # <<>>
<1>1. /\ requests \in Seq(RequestRecords(n)) /\ Head(requests) = requests[1]
      /\ 1 \in DOMAIN requests
  BY DEF QueueSound
<1>2. PICK q \in RequestRecords(n) : q = requests[1]
  BY <1>1
<1>3. PICK r : r = [q EXCEPT !.pc = "failed"]
  OBVIOUS
<1>4. r \in RequestRecords(n) /\ r.kind = q.kind /\ r.id = q.id
  BY <1>3 DEF RequestRecords
<1>5. requests' = [requests EXCEPT ![1] = r]
  BY <1>2, <1>3 DEF Failed
<1>6. r.kind = Head(requests).kind /\ r.id = Head(requests).id
  BY <1>1, <1>2, <1>4
<1> HIDE DEF Failed
<1>7. PICK after : after = [requests EXCEPT ![1] = r]
  OBVIOUS
<1>8. QueueSound(after, n) /\ Loading(after) = Loading(requests) /\ after # <<>>
  BY <1>4, <1>6, <1>7, HeadServed
<1> QED
  BY <1>5, <1>7, <1>8

\* Loads begin: the queue stays sound, and no request overtakes the first one.
LEMMA BeginSound ==
  ASSUME NEW n \in Nat, QueueSound(requests, n), activeBranchLoads = Loading(requests),
         NEW ids \in Seq(1..n), Unrepeated(ids), ToSet(ids) \cap activeBranchLoads = {},
         Begin(ids, requests)
  PROVE  /\ QueueSound(requests', n) /\ activeBranchLoads' = Loading(requests')
         /\ activeBranchLoads \subseteq activeBranchLoads'
         /\ treeErrors' \subseteq treeErrors \cup ToSet(ids)
         /\ requests # <<>> => requests' # <<>> /\ Head(requests') = Head(requests)
<1> DEFINE room == IF Len(requests) >= RequestLimit THEN 0 ELSE RequestLimit - Len(requests)
           fit == IF Len(ids) < room THEN Len(ids) ELSE room
<1>1. /\ Len(requests) \in Nat /\ Len(requests) <= RequestLimit /\ RequestLimit \in Nat
      /\ Len(ids) \in Nat
  BY LimitsAssumption DEF QueueSound
<1>2. PICK k : k = fit
  OBVIOUS
<1>3. k \in 0..Len(ids) /\ Len(requests) + k <= RequestLimit
  BY <1>1, <1>2
<1>4. PICK sent : sent = First(ids, k)
  OBVIOUS
<1>5. PICK after : after = Extended(requests, sent)
  OBVIOUS
<1>6. /\ requests' = after
      /\ activeBranchLoads' = {requests[i].id : i \in {j \in DOMAIN requests :
                                   requests[j].kind = "entries"}} \cup ToSet(sent)
      /\ treeErrors' = treeErrors \cup (ToSet(ids) \ ToSet(sent))
  BY <1>2, <1>4, <1>5 DEF Begin, First, Extended
<1>7. /\ QueueSound(after, n) /\ Loading(after) = Loading(requests) \cup ToSet(sent)
      /\ requests # <<>> => after # <<>> /\ Head(after) = Head(requests)
  <2>1. ToSet(ids) \cap Loading(requests) = {}
    OBVIOUS
  <2> QED
    BY <1>3, <1>4, <1>5, <2>1, LoadsBegin
<1>8. activeBranchLoads' = Loading(requests) \cup ToSet(sent)
  BY <1>6 DEF Loading
<1> QED
  BY <1>6, <1>7, <1>8

\* The load of one directory.
LEMMA BeginOneSound ==
  ASSUME NEW n \in Nat, QueueSound(requests, n), activeBranchLoads = Loading(requests),
         NEW id \in 1..n, id \notin activeBranchLoads, Begin(<<id>>, requests)
  PROVE  /\ QueueSound(requests', n) /\ activeBranchLoads' = Loading(requests')
         /\ activeBranchLoads \subseteq activeBranchLoads'
         /\ treeErrors' \subseteq treeErrors \cup {id}
         /\ requests # <<>> => requests' # <<>> /\ Head(requests') = Head(requests)
<1>1. PICK ids : ids = <<id>>
  OBVIOUS
<1>2. ids \in Seq(1..n) /\ Unrepeated(ids) /\ ToSet(ids) = {id}
  BY <1>1 DEF Unrepeated, ToSet
<1>3. Begin(ids, requests)
  BY <1>1
<1> QED
  BY <1>2, <1>3, BeginSound

\* More identifiers do no harm to what the viewer shows.
LEMMA ViewGrows ==
  ASSUME NEW n \in Nat, NEW m \in Nat, n <= m, ViewSound(n)
  PROVE  ViewSound(m)
<1>1. 1..n \subseteq 1..m /\ 0..n \subseteq 0..m
  OBVIOUS
<1>2. Paths \X (1..n) \subseteq Paths \X (1..m)
  BY <1>1
<1>3. refreshing \in Seq([id : 1..m, sent : BOOLEAN])
  <2>1. [id : 1..n, sent : BOOLEAN] \subseteq [id : 1..m, sent : BOOLEAN]
    BY <1>1
  <2>2. PICK A, B : A = [id : 1..n, sent : BOOLEAN] /\ B = [id : 1..m, sent : BOOLEAN]
    OBVIOUS
  <2>3. A \subseteq B /\ refreshing \in Seq(A)
    BY <2>1, <2>2 DEF ViewSound
  <2>4. refreshing \in Seq(B)
    BY <2>3
  <2> QED
    BY <2>2, <2>4
<1>4. \A id \in DOMAIN pages : pages[id] \subseteq Paths \X (1..m)
  BY <1>2 DEF ViewSound
<1>5. selected \in 0..m
  BY <1>1 DEF ViewSound
<1>6. /\ DOMAIN branches \subseteq 1..m /\ opened \subseteq 1..m
      /\ DOMAIN pages \subseteq 1..m /\ treeErrors \subseteq 1..m
  BY <1>1 DEF ViewSound
<1> QED
  BY <1>3, <1>4, <1>5, <1>6 DEF ViewSound

\* Changes of the disk.
LEMMA DiskStep ==
  ASSUME IInv, Disk
  PROVE  IInv'
<1>1. changes \in Nat /\ changes < MaxChanges /\ changes' = changes + 1 /\ MaxChanges \in Nat
  <2>1. changes \in 0..MaxChanges /\ MaxChanges \in Nat
    BY LimitsAssumption DEF IInv, DiskTyped
  <2>2. changes < MaxChanges /\ changes' = changes + 1
    BY DEF Disk, Rotate, Create, Delete, Change
  <2> QED
    BY <2>1, <2>2
<1>2. UNCHANGED <<serverVars, socketVars, loadVars, viewerVars>>
  BY DEF Disk, Rotate, Create, Delete, Change
<1>3. disk' \in [Paths -> 0..MaxChanges + 1] /\ disk'[Top] = 1
  <2>1. disk \in [Paths -> 0..MaxChanges + 1] /\ disk[Top] = 1
    BY DEF IInv, DiskTyped
  <2>2. CASE Rotate
    <3>1. Active \in Paths /\ Final \in Paths /\ Top \notin {Active, Final}
      BY PathsAssumption DEF Paths, Names, ToSet
    <3>2. disk' = [disk EXCEPT ![Active] = 0, ![Final] = disk[Active]]
      BY <2>2 DEF Rotate
    <3>3. 0 \in 0..MaxChanges + 1 /\ disk[Active] \in 0..MaxChanges + 1
      BY <1>1, <2>1, <3>1
    <3>4. PICK a \in 0..MaxChanges + 1 : a = disk[Active]
      BY <3>3
    <3>5. disk' = [disk EXCEPT ![Active] = 0, ![Final] = a]
      BY <3>2, <3>4
    <3>6. disk' \in [Paths -> 0..MaxChanges + 1]
      BY <2>1, <3>3, <3>5
    <3>7. disk'[Top] = disk[Top]
      <4>1. Top \in Paths /\ Top # Active /\ Top # Final
        BY <3>1 DEF Paths
      <4>2. PICK d : d = disk
        OBVIOUS
      <4>3. d \in [Paths -> 0..MaxChanges + 1]
        BY <2>1, <4>2
      <4>4. [d EXCEPT ![Active] = 0, ![Final] = a][Top] = d[Top]
        BY <4>1, <4>3
      <4> QED
        BY <3>5, <4>2, <4>4
    <3> QED
      BY <2>1, <3>6, <3>7
  <2>3. ASSUME NEW p \in Paths, Create(p) PROVE disk' \in [Paths -> 0..MaxChanges + 1] /\ disk'[Top] = 1
    <3>1. p # Top /\ disk' = [disk EXCEPT ![p] = changes + 2]
      BY <2>3 DEF Create
    <3>2. changes + 2 \in 0..MaxChanges + 1
      BY <1>1
    <3> QED
      BY <2>1, <3>1, <3>2
  <2>4. ASSUME NEW p \in Paths, Delete(p) PROVE disk' \in [Paths -> 0..MaxChanges + 1] /\ disk'[Top] = 1
    <3>1. p # Top /\ disk' = [disk EXCEPT ![p] = 0]
      BY <2>4 DEF Delete
    <3>2. 0 \in 0..MaxChanges + 1
      BY <1>1
    <3> QED
      BY <2>1, <3>1, <3>2
  <2> QED
    BY <2>2, <2>3, <2>4 DEF Disk
<1>4. DiskTyped'
  BY <1>1, <1>3 DEF DiskTyped
<1>5. CacheSound(cache)'
  BY <1>2 DEF IInv, serverVars
<1>6. ViewSound(cache.last)'
  BY <1>2 DEF IInv, ViewSound, serverVars, loadVars, viewerVars
<1>7. LoadsSound(cache.last)' /\ ReadingSound'
  BY <1>2 DEF IInv, LoadsSound, ReadingSound, serverVars, loadVars
<1> QED
  BY <1>4, <1>5, <1>6, <1>7 DEF IInv

\* What is left when the viewer, the queue and the disk are as before, and the cache has
\* the identifiers it had.
LEMMA SameIdentifiers ==
  ASSUME IInv, UNCHANGED <<diskVars, loadVars, viewerVars, reading>>,
         CacheSound(cache'), cache'.last = cache.last, DOMAIN branches' \subseteq 1..cache.last
  PROVE  IInv'
<1>1. DiskTyped'
  BY DEF IInv, DiskTyped, diskVars
<1>2. CacheSound(cache)'
  OBVIOUS
<1>3. ViewSound(cache.last)'
  BY DEF IInv, ViewSound, loadVars, viewerVars
<1>4. LoadsSound(cache.last)' /\ ReadingSound'
  BY DEF IInv, LoadsSound, ReadingSound, loadVars
<1> QED
  BY <1>1, <1>2, <1>3, <1>4 DEF IInv

\* Steps of the companion that serve the first request.
LEMMA ServingStep ==
  ASSUME IInv, UNCHANGED <<diskVars, branches, pages, treeErrors, activeBranchLoads,
                           pendingTree, viewerVars>>,
         CacheSound(cache'), cache'.last >= cache.last,
         QueueSound(requests', cache'.last), Loading(requests') = Loading(requests),
         ReadingSound'
  PROVE  IInv'
<1>1. cache.last \in Nat /\ cache'.last \in Nat
  BY LastTyped DEF CacheSound, CacheTyped
<1>2. DiskTyped'
  BY DEF IInv, DiskTyped, diskVars
<1>3. ViewSound(cache.last)'
  <2>1. PICK m : m = cache'.last
    OBVIOUS
  <2>2. ViewSound(cache.last)
    BY DEF IInv
  <2>3. ViewSound(m)
    BY <1>1, <2>1, <2>2, ViewGrows
  <2> QED
    BY <2>1, <2>3 DEF ViewSound, viewerVars
<1>4. LoadsSound(cache.last)'
  BY DEF IInv, LoadsSound
<1> QED
  BY <1>2, <1>3, <1>4 DEF IInv

\* The first half of a listing.
LEMMA BeginEntriesStep ==
  ASSUME IInv, BeginEntries
  PROVE  IInv'
<1>1. /\ CacheSound(cache') /\ cache'.last = cache.last
  BY RelocateSound DEF IInv, BeginEntries
<1>2. cache.last \in Nat /\ QueueSound(requests, cache.last)
  BY LastTyped DEF IInv, LoadsSound
<1>3. Waiting("entries") /\ Free
  BY DEF BeginEntries
<1>4. \/ requests' = requests
      \/ Failed /\ reading' = Idle
  BY <1>3 DEF BeginEntries, Free
<1>5. CASE requests' = requests
  <2>1. ReadingSound'
    BY <1>3, <1>5 DEF ReadingSound, Waiting
  <2> QED
    BY <1>1, <1>2, <1>5, <2>1, ServingStep DEF BeginEntries
<1>6. CASE Failed /\ reading' = Idle
  <2>1. QueueSound(requests', cache.last) /\ Loading(requests') = Loading(requests)
    BY <1>2, <1>3, <1>6, FailedSound DEF Waiting
  <2>2. ReadingSound'
    BY <1>6 DEF ReadingSound
  <2> QED
    BY <1>1, <1>2, <2>1, <2>2, ServingStep DEF BeginEntries
<1> QED
  BY <1>4, <1>5, <1>6

\* The second half of a listing: its entries have identifiers given by then.
LEMMA EndEntriesStep ==
  ASSUME IInv, EndEntries
  PROVE  IInv'
<1>1. PICK names : LET page == Listed(cache, names) IN
         /\ cache' = page.cache
         /\ \/ requests' = [requests EXCEPT ![1].pc = "answered", ![1].entries = page.entries]
            \/ Failed
  BY DEF EndEntries
<1>2. PICK page : page = Listed(cache, names)
  OBVIOUS
<1>3. PageSound(page) /\ page.cache.last >= cache.last /\ cache' = page.cache
  BY <1>1, <1>2, ListedSound DEF IInv
<1>4. PICK m : m = page.cache.last
  OBVIOUS
<1>5. /\ CacheSound(cache') /\ cache'.last = m /\ m \in Nat /\ cache.last \in Nat
      /\ cache.last <= m /\ page.entries \subseteq Paths \X (1..m)
  BY <1>3, <1>4, LastTyped DEF PageSound, CacheSound, CacheTyped
<1>6. QueueSound(requests, m)
  BY <1>5, QueueGrows DEF IInv, LoadsSound
<1>7. requests # <<>>
  BY DEF IInv, ReadingSound, EndEntries, Free
<1>8. QueueSound(requests', m) /\ Loading(requests') = Loading(requests)
  <2>1. CASE Failed
    BY <1>5, <1>6, <1>7, <2>1, FailedSound
  <2>2. CASE requests' = [requests EXCEPT ![1].pc = "answered", ![1].entries = page.entries]
    <3>1. /\ requests \in Seq(RequestRecords(m)) /\ Head(requests) = requests[1]
          /\ 1 \in DOMAIN requests
      BY <1>6, <1>7 DEF QueueSound
    <3>2. PICK q \in RequestRecords(m) : q = requests[1]
      BY <3>1
    <3>3. PICK e : e = page.entries
      OBVIOUS
    <3>4. PICK r : r = [q EXCEPT !.pc = "answered", !.entries = e]
      OBVIOUS
    <3>5. e \in SUBSET (Paths \X (1..m))
      BY <1>5, <3>3
    <3>6. r \in RequestRecords(m) /\ r.kind = q.kind /\ r.id = q.id
      BY <3>4, <3>5 DEF RequestRecords
    <3>7. PICK after : after = [requests EXCEPT ![1] = r]
      OBVIOUS
    <3>8. requests' = after
      BY <2>2, <3>1, <3>2, <3>3, <3>4, <3>7
    <3>9. QueueSound(after, m) /\ Loading(after) = Loading(requests)
      <4>1. r.kind = Head(requests).kind /\ r.id = Head(requests).id
        BY <3>1, <3>2, <3>6
      <4>2. m \in Nat
        BY <1>5
      <4> QED
        BY <1>6, <1>7, <3>6, <3>7, <4>1, <4>2, HeadServed
    <3> QED
      BY <3>8, <3>9
  <2> QED
    BY <1>1, <1>2, <2>1, <2>2
<1>9. ReadingSound'
  BY DEF EndEntries, ReadingSound
<1> QED
  BY <1>5, <1>8, <1>9, ServingStep DEF EndEntries

\* The content of a file, or an error.
LEMMA ServeContentStep ==
  ASSUME IInv, ServeContent
  PROVE  IInv'
<1>1. PICK n : n = cache.last
  OBVIOUS
<1>2. n \in Nat /\ QueueSound(requests, n) /\ requests # <<>>
  BY <1>1, LastTyped DEF IInv, LoadsSound, ServeContent, Waiting
<1>3. ReadingSound'
  BY DEF ServeContent, ReadingSound, Free
<1>4. CASE Failed /\ cache' = cache
  <2>1. QueueSound(requests', n) /\ Loading(requests') = Loading(requests)
    BY <1>2, <1>4, FailedSound
  <2> QED
    BY <1>1, <1>2, <1>3, <1>4, <2>1, ServingStep DEF IInv, ServeContent
<1>5. CASE ~(Failed /\ cache' = cache)
  <2>1. PICK id : id = Head(requests).id
    OBVIOUS
  <2>2. /\ id \in DOMAIN cache.nodes
        /\ cache' = [cache EXCEPT !.generations = With(cache.generations, id, disk[cache.nodes[id]])]
        /\ requests' = [requests EXCEPT ![1].pc = "answered",
                                        ![1].generation = disk[cache.nodes[id]]]
    BY <1>5, <2>1 DEF ServeContent, Known
  <2>3. PICK file : file = disk[cache.nodes[id]]
    OBVIOUS
  <2>4. file \in Nat
    <3>1. cache.nodes[id] \in Paths
      BY <2>2 DEF IInv, CacheSound, CacheTyped
    <3>2. disk \in [Paths -> 0..MaxChanges + 1] /\ MaxChanges \in Nat
      BY LimitsAssumption DEF IInv, DiskTyped
    <3> QED
      BY <2>3, <3>1, <3>2
  <2>5. CacheSound(cache') /\ cache'.last = cache.last
    <3>1. PICK d : d = [cache EXCEPT !.generations = With(cache.generations, id, file)]
      OBVIOUS
    <3>2. CacheSound(cache)
      BY DEF IInv
    <3>3. CacheSound(d) /\ d.last = cache.last
      BY <2>2, <3>1, <3>2, ReadSound
    <3> QED
      BY <2>2, <2>3, <3>1, <3>3
  <2>6. /\ requests \in Seq(RequestRecords(n)) /\ Head(requests) = requests[1]
        /\ 1 \in DOMAIN requests
    BY <1>2 DEF QueueSound
  <2>7. PICK q \in RequestRecords(n) : q = requests[1]
    BY <2>6
  <2>8. PICK r : r = [q EXCEPT !.pc = "answered", !.generation = file]
    OBVIOUS
  <2>9. r \in RequestRecords(n) /\ r.kind = q.kind /\ r.id = q.id
    BY <2>4, <2>8 DEF RequestRecords
  <2>10. PICK after : after = [requests EXCEPT ![1] = r]
    OBVIOUS
  <2>11. requests' = after
    BY <2>2, <2>3, <2>6, <2>7, <2>8, <2>10
  <2>12. QueueSound(after, n) /\ Loading(after) = Loading(requests)
    BY <1>2, <2>6, <2>7, <2>9, <2>10, HeadServed
  <2> QED
    BY <1>1, <1>2, <1>3, <2>5, <2>11, <2>12, ServingStep DEF ServeContent
<1> QED
  BY <1>4, <1>5

\* A message of the viewer.
LEMMA ApplyStep ==
  ASSUME IInv, Apply
  PROVE  IInv'
<1>1. UNCHANGED <<diskVars, cache, reading, loadVars, viewerVars>>
  BY DEF Apply
<1>2. DOMAIN branches' \subseteq 1..cache.last
  <2>1. DOMAIN branches \subseteq 1..cache.last
    BY DEF IInv, ViewSound
  <2>2. ASSUME NEW ids, \A id \in ids : Known(cache, id) PROVE ids \subseteq 1..cache.last
    BY <2>2, LastTyped DEF Known
  <2>3. PICK ids : ids = Head(toServer).ids
    OBVIOUS
  <2>4. \/ branches' = branches
        \/ (\A id \in ids : Known(cache, id)) /\ branches' = [id \in ids |-> Prior(id)]
    BY <2>3 DEF Apply
  <2> QED
    BY <2>1, <2>2, <2>4
<1> QED
  BY <1>1, <1>2, SameIdentifiers DEF IInv

\* A poll, whether the viewer hears of it or not.
LEMMA PollStep ==
  ASSUME IInv, NEW due \in BOOLEAN, NEW heard \in BOOLEAN, Watch(due, heard)
  PROVE  IInv'
<1>1. UNCHANGED <<diskVars, reading, loadVars, viewerVars>>
  BY DEF Watch
<1>2. DOMAIN branches' \subseteq 1..cache.last
  <2>1. DOMAIN branches \subseteq 1..cache.last
    BY DEF IInv, ViewSound
  <2>2. \/ branches' = branches
        \/ branches' = [id \in {i \in DOMAIN branches : Readable(i)} |-> Revision(cache.nodes[id])]
    BY DEF Watch
  <2> QED
    BY <2>1, <2>2
<1>3. CacheSound(cache') /\ cache'.last = cache.last
  <2>1. PICK c : c = Relocate(cache, {selection.id})
    OBVIOUS
  <2>2. CacheSound(c) /\ c.last = cache.last /\ DOMAIN c.nodes = DOMAIN cache.nodes
    BY <2>1, RelocateSound DEF IInv
  <2>3. CASE cache' = c
    BY <2>2, <2>3
  <2>4. CASE cache' # c
    <3>1. PICK id : id = selection.id
      OBVIOUS
    <3>2. PICK file : file = disk[c.nodes[id]]
      OBVIOUS
    <3>3. /\ selection # NoSelection
          /\ cache' = [c EXCEPT !.generations = With(c.generations, id, file)]
      BY <2>1, <2>4, <3>1, <3>2 DEF Watch
    <3>4. id \in DOMAIN c.nodes
      BY <2>2, <3>1, <3>3 DEF Watch, Expired, Known
    <3>5. PICK d : d = [c EXCEPT !.generations = With(c.generations, id, file)]
      OBVIOUS
    <3>6. CacheSound(d) /\ d.last = c.last
      BY <2>2, <3>4, <3>5, ReadSound
    <3> QED
      BY <2>2, <3>3, <3>5, <3>6
  <2> QED
    BY <2>3, <2>4
<1> QED
  BY <1>1, <1>2, <1>3, SameIdentifiers

\* Steps of the viewer: the companion's identifiers are as before, and nothing overtakes
\* the request of a listing in progress.
LEMMA ViewerStep ==
  ASSUME IInv, UNCHANGED <<diskVars, cache, reading>>,
         ViewSound(cache.last)', QueueSound(requests', cache.last),
         activeBranchLoads' = Loading(requests'), pendingTree' \subseteq activeBranchLoads',
         \/ reading = Idle
         \/ requests # <<>> => requests' # <<>> /\ Head(requests') = Head(requests)
  PROVE  IInv'
<1>1. DiskTyped'
  BY DEF IInv, DiskTyped, diskVars
<1>2. CacheSound(cache)'
  BY DEF IInv
<1>3. LoadsSound(cache.last)'
  BY DEF LoadsSound
<1>4. ReadingSound'
  BY DEF IInv, ReadingSound
<1> QED
  BY <1>1, <1>2, <1>3, <1>4 DEF IInv

\* The answer to a listing.
LEMMA ReceiveEntriesStep ==
  ASSUME IInv, ReceiveEntries
  PROVE  IInv'
<1>1. PICK n : n = cache.last
  OBVIOUS
<1>2. /\ n \in Nat \ {0} /\ QueueSound(requests, n) /\ activeBranchLoads = Loading(requests)
      /\ pendingTree \subseteq activeBranchLoads /\ ViewSound(n)
  BY <1>1, LastTyped DEF IInv, LoadsSound
<1>3. PICK answer : answer = Head(requests)
  OBVIOUS
<1>4. requests # <<>> /\ answer.kind = "entries" /\ answer.pc # "waits"
  BY <1>3 DEF ReceiveEntries
<1>5. answer \in RequestRecords(n) /\ answer.id \in 1..n
      /\ answer.entries \subseteq Paths \X (1..n)
  <2>1. answer \in RequestRecords(n)
    BY <1>2, <1>3, <1>4 DEF QueueSound
  <2> QED
    BY <1>4, <2>1 DEF RequestRecords
<1>6. reading = Idle
  BY <1>3, <1>4 DEF IInv, ReadingSound
<1>7. PICK again : again = IF Again(answer.id) = {} THEN <<>> ELSE <<answer.id>>
  OBVIOUS
<1>8. PICK rest : rest = Tail(requests)
  OBVIOUS
<1>9. /\ QueueSound(rest, n) /\ Len(rest) + 1 <= RequestLimit /\ Len(rest) \in Nat
      /\ Loading(rest) = Loading(requests) \ {answer.id}
  BY <1>2, <1>3, <1>4, <1>8, HeadTaken
<1>10. /\ again \in Seq(1..n) /\ Unrepeated(again) /\ ToSet(again) \cap Loading(rest) = {}
       /\ Len(again) \in Nat /\ Len(again) <= 1 /\ ToSet(again) = Again(answer.id)
       /\ First(again, Len(again)) = again
  <2>1. CASE Again(answer.id) = {}
    <3>1. again = <<>>
      BY <1>7, <2>1
    <3> QED
      BY <2>1, <3>1 DEF Unrepeated, ToSet, First
  <2>2. CASE Again(answer.id) # {}
    <3>1. again = <<answer.id>> /\ Again(answer.id) = {answer.id}
      BY <1>7, <2>2 DEF Again
    <3>2. ToSet(again) = {answer.id} /\ again \in Seq(1..n) /\ Len(again) = 1
      BY <1>5, <3>1 DEF ToSet
    <3>3. First(again, Len(again)) = again
      <4>1. First(again, 1) \in Seq(1..n) /\ Len(First(again, 1)) = 1
            /\ First(again, 1)[1] = answer.id
        BY <3>1, <3>2 DEF First
      <4> QED
        BY <3>1, <3>2, <4>1
    <3>4. Unrepeated(again)
      BY <3>1 DEF Unrepeated
    <3> QED
      BY <1>9, <3>1, <3>2, <3>3, <3>4
  <2> QED
    BY <2>1, <2>2
<1>11. PICK after : after = Extended(rest, again)
  OBVIOUS
<1>12. QueueSound(after, n) /\ Loading(after) = Loading(rest) \cup ToSet(again)
  <2>1. PICK k : k = Len(again)
    OBVIOUS
  <2>2. k \in 0..Len(again) /\ Len(rest) + k <= RequestLimit
    BY <1>9, <1>10, <2>1, LimitsAssumption
  <2>3. again = First(again, k)
    BY <1>10, <2>1
  <2>4. n \in Nat
    BY <1>2
  <2> QED
    BY <1>9, <1>10, <1>11, <2>2, <2>3, <2>4, LoadsBegin
<1>13. requests' = after
  BY <1>3, <1>7, <1>8, <1>11 DEF ReceiveEntries, Extended
<1>14. activeBranchLoads' = Loading(after)
  <2>1. activeBranchLoads' = activeBranchLoads \ ({answer.id} \ ToSet(again))
    BY <1>3, <1>7 DEF ReceiveEntries
  <2>2. ToSet(again) \subseteq Loading(requests) /\ ToSet(again) \subseteq {answer.id}
    BY <1>2, <1>10 DEF Again
  <2> QED
    BY <1>2, <1>9, <1>12, <2>1, <2>2
<1>15. pendingTree' \subseteq activeBranchLoads'
  <2>1. pendingTree' = pendingTree \ {answer.id}
    BY <1>3 DEF ReceiveEntries
  <2> QED
    BY <1>2, <1>9, <1>12, <1>14, <2>1
<1>16. ViewSound(cache.last)'
  <2>1. UNCHANGED <<cache, branches, opened, selected>>
    BY DEF ReceiveEntries, serverVars
  <2>2. DOMAIN pages' \subseteq 1..n /\ \A id \in DOMAIN pages' : pages'[id] \subseteq Paths \X (1..n)
    <3>1. \/ pages' = pages
          \/ pages' = With(pages, answer.id, answer.entries)
      BY <1>3 DEF ReceiveEntries
    <3> QED
      BY <1>2, <1>5, <3>1 DEF ViewSound, With
  <2>3. treeErrors' \subseteq 1..n
    <3>1. \/ treeErrors' = treeErrors \ {answer.id}
          \/ treeErrors' = treeErrors \cup {answer.id}
      BY <1>3 DEF ReceiveEntries
    <3> QED
      BY <1>2, <1>5, <3>1 DEF ViewSound
  <2>4. refreshing' \in Seq([id : 1..n, sent : BOOLEAN])
    <3>1. refreshing \in Seq([id : 1..n, sent : BOOLEAN])
      BY <1>2 DEF ViewSound
    <3>2. \/ refreshing' = refreshing
          \/ refreshing # <<>> /\ refreshing' = Tail(refreshing)
      BY DEF ReceiveEntries, AwaitedByRefresh
    <3>3. PICK S : S = [id : 1..n, sent : BOOLEAN]
      OBVIOUS
    <3>4. refreshing' \in Seq(S)
      BY <3>1, <3>2, <3>3
    <3> QED
      BY <3>3, <3>4
  <2> QED
    BY <1>1, <1>2, <2>1, <2>2, <2>3, <2>4 DEF ViewSound
<1> QED
  BY <1>1, <1>6, <1>12, <1>13, <1>14, <1>15, <1>16, ViewerStep DEF ReceiveEntries, serverVars

\* The answer to a request for content.
LEMMA ReceiveContentStep ==
  ASSUME IInv, ReceiveContent
  PROVE  IInv'
<1>1. PICK n : n = cache.last
  OBVIOUS
<1>2. /\ n \in Nat /\ QueueSound(requests, n) /\ activeBranchLoads = Loading(requests)
      /\ pendingTree \subseteq activeBranchLoads
  BY <1>1, LastTyped DEF IInv, LoadsSound
<1>3. requests # <<>> /\ Head(requests).kind = "content" /\ requests' = Tail(requests)
  BY DEF ReceiveContent
<1>4. QueueSound(requests', n) /\ Loading(requests') = Loading(requests)
  BY <1>2, <1>3, HeadTaken
<1>5. reading = Idle
  BY <1>3 DEF IInv, ReadingSound
<1>6. ViewSound(cache.last)'
  BY DEF IInv, ViewSound, ReceiveContent, serverVars
<1> QED
  BY <1>1, <1>2, <1>4, <1>5, <1>6, ViewerStep DEF ReceiveContent, serverVars

\* A selection, by the user or after a message: the loads of directories go on.
LEMMA SelectSound ==
  ASSUME IInv, NEW id \in 0..cache.last, Select(id)
  PROVE  /\ QueueSound(requests', cache.last) /\ Loading(requests') = Loading(requests)
         /\ requests # <<>> => requests' # <<>> /\ Head(requests') = Head(requests)
         /\ activeBranchLoads' = Loading(requests') /\ pendingTree' \subseteq activeBranchLoads'
<1>1. PICK n : n = cache.last
  OBVIOUS
<1>2. /\ n \in Nat /\ QueueSound(requests, n) /\ activeBranchLoads = Loading(requests)
      /\ pendingTree \subseteq activeBranchLoads
  BY <1>1, LastTyped DEF IInv, LoadsSound
<1>3. UNCHANGED <<activeBranchLoads, pendingTree>>
  BY DEF Select
<1>4. CASE requests' = requests
  BY <1>1, <1>2, <1>3, <1>4
<1>5. CASE requests' # requests
  <2>1. Len(requests) \in Nat /\ RequestLimit \in Nat
    BY <1>2, LimitsAssumption DEF QueueSound
  <2>2. PICK after : after = WithContent(requests, id)
    OBVIOUS
  <2>3. Len(requests) < RequestLimit /\ requests' = after
    BY <1>5, <2>1, <2>2 DEF Select, WithContent
  <2>4. /\ QueueSound(after, n) /\ Loading(after) = Loading(requests)
        /\ requests # <<>> => after # <<>> /\ Head(after) = Head(requests)
    <3>1. id \in 0..n
      BY <1>1
    <3> QED
      BY <1>2, <2>2, <2>3, <3>1, ContentAsked
  <2> QED
    BY <1>1, <1>2, <1>3, <2>3, <2>4
<1> QED
  BY <1>4, <1>5

\* A message of the companion.
LEMMA HandleStep ==
  ASSUME IInv, Handle
  PROVE  IInv'
<1>1. PICK n : n = cache.last
  OBVIOUS
<1>2. /\ n \in Nat \ {0} /\ QueueSound(requests, n) /\ activeBranchLoads = Loading(requests)
      /\ pendingTree \subseteq activeBranchLoads /\ ViewSound(n)
  BY <1>1, LastTyped DEF IInv, LoadsSound
<1>3. UNCHANGED <<diskVars, cache, branches, reading, opened>>
  BY DEF Handle, serverVars
<1>4. PICK message : message = Head(toViewer)
  OBVIOUS
<1>5. \/ TreeChanged(message.ids)
      \/ UNCHANGED <<loadVars, selected, refreshing>>
      \/ /\ \E order \in Orders(opened) : refreshing' = refreshing \o
                [i \in DOMAIN order |-> [id |-> order[i], sent |-> FALSE]]
         /\ UNCHANGED <<loadVars, selected>>
      \/ Select(selected) /\ UNCHANGED refreshing
  BY <1>4 DEF Handle
<1>6. CASE TreeChanged(message.ids)
  <2> DEFINE ids == message.ids \cap opened
  <2>1. PICK order \in Orders(ids \ activeBranchLoads) :
          /\ Begin(order, requests)
          /\ pendingTree' = pendingTree \cup (ids \cap activeBranchLoads)
          /\ UNCHANGED <<pages, selected, refreshing>>
    BY <1>6 DEF TreeChanged
  <2>2. ids \ activeBranchLoads \in SUBSET (1..n)
    BY <1>2 DEF ViewSound
  <2>3. /\ order \in Seq(1..n) /\ Unrepeated(order) /\ ToSet(order) = ids \ activeBranchLoads
    BY <1>2, <2>1, <2>2, OrdersOnto
  <2>4. /\ QueueSound(requests', n) /\ activeBranchLoads' = Loading(requests')
        /\ activeBranchLoads \subseteq activeBranchLoads'
        /\ treeErrors' \subseteq treeErrors \cup ToSet(order)
        /\ requests # <<>> => requests' # <<>> /\ Head(requests') = Head(requests)
    <3>1. n \in Nat /\ ToSet(order) \cap activeBranchLoads = {}
      BY <1>2, <2>3
    <3> QED
      BY <1>2, <2>1, <2>3, <3>1, BeginSound
  <2>5. pendingTree' \subseteq activeBranchLoads'
    BY <1>2, <2>1, <2>4
  <2>6. ViewSound(cache.last)'
    <3>1. treeErrors' \subseteq 1..n
      BY <1>2, <2>2, <2>3, <2>4 DEF ViewSound
    <3> QED
      BY <1>1, <1>2, <1>3, <2>1, <3>1 DEF ViewSound
  <2> QED
    BY <1>1, <1>3, <2>4, <2>5, <2>6, ViewerStep
<1>7. CASE UNCHANGED <<loadVars, selected, refreshing>>
  <2>1. ViewSound(cache.last)'
    BY <1>1, <1>2, <1>3, <1>7 DEF ViewSound, loadVars
  <2>2. UNCHANGED <<requests, activeBranchLoads, pendingTree>>
    BY <1>7 DEF loadVars
  <2> QED
    BY <1>1, <1>2, <1>3, <2>1, <2>2, ViewerStep
<1>8. CASE /\ \E order \in Orders(opened) : refreshing' = refreshing \o
                 [i \in DOMAIN order |-> [id |-> order[i], sent |-> FALSE]]
           /\ UNCHANGED <<loadVars, selected>>
  <2>1. PICK order \in Orders(opened) : refreshing' = refreshing \o
          [i \in DOMAIN order |-> [id |-> order[i], sent |-> FALSE]]
    BY <1>8
  <2>2. order \in Seq(1..n)
    <3>1. opened \in SUBSET (1..n) /\ n \in Nat
      BY <1>2 DEF ViewSound
    <3> QED
      BY <2>1, <3>1, OrdersOnto
  <2>3. PICK more : more = [i \in DOMAIN order |-> [id |-> order[i], sent |-> FALSE]]
    OBVIOUS
  <2>4. PICK S : S = [id : 1..n, sent : BOOLEAN]
    OBVIOUS
  <2>5. more \in Seq(S)
    <3>1. DOMAIN order = 1..Len(order) /\ Len(order) \in Nat
          /\ \A i \in 1..Len(order) : order[i] \in 1..n
      <4>1. ASSUME NEW T, NEW q \in Seq(T)
            PROVE  /\ DOMAIN q = 1..Len(q) /\ Len(q) \in Nat
                   /\ \A i \in 1..Len(q) : q[i] \in T
        OBVIOUS
      <4> QED
        BY <2>2, <4>1
    <3>2. more \in [1..Len(order) -> S]
      BY <2>3, <2>4, <3>1
    <3> QED
      BY <3>1, <3>2
  <2>6. refreshing' \in Seq(S)
    <3>1. refreshing \in Seq(S)
      BY <1>2, <2>4 DEF ViewSound
    <3> QED
      BY <2>1, <2>3, <2>5, <3>1
  <2>7. ViewSound(cache.last)'
    BY <1>1, <1>2, <1>3, <1>8, <2>4, <2>6 DEF ViewSound, loadVars
  <2>8. UNCHANGED <<requests, activeBranchLoads, pendingTree>>
    BY <1>8 DEF loadVars
  <2> QED
    BY <1>1, <1>2, <1>3, <2>7, <2>8, ViewerStep
<1>9. CASE Select(selected) /\ UNCHANGED refreshing
  <2>1. selected \in 0..cache.last
    BY <1>1, <1>2 DEF ViewSound
  <2>2. ViewSound(cache.last)'
    BY <1>1, <1>2, <1>3, <1>9 DEF ViewSound, Select
  <2> QED
    BY <1>3, <1>9, <2>1, <2>2, SelectSound, ViewerStep
<1> QED
  BY <1>5, <1>6, <1>7, <1>8, <1>9

\* A directory that a refresh loads.
LEMMA RefreshStep ==
  ASSUME IInv, Refresh
  PROVE  IInv'
<1>1. PICK n : n = cache.last
  OBVIOUS
<1>2. /\ n \in Nat \ {0} /\ QueueSound(requests, n) /\ activeBranchLoads = Loading(requests)
      /\ pendingTree \subseteq activeBranchLoads /\ ViewSound(n)
  BY <1>1, LastTyped DEF IInv, LoadsSound
<1>3. UNCHANGED <<diskVars, cache, branches, reading, opened, selected>>
  BY DEF Refresh, serverVars
<1>4. PICK id : id = Head(refreshing).id
  OBVIOUS
<1>5. PICK S : S = [id : 1..n, sent : BOOLEAN]
  OBVIOUS
<1>6. refreshing \in Seq(S) /\ refreshing # <<>> /\ Head(refreshing) \in S /\ id \in 1..n
  <2>1. refreshing \in Seq(S) /\ refreshing # <<>>
    BY <1>2, <1>5 DEF ViewSound, Refresh
  <2>2. Head(refreshing) \in S
    BY <2>1
  <2> QED
    BY <1>4, <1>5, <2>1, <2>2
<1>7. refreshing' \in Seq(S)
  <2>1. CASE refreshing' = Tail(refreshing)
    BY <1>6, <2>1
  <2>2. CASE refreshing' = [refreshing EXCEPT ![1].sent = TRUE]
    <3>1. PICK r \in S : r = Head(refreshing)
      BY <1>6
    <3>2. PICK q : q = [r EXCEPT !.sent = TRUE]
      OBVIOUS
    <3>3. q \in S
      BY <1>5, <3>1, <3>2
    <3>4. refreshing[1] = r
      BY <1>6, <3>1
    <3>5. refreshing' = [refreshing EXCEPT ![1] = q]
      BY <2>2, <3>2, <3>4
    <3> QED
      BY <1>6, <3>3, <3>5
  <2> QED
    BY <2>1, <2>2 DEF Refresh
<1>8. CASE UNCHANGED loadVars
  <2>1. ViewSound(cache.last)'
    BY <1>1, <1>2, <1>3, <1>5, <1>7, <1>8 DEF ViewSound, loadVars
  <2>2. UNCHANGED <<requests, activeBranchLoads, pendingTree>>
    BY <1>8 DEF loadVars
  <2> QED
    BY <1>1, <1>2, <1>3, <2>1, <2>2, ViewerStep
<1>9. CASE ~UNCHANGED loadVars
  <2>1. id \notin activeBranchLoads /\ Begin(<<id>>, requests) /\ UNCHANGED <<pages, pendingTree>>
    BY <1>4, <1>9 DEF Refresh
  <2>2. n \in Nat
    BY <1>2
  <2>3. /\ QueueSound(requests', n) /\ activeBranchLoads' = Loading(requests')
        /\ activeBranchLoads \subseteq activeBranchLoads'
        /\ treeErrors' \subseteq treeErrors \cup {id}
        /\ requests # <<>> => requests' # <<>> /\ Head(requests') = Head(requests)
    BY <1>2, <1>6, <2>1, <2>2, BeginOneSound
  <2>4. ViewSound(cache.last)'
    <3>1. treeErrors' \subseteq 1..n
      BY <1>2, <1>6, <2>3 DEF ViewSound
    <3> QED
      BY <1>1, <1>2, <1>3, <1>5, <1>7, <2>1, <3>1 DEF ViewSound
  <2>5. pendingTree' \subseteq activeBranchLoads'
    BY <1>2, <2>1, <2>3
  <2> QED
    BY <1>1, <1>3, <2>3, <2>4, <2>5, ViewerStep
<1> QED
  BY <1>8, <1>9

\* A directory folded or unfolded.
LEMMA ToggleStep ==
  ASSUME IInv, Toggle
  PROVE  IInv'
<1>1. PICK n : n = cache.last
  OBVIOUS
<1>2. /\ n \in Nat \ {0} /\ QueueSound(requests, n) /\ activeBranchLoads = Loading(requests)
      /\ pendingTree \subseteq activeBranchLoads /\ ViewSound(n)
  BY <1>1, LastTyped DEF IInv, LoadsSound
<1>3. UNCHANGED <<diskVars, cache, branches, reading, selected, refreshing>>
  BY DEF Toggle, serverVars
<1>4. PICK e \in Shown :
        /\ opened' = IF e[2] \in opened THEN opened \ {e[2]} ELSE opened \cup {e[2]}
        /\ IF e[2] \in opened \cup activeBranchLoads THEN UNCHANGED loadVars
           ELSE Begin(<<e[2]>>, requests) /\ UNCHANGED <<pages, pendingTree>>
  BY DEF Toggle
<1>5. PICK id : id = e[2]
  OBVIOUS
<1>6. id \in 1..n
  BY <1>2, <1>5 DEF Shown, ViewSound
<1>7. opened' \subseteq 1..n
  BY <1>2, <1>4, <1>5, <1>6 DEF ViewSound
<1>8. CASE UNCHANGED loadVars
  <2>1. ViewSound(cache.last)'
    BY <1>1, <1>2, <1>3, <1>7, <1>8 DEF ViewSound, loadVars
  <2>2. UNCHANGED <<requests, activeBranchLoads, pendingTree>>
    BY <1>8 DEF loadVars
  <2> QED
    BY <1>1, <1>2, <1>3, <2>1, <2>2, ViewerStep
<1>9. CASE ~UNCHANGED loadVars
  <2>1. id \notin activeBranchLoads /\ Begin(<<id>>, requests) /\ UNCHANGED <<pages, pendingTree>>
    BY <1>4, <1>5, <1>9
  <2>2. n \in Nat
    BY <1>2
  <2>3. /\ QueueSound(requests', n) /\ activeBranchLoads' = Loading(requests')
        /\ activeBranchLoads \subseteq activeBranchLoads'
        /\ treeErrors' \subseteq treeErrors \cup {id}
        /\ requests # <<>> => requests' # <<>> /\ Head(requests') = Head(requests)
    BY <1>2, <1>6, <2>1, <2>2, BeginOneSound
  <2>4. ViewSound(cache.last)'
    <3>1. treeErrors' \subseteq 1..n
      BY <1>2, <1>6, <2>3 DEF ViewSound
    <3> QED
      BY <1>1, <1>2, <1>3, <1>7, <2>1, <3>1 DEF ViewSound
  <2>5. pendingTree' \subseteq activeBranchLoads'
    BY <1>2, <2>1, <2>3
  <2> QED
    BY <1>1, <1>3, <2>3, <2>4, <2>5, ViewerStep
<1> QED
  BY <1>8, <1>9

\* A directory that could not be loaded, asked for again.
LEMMA RetryStep ==
  ASSUME IInv, Retry
  PROVE  IInv'
<1>1. PICK n : n = cache.last
  OBVIOUS
<1>2. /\ n \in Nat \ {0} /\ QueueSound(requests, n) /\ activeBranchLoads = Loading(requests)
      /\ pendingTree \subseteq activeBranchLoads /\ ViewSound(n)
  BY <1>1, LastTyped DEF IInv, LoadsSound
<1>3. UNCHANGED <<diskVars, cache, branches, reading, opened, selected, refreshing, pages, pendingTree>>
  BY DEF Retry, serverVars
<1>4. PICK id \in opened : id \notin activeBranchLoads /\ Begin(<<id>>, requests)
  BY DEF Retry
<1>5. id \in 1..n /\ n \in Nat
  BY <1>2 DEF ViewSound
<1>6. /\ QueueSound(requests', n) /\ activeBranchLoads' = Loading(requests')
      /\ activeBranchLoads \subseteq activeBranchLoads'
      /\ treeErrors' \subseteq treeErrors \cup {id}
      /\ requests # <<>> => requests' # <<>> /\ Head(requests') = Head(requests)
  BY <1>2, <1>4, <1>5, BeginOneSound
<1>7. ViewSound(cache.last)'
  <2>1. treeErrors' \subseteq 1..n
    BY <1>2, <1>5, <1>6 DEF ViewSound
  <2> QED
    BY <1>1, <1>2, <1>3, <2>1 DEF ViewSound
<1>8. pendingTree' \subseteq activeBranchLoads'
  BY <1>2, <1>3, <1>6
<1> QED
  BY <1>1, <1>3, <1>6, <1>7, <1>8, ViewerStep

\* A file is selected.
LEMMA SelectFileStep ==
  ASSUME IInv, SelectFile
  PROVE  IInv'
<1>1. PICK n : n = cache.last
  OBVIOUS
<1>2. n \in Nat \ {0} /\ ViewSound(n)
  BY <1>1, LastTyped DEF IInv
<1>3. UNCHANGED <<diskVars, cache, branches, reading, opened, refreshing>>
  BY DEF SelectFile, serverVars
<1>4. PICK e \in Shown : Select(e[2])
  BY DEF SelectFile
<1>5. PICK id : id = e[2]
  OBVIOUS
<1>6. id \in 1..n
  BY <1>2, <1>5 DEF Shown, ViewSound
<1>7. id \in 0..cache.last /\ Select(id)
  BY <1>1, <1>2, <1>4, <1>5, <1>6
<1>8. ViewSound(cache.last)'
  <2>1. UNCHANGED <<pages, treeErrors>> /\ selected' = id
    BY <1>7 DEF Select
  <2> QED
    BY <1>1, <1>2, <1>3, <1>7, <2>1 DEF ViewSound
<1> QED
  BY <1>3, <1>7, <1>8, SelectSound, ViewerStep

\* The socket: cut, then connected again.
LEMMA SocketStep ==
  ASSUME IInv, Cut \/ Connect \/ EndFlow
  PROVE  IInv'
<1>1. UNCHANGED <<diskVars, cache, loadVars, viewerVars, reading>>
  BY DEF Cut, Connect, EndFlow, serverVars
<1>2. DOMAIN branches' \subseteq 1..cache.last
  BY DEF IInv, ViewSound, Cut, Connect, EndFlow, serverVars
<1> QED
  BY <1>1, <1>2, SameIdentifiers DEF IInv

\* A look of a flow at the selected file and at the observed directories.
Looks == \E due, heard \in BOOLEAN : Watch(due, heard)

\* The looks of the flow of the socket, and of one that outlives its own.
LEMMA PollLooks ==
  ASSUME NEW due \in BOOLEAN
  PROVE  (Poll(due) => Looks) /\ (PollUnheard(due) => Looks)
<1>1. Poll(due) => Watch(due, TRUE)
  BY DEF Poll
<1>2. PollUnheard(due) => Watch(due, FALSE)
  BY DEF PollUnheard
<1> QED
  BY <1>1, <1>2 DEF Looks

\* What a step is.
LEMMA NextIs ==
  ASSUME [Next]_vars
  PROVE  \/ Disk \/ User \/ BeginEntries \/ EndEntries \/ ServeContent \/ Apply \/ Looks
         \/ EndFlow \/ ReceiveEntries \/ ReceiveContent \/ Handle \/ Refresh \/ Connect \/ Cut
         \/ UNCHANGED vars
BY PollLooks DEF Next, System

\* Every step keeps the invariant.
LEMMA NextIInv == IInv /\ [Next]_vars => IInv'
<1> SUFFICES ASSUME IInv, [Next]_vars PROVE IInv'
  OBVIOUS
<1>1. CASE Disk
  BY <1>1, DiskStep
<1>2. CASE User
  BY <1>2, ToggleStep, SelectFileStep, RetryStep DEF User
<1>3. CASE BeginEntries \/ EndEntries \/ ServeContent
  BY <1>3, BeginEntriesStep, EndEntriesStep, ServeContentStep
<1>4. CASE Apply \/ Looks
  BY <1>4, ApplyStep, PollStep DEF Looks
<1>5. CASE ReceiveEntries \/ ReceiveContent \/ Handle \/ Refresh
  BY <1>5, ReceiveEntriesStep, ReceiveContentStep, HandleStep, RefreshStep
<1>6. CASE Connect \/ Cut \/ EndFlow
  BY <1>6, SocketStep
<1>7. CASE UNCHANGED vars
  <2>1. UNCHANGED <<diskVars, cache, branches, loadVars, viewerVars, reading>>
    BY <1>7 DEF vars, serverVars
  <2>2. DOMAIN branches' \subseteq 1..cache.last
    BY <2>1 DEF IInv, ViewSound
  <2> QED
    BY <2>1, <2>2, SameIdentifiers DEF IInv
<1> QED
  BY <1>1, <1>2, <1>3, <1>4, <1>5, <1>6, <1>7, NextIs

\* The invariant holds in every state.
THEOREM IInvHolds == Spec => []IInv
<1> QED
  BY InitIInv, NextIInv, PTL DEF Spec

\* Types of the variables, the limits of the cache and of the queue among them: however
\* many files come, go and are renamed, at most NodeLimit identifiers are held, and an
\* identifier has a place in the order of eviction exactly when it has a node.
THEOREM TypeCorrect == Spec => []TypeOK
<1> QED
  BY IInvHolds, IInvImplies, PTL

\* The index by path never names an identifier that the companion no longer holds, or
\* that stands for another path (`remember` expects "ID index matches nodes", files.rs:231).
THEOREM IndexAgrees == Spec => []IndexMatchesNodes
<1> QED
  BY IInvHolds, IInvImplies, PTL
-----------------------------------------------------------------------------
(* Identifiers of directories *)

\* A directory has one identifier at most, the one the index gives.
DirectoriesIndexed(c) ==
    /\ c.nodes[TopId] = Top
    /\ \A id \in DOMAIN c.nodes :
          IsDirectory(c.nodes[id]) =>
              c.nodes[id] \in DOMAIN c.ids /\ c.ids[c.nodes[id]] = id

\* From c to d: an identifier that is evicted does not come back, and one of a directory
\* stays with it.
Later(c, d) ==
    /\ c.last <= d.last
    /\ \A id \in 1..c.last : Known(d, id) =>
          /\ Known(c, id)
          /\ IsDirectory(c.nodes[id]) \/ IsDirectory(d.nodes[id]) => d.nodes[id] = c.nodes[id]

\* No time has passed, or as much as the two parts.
LEMMA LaterSame ==
  ASSUME NEW c, CacheTyped(c), NEW d, d.last = c.last, d.nodes = c.nodes
  PROVE  Later(c, d)
<1>1. c.last \in Nat
  BY DEF CacheTyped
<1> QED
  BY <1>1 DEF Later, Known

\* What has gone by two steps has not come back.
LEMMA LaterTransitive ==
  ASSUME NEW c, NEW d, NEW e, c.last \in Nat, d.last \in Nat, e.last \in Nat,
         Later(c, d), Later(d, e)
  PROVE  Later(c, e)
<1>1. c.last <= e.last /\ 1..c.last \subseteq 1..d.last
  BY DEF Later
<1>2. ASSUME NEW id \in 1..c.last, Known(e, id)
      PROVE  /\ Known(c, id)
             /\ IsDirectory(c.nodes[id]) \/ IsDirectory(e.nodes[id]) => e.nodes[id] = c.nodes[id]
  <2>1. Known(d, id) /\ Known(c, id)
    BY <1>1, <1>2 DEF Later
  <2>2. IsDirectory(d.nodes[id]) \/ IsDirectory(e.nodes[id]) => e.nodes[id] = d.nodes[id]
    BY <1>1, <1>2 DEF Later
  <2>3. IsDirectory(c.nodes[id]) \/ IsDirectory(d.nodes[id]) => d.nodes[id] = c.nodes[id]
    BY <1>1, <1>2, <2>1 DEF Later
  <2> QED
    BY <2>1, <2>2, <2>3
<1> QED
  BY <1>1, <1>2 DEF Later

\* The root keeps its identifier.
LEMMA TopStays ==
  ASSUME NEW c, CacheSound(c), c.nodes[TopId] = Top, NEW d, CacheSound(d), Later(c, d)
  PROVE  d.nodes[TopId] = Top /\ TopId \in DOMAIN d.nodes
<1>1. TopId \in 1..c.last
  BY DEF CacheSound, CacheTyped, TopId
<1>2. Known(d, TopId)
  BY DEF CacheSound, OrderSound, Known
<1> QED
  BY <1>1, <1>2 DEF Later, IsDirectory, Known

\* Neither of the names that a file has is one of a directory.
LEMMA FilesApart == ~IsDirectory(Active) /\ ~IsDirectory(Final) /\ ~IsDirectory(Inner)
                    /\ Top # Directory
BY PathsAssumption DEF IsDirectory

\* A renaming leaves the directories alone.
LEMMA RelocatedLater ==
  ASSUME NEW c, CacheSound(c), DirectoriesIndexed(c), NEW id \in DOMAIN c.nodes,
         c.nodes[id] = Active
  PROVE  Later(c, Relocated(c, id)) /\ DirectoriesIndexed(Relocated(c, id))
<1> DEFINE nodes == [c.nodes EXCEPT ![id] = Final]
           ids == With(Without(c.ids, {Active}), Final, id)
<1>1. PICK d : d = Relocated(c, id)
  OBVIOUS
<1>2. d.nodes = nodes /\ d.ids = ids /\ d.last = c.last
  <2>1. d = [c EXCEPT !.nodes = nodes, !.ids = ids]
    BY <1>1 DEF Relocated
  <2>2. d = [nodes |-> nodes, ids |-> ids, order |-> c.order,
             generations |-> c.generations, last |-> c.last]
    BY <2>1, RelocationFields DEF CacheSound
  <2> HIDE DEF nodes, ids
  <2> QED
    BY <2>2
<1>3. CacheSound(d)
  BY <1>1, RelocatedSound
<1>4. ASSUME NEW i \in DOMAIN c.nodes
      PROVE  IsDirectory(c.nodes[i]) \/ IsDirectory(nodes[i]) => nodes[i] = c.nodes[i]
  BY FilesApart DEF CacheSound, CacheTyped
<1>5. DOMAIN nodes = DOMAIN c.nodes /\ c.last \in Nat
  BY DEF CacheSound, CacheTyped
<1>6. ASSUME NEW p \in DOMAIN c.ids, IsDirectory(p)
      PROVE  p \in DOMAIN ids /\ ids[p] = c.ids[p]
  BY <1>6, FilesApart DEF With, Without
<1> HIDE DEF nodes, ids
<1>7. Later(c, d)
  BY <1>2, <1>4, <1>5 DEF Later, Known
<1>8. ASSUME NEW i \in DOMAIN d.nodes, IsDirectory(d.nodes[i])
      PROVE  d.nodes[i] \in DOMAIN d.ids /\ d.ids[d.nodes[i]] = i
  BY <1>2, <1>4, <1>5, <1>6, <1>8 DEF DirectoriesIndexed
<1>9. DirectoriesIndexed(d)
  BY <1>3, <1>7, <1>8, TopStays DEF DirectoriesIndexed
<1> QED
  BY <1>1, <1>7, <1>9

\* Nor does the search for one.
LEMMA RelocateLater ==
  ASSUME NEW c, CacheSound(c), DirectoriesIndexed(c), NEW candidates
  PROVE  Later(c, Relocate(c, candidates)) /\ DirectoriesIndexed(Relocate(c, candidates))
<1> DEFINE moved == {id \in candidates : Moved(c, id)}
<1>1. CASE moved = {}
  BY <1>1, LaterSame DEF Relocate, CacheSound
<1>2. CASE moved # {}
  <2> DEFINE id == CHOOSE i \in moved : TRUE
  <2>1. id \in moved
    BY <1>2
  <2>2. id \in DOMAIN c.nodes /\ c.nodes[id] = Active
    BY <2>1 DEF Moved, Known
  <2>3. Relocate(c, candidates) = Relocated(c, id)
    BY <1>2 DEF Relocate
  <2> HIDE DEF id
  <2> QED
    BY <2>2, <2>3, RelocatedLater
<1> QED
  BY <1>1, <1>2

\* A read leaves identifiers and index alone.
LEMMA ReadLater ==
  ASSUME NEW c, CacheSound(c), DirectoriesIndexed(c), NEW id, NEW file,
         NEW d, d = [c EXCEPT !.generations = With(c.generations, id, file)]
  PROVE  Later(c, d) /\ DirectoriesIndexed(d)
<1> DEFINE g == With(c.generations, id, file)
<1>1. CacheTyped(c)
  BY DEF CacheSound
<1>2. d = [nodes |-> c.nodes, ids |-> c.ids, order |-> c.order,
           generations |-> g, last |-> c.last]
  BY <1>1, GenerationFields
<1> HIDE DEF g
<1>3. d.nodes = c.nodes /\ d.ids = c.ids /\ d.last = c.last
  BY <1>2
<1> QED
  BY <1>1, <1>3, LaterSame DEF DirectoriesIndexed

\* The path of the identifier that is evicted leaves the index, and no other directory.
LEMMA RoomLater ==
  ASSUME NEW c, CacheSound(c), DirectoriesIndexed(c)
  PROVE  Later(c, Room(c)) /\ DirectoriesIndexed(Room(c)) /\ DOMAIN Room(c).ids \subseteq DOMAIN c.ids
<1>1. PICK d : d = Room(c)
  OBVIOUS
<1>2. CASE d = c
  BY <1>1, <1>2, LaterSame DEF CacheSound
<1>3. CASE d # c
  <2>1. PICK id : id = Head(c.order)
    OBVIOUS
  <2>2. PICK nodes : nodes = Without(c.nodes, {id})
    OBVIOUS
  <2>3. PICK ids : ids = Without(c.ids, {c.nodes[id]})
    OBVIOUS
  <2>4. d = Evicted(c) /\ c.order # <<>>
    BY <1>1, <1>3 DEF Room
  <2>5. d.nodes = nodes /\ d.ids = ids /\ d.last = c.last
    BY <2>1, <2>2, <2>3, <2>4 DEF Evicted
  <2>6. id \in DOMAIN c.nodes
    <3>1. id = c.order[1] /\ 1 \in DOMAIN c.order
      BY <2>1, <2>4 DEF CacheSound, CacheTyped
    <3> QED
      BY <3>1 DEF CacheSound, OrderSound
  <2>7. /\ DOMAIN nodes = DOMAIN c.nodes \ {id} /\ \A i \in DOMAIN nodes : nodes[i] = c.nodes[i]
        /\ DOMAIN ids = DOMAIN c.ids \ {c.nodes[id]} /\ \A p \in DOMAIN ids : ids[p] = c.ids[p]
    BY <2>2, <2>3 DEF Without
  <2>8. c.last \in Nat
    BY DEF CacheSound, CacheTyped
  <2>9. Later(c, d)
    BY <2>5, <2>7, <2>8 DEF Later, Known
  <2>10. ASSUME NEW i \in DOMAIN d.nodes, IsDirectory(d.nodes[i])
         PROVE  d.nodes[i] \in DOMAIN d.ids /\ d.ids[d.nodes[i]] = i
    <3>1. PICK p : p = c.nodes[i]
      OBVIOUS
    <3>2. d.nodes[i] = p /\ i # id /\ i \in DOMAIN c.nodes /\ IsDirectory(p)
      BY <2>5, <2>7, <2>10, <3>1
    <3>3. p \in DOMAIN c.ids /\ c.ids[p] = i
      BY <3>1, <3>2 DEF DirectoriesIndexed
    <3>4. p # c.nodes[id]
      BY <2>6, <3>2, <3>3 DEF DirectoriesIndexed
    <3> QED
      BY <2>5, <2>7, <3>2, <3>3, <3>4
  <2>11. CacheSound(d)
    BY <1>1, RoomSound
  <2>12. DirectoriesIndexed(d)
    BY <2>9, <2>10, <2>11, TopStays DEF DirectoriesIndexed
  <2> QED
    BY <1>1, <2>5, <2>7, <2>9, <2>12
<1> QED
  BY <1>2, <1>3

\* What is remembered has an identifier that stands for it.
LEMMA RememberLater ==
  ASSUME NEW c, CacheSound(c), DirectoriesIndexed(c), NEW p \in Paths, NEW e, e = Remember(c, p)
  PROVE  /\ Later(c, e) /\ DirectoriesIndexed(e) /\ CacheSound(e)
         /\ p \in DOMAIN e.ids /\ e.ids[p] \in 1..e.last
         /\ e.ids[p] \in DOMAIN e.nodes /\ e.nodes[e.ids[p]] = p
<1>0. CacheSound(e) /\ p \in DOMAIN e.ids /\ c.last \in Nat
  BY RememberSound DEF CacheSound, CacheTyped
<1>1. e.ids[p] \in 1..e.last /\ e.ids[p] \in DOMAIN e.nodes /\ e.nodes[e.ids[p]] = p
  BY <1>0 DEF CacheSound, CacheTyped, IndexSound
<1>2. CASE p \in DOMAIN c.ids
  <2>1. e = c
    BY <1>2 DEF Remember
  <2> QED
    BY <1>0, <1>1, <2>1, LaterSame DEF CacheSound
<1>3. CASE p \notin DOMAIN c.ids
  <2>1. PICK room : room = Room(c)
    OBVIOUS
  <2>2. PICK id : id = c.last + 1
    OBVIOUS
  <2>3. /\ Later(c, room) /\ DirectoriesIndexed(room) /\ p \notin DOMAIN room.ids
        /\ CacheSound(room) /\ room.last = c.last
    BY <1>3, <2>1, RoomLater, RoomSound
  <2>4. e.nodes = With(room.nodes, id, p) /\ e.ids = With(room.ids, p, id) /\ e.last = id
    BY <1>3, <2>1, <2>2 DEF Remember
  <2>5. /\ DOMAIN e.nodes = DOMAIN room.nodes \cup {id} /\ e.nodes[id] = p
        /\ \A i \in DOMAIN room.nodes : i # id => e.nodes[i] = room.nodes[i]
        /\ DOMAIN e.ids = DOMAIN room.ids \cup {p} /\ e.ids[p] = id
        /\ \A q \in DOMAIN room.ids : q # p => e.ids[q] = room.ids[q]
    BY <2>4 DEF With
  <2>6. id \notin DOMAIN room.nodes /\ id \notin 1..room.last /\ room.last <= id /\ id \in Nat
    BY <1>0, <2>2, <2>3 DEF CacheSound, CacheTyped
  <2>7. Later(room, e)
    <3>1. ASSUME NEW i \in 1..room.last, Known(e, i)
          PROVE  Known(room, i) /\ e.nodes[i] = room.nodes[i]
      BY <2>5, <2>6, <3>1 DEF Known
    <3> QED
      BY <2>4, <2>6, <3>1 DEF Later
  <2>8. Later(c, e)
    BY <1>0, <2>3, <2>4, <2>6, <2>7, LaterTransitive
  <2>9. ASSUME NEW i \in DOMAIN e.nodes, IsDirectory(e.nodes[i])
        PROVE  e.nodes[i] \in DOMAIN e.ids /\ e.ids[e.nodes[i]] = i
    <3>1. CASE i = id
      BY <2>5, <3>1
    <3>2. CASE i # id
      <4>1. i \in DOMAIN room.nodes /\ e.nodes[i] = room.nodes[i]
        BY <2>5, <3>2
      <4>2. room.nodes[i] \in DOMAIN room.ids /\ room.ids[room.nodes[i]] = i
        BY <2>3, <2>9, <4>1 DEF DirectoriesIndexed
      <4> QED
        BY <2>3, <2>5, <4>1, <4>2
    <3> QED
      BY <3>1, <3>2
  <2>10. DirectoriesIndexed(e)
    BY <1>0, <2>8, <2>9, TopStays DEF DirectoriesIndexed
  <2> QED
    BY <1>0, <1>1, <2>8, <2>10
<1> QED
  BY <1>2, <1>3

\* A page that is sound, made from the cache c.
PageLater(c, page) ==
    PageSound(page) /\ Later(c, page.cache) /\ DirectoriesIndexed(page.cache)
\* The paths on a page.
Listing(entries) == {e[1] : e \in entries}

\* An entry more: its path, with an identifier that stands for it.
LEMMA EntryLater ==
  ASSUME NEW c, c.last \in Nat, NEW page, PageLater(c, page), NEW p \in Paths,
         NEW after, after = Entry(page, p)
  PROVE  /\ PageLater(c, after) /\ Later(page.cache, after.cache)
         /\ \E id : /\ after.entries = page.entries \cup {<<p, id>>} /\ id \in 1..after.cache.last
                    /\ Known(after.cache, id) /\ after.cache.nodes[id] = p
                    /\ p \in DOMAIN page.cache.ids => id = page.cache.ids[p]
<1>1. PICK d : d = page.cache
  OBVIOUS
<1>2. CacheSound(d) /\ DirectoriesIndexed(d) /\ Later(c, d) /\ d.last \in Nat
  BY <1>1 DEF PageLater, PageSound, CacheSound, CacheTyped
<1>3. PICK e : e = Remember(d, p)
  OBVIOUS
<1>4. /\ Later(d, e) /\ DirectoriesIndexed(e) /\ CacheSound(e) /\ e.last \in Nat
      /\ p \in DOMAIN e.ids /\ e.ids[p] \in 1..e.last
      /\ e.ids[p] \in DOMAIN e.nodes /\ e.nodes[e.ids[p]] = p
  <2>1. /\ Later(d, e) /\ DirectoriesIndexed(e) /\ CacheSound(e)
        /\ p \in DOMAIN e.ids /\ e.ids[p] \in 1..e.last
        /\ e.ids[p] \in DOMAIN e.nodes /\ e.nodes[e.ids[p]] = p
    BY <1>2, <1>3, RememberLater
  <2> QED
    BY <2>1 DEF CacheSound, CacheTyped
<1>5. after = [cache |-> e, entries |-> page.entries \cup {<<p, e.ids[p]>>}]
  BY <1>1, <1>3 DEF Entry
<1>6. after.cache = e /\ after.entries = page.entries \cup {<<p, e.ids[p]>>}
  BY <1>5
<1>7. PageSound(after)
  BY EntrySound DEF PageLater
<1>8. Later(c, e)
  BY <1>2, <1>4, LaterTransitive
<1>9. p \in DOMAIN d.ids => e.ids[p] = d.ids[p]
  BY <1>3 DEF Remember
<1> QED
  BY <1>1, <1>4, <1>6, <1>7, <1>8, <1>9 DEF PageLater, Known

\* The second page has the directories of the first one, and no other.
SameDirectories(page, after) ==
    /\ page.entries \subseteq after.entries
    /\ \A e \in after.entries : IsDirectory(e[1]) => e \in page.entries

\* A file more or not: the directories on the page are the same.
LEMMA FileListed ==
  ASSUME NEW c, c.last \in Nat, NEW page, PageLater(c, page), NEW names,
         NEW p \in Paths, ~IsDirectory(p), NEW after, after = Lengthened(page, names, p)
  PROVE  /\ PageLater(c, after) /\ Later(page.cache, after.cache)
         /\ SameDirectories(page, after)
         /\ Listing(after.entries) = Listing(page.entries) \cup ({p} \cap names)
<1>1. CASE p \notin names
  <2>1. after = page
    BY <1>1 DEF Lengthened
  <2>2. Later(page.cache, page.cache)
    BY LaterSame DEF PageLater, PageSound, CacheSound
  <2> QED
    BY <1>1, <2>1, <2>2 DEF Listing, SameDirectories
<1>2. CASE p \in names
  <2>1. after = Entry(page, p)
    BY <1>2 DEF Lengthened
  <2>2. PageLater(c, after) /\ Later(page.cache, after.cache)
    BY <2>1, EntryLater
  <2>3. PICK id : /\ after.entries = page.entries \cup {<<p, id>>} /\ id \in 1..after.cache.last
                  /\ Known(after.cache, id) /\ after.cache.nodes[id] = p
                  /\ p \in DOMAIN page.cache.ids => id = page.cache.ids[p]
    <3> HIDE DEF Known
    <3> QED
      BY <2>1, EntryLater
  <2>4. <<p, id>>[1] = p
    OBVIOUS
  <2> QED
    BY <1>2, <2>2, <2>3, <2>4 DEF Listing, SameDirectories
<1> QED
  BY <1>1, <1>2

\* Its directories are the one below the root; it has one directory at most.
BelowRoot(page) ==
    \A e \in page.entries : IsDirectory(e[1]) =>
        e[1] = Directory /\ (Known(page.cache, e[2]) => page.cache.nodes[e[2]] = Directory)
OneDirectory(entries) ==
    \A e, f \in entries : IsDirectory(e[1]) /\ IsDirectory(f[1]) => e = f

\* A listing: the paths asked for; of the directories, none but the one below the root,
\* with the identifier that it has.
LEMMA ListedLater ==
  ASSUME NEW c, CacheSound(c), DirectoriesIndexed(c), NEW names, names \subseteq ToSet(Names),
         NEW page, page = Listed(c, names)
  PROVE  /\ PageLater(c, page) /\ Listing(page.entries) = names
         /\ BelowRoot(page) /\ OneDirectory(page.entries)
         /\ Directory \in names /\ Directory \in DOMAIN c.ids
               => <<Directory, c.ids[Directory]>> \in page.entries
<1>1. PICK p0, p1, p2, p3, p4 :
        /\ p0 = [cache |-> c, entries |-> {}]
        /\ p1 = Lengthened(p0, names, Directory) /\ p2 = Lengthened(p1, names, Final)
        /\ p3 = Lengthened(p2, names, Active) /\ p4 = Lengthened(p3, names, Inner)
        /\ page = p4
  BY ListedUnfolds
<1>2. Directory \in Paths /\ Final \in Paths /\ Active \in Paths /\ Inner \in Paths
      /\ ToSet(Names) = {Directory, Final, Active, Inner}
  BY DEF Names, Paths, ToSet
<1>3. c.last \in Nat
  BY DEF CacheSound, CacheTyped
<1>4. PageLater(c, p0) /\ p0.cache = c /\ p0.entries = {}
  BY <1>1, LaterSame DEF PageLater, PageSound, CacheSound
<1>5. /\ PageLater(c, p1)
      /\ \E id : /\ p1.entries = IF Directory \in names THEN {<<Directory, id>>} ELSE {}
                 /\ Directory \in names => id \in 1..p1.cache.last /\ p1.cache.nodes[id] = Directory
                 /\ Directory \in names /\ Directory \in DOMAIN c.ids => id = c.ids[Directory]
  <2>1. CASE Directory \notin names
    BY <1>1, <1>4, <2>1 DEF Lengthened
  <2>2. CASE Directory \in names
    <3>1. p1 = Entry(p0, Directory)
      BY <1>1, <2>2 DEF Lengthened
    <3>2. PageLater(c, p1)
      BY <1>2, <1>3, <1>4, <3>1, EntryLater
    <3>3. PICK id : /\ p1.entries = p0.entries \cup {<<Directory, id>>} /\ id \in 1..p1.cache.last
                    /\ Known(p1.cache, id) /\ p1.cache.nodes[id] = Directory
                    /\ Directory \in DOMAIN p0.cache.ids => id = p0.cache.ids[Directory]
      <4>1. Directory \in Paths /\ PageLater(c, p0)
        BY <1>2, <1>4
      <4> HIDE DEF Known
      <4> QED
        BY <1>3, <3>1, <4>1, EntryLater
    <3> QED
      BY <1>4, <2>2, <3>2, <3>3
  <2> QED
    BY <2>1, <2>2
<1>6. PICK id : /\ p1.entries = IF Directory \in names THEN {<<Directory, id>>} ELSE {}
                /\ Directory \in names => id \in 1..p1.cache.last /\ p1.cache.nodes[id] = Directory
                /\ Directory \in names /\ Directory \in DOMAIN c.ids => id = c.ids[Directory]
  BY <1>5
<1>7. /\ PageLater(c, p2) /\ Later(p1.cache, p2.cache) /\ SameDirectories(p1, p2)
      /\ Listing(p2.entries) = Listing(p1.entries) \cup ({Final} \cap names)
  <2>1. p2 = Lengthened(p1, names, Final) /\ Final \in Paths /\ ~IsDirectory(Final)
    BY <1>1, <1>2, FilesApart
  <2>2. PageLater(c, p1)
    BY <1>5
  <2> QED
    BY <1>3, <2>1, <2>2, FileListed
<1>8. /\ PageLater(c, p3) /\ Later(p2.cache, p3.cache) /\ SameDirectories(p2, p3)
      /\ Listing(p3.entries) = Listing(p2.entries) \cup ({Active} \cap names)
  <2>1. p3 = Lengthened(p2, names, Active) /\ Active \in Paths /\ ~IsDirectory(Active)
    BY <1>1, <1>2, FilesApart
  <2>2. PageLater(c, p2)
    BY <1>7
  <2> QED
    BY <1>3, <2>1, <2>2, FileListed
<1>9. /\ PageLater(c, p4) /\ Later(p3.cache, p4.cache) /\ SameDirectories(p3, p4)
      /\ Listing(p4.entries) = Listing(p3.entries) \cup ({Inner} \cap names)
  <2>1. p4 = Lengthened(p3, names, Inner) /\ Inner \in Paths /\ ~IsDirectory(Inner)
    BY <1>1, <1>2, FilesApart
  <2>2. PageLater(c, p3)
    BY <1>8
  <2> QED
    BY <1>3, <2>1, <2>2, FileListed
<1>10. Later(p1.cache, p4.cache)
  <2>1. p1.cache.last \in Nat /\ p2.cache.last \in Nat /\ p3.cache.last \in Nat
        /\ p4.cache.last \in Nat
    BY <1>5, <1>7, <1>8, <1>9 DEF PageLater, PageSound, CacheSound, CacheTyped
  <2>2. Later(p1.cache, p3.cache)
    BY <1>7, <1>8, <2>1, LaterTransitive
  <2> QED
    BY <1>9, <2>1, <2>2, LaterTransitive
<1>11. ASSUME NEW e \in p4.entries, IsDirectory(e[1])
       PROVE  Directory \in names /\ e = <<Directory, id>>
  BY <1>6, <1>7, <1>8, <1>9, <1>11 DEF SameDirectories
<1>12. ASSUME Directory \in names, Known(p4.cache, id)
       PROVE  p4.cache.nodes[id] = Directory
  BY <1>6, <1>10, <1>12 DEF Later, IsDirectory
<1>13. Listing(p1.entries) = {Directory} \cap names
  <2>1. <<Directory, id>>[1] = Directory
    OBVIOUS
  <2> QED
    BY <1>6, <2>1 DEF Listing
<1>14. Listing(p4.entries) = names
  BY <1>2, <1>7, <1>8, <1>9, <1>13
<1>15. <<Directory, id>>[1] = Directory /\ <<Directory, id>>[2] = id
  OBVIOUS
<1>16. page = p4 /\ PageLater(c, p4)
  BY <1>1, <1>9
<1>17. ASSUME NEW e \in p4.entries, IsDirectory(e[1])
       PROVE  e[1] = Directory /\ (Known(p4.cache, e[2]) => p4.cache.nodes[e[2]] = Directory)
  BY <1>11, <1>12, <1>15, <1>17
<1>18. ASSUME NEW e \in p4.entries, NEW f \in p4.entries, IsDirectory(e[1]), IsDirectory(f[1])
       PROVE  e = f
  BY <1>11, <1>18
<1>19. ASSUME Directory \in names, Directory \in DOMAIN c.ids
       PROVE  <<Directory, c.ids[Directory]>> \in p4.entries
  BY <1>6, <1>7, <1>8, <1>9, <1>19 DEF SameDirectories
<1>20. BelowRoot(page) /\ OneDirectory(page.entries)
  BY <1>16, <1>17, <1>18 DEF BelowRoot, OneDirectory
<1> QED
  BY <1>14, <1>16, <1>19, <1>20
-----------------------------------------------------------------------------
(* The invariant of the tree *)

World == stamp \in [{Top, Directory} -> Nat] /\ DirectoriesIndexed(cache)

\* What the viewer has open, loads or is about to load is a directory.
Wanted == opened \cup activeBranchLoads \cup {refreshing[i].id : i \in DOMAIN refreshing}
DirectoriesWanted == \A id \in Wanted : Known(cache, id) => IsDirectory(cache.nodes[id])

AllKnown == \A id \in opened : Known(cache, id)
Watched(id) == id \in opened /\ Known(cache, id) /\ Original(id)

\* Of the entries of a directory, one at most is a directory: the one below the root.
DirectoryEntry(e, id) ==
    id = TopId /\ e[1] = Directory /\ (Known(cache, e[2]) => cache.nodes[e[2]] = Directory)
EntriesSound(id, entries) ==
    /\ \A e \in entries : IsDirectory(e[1]) => DirectoryEntry(e, id)
    /\ OneDirectory(entries)

\* Listings that have been answered; a new list of the root has the directory that the
\* page has, and so has the page every directory that is open.
Answers(reqs) == {r \in ToSet(reqs) : r.kind = "entries" /\ r.pc = "answered"}
Keeps(entries) ==
    \A e \in pages[TopId] :
        IsDirectory(e[1]) /\ Known(cache, e[2]) /\ disk[Directory] = 1 => e \in entries
PagesSound ==
    /\ \A id \in DOMAIN pages : EntriesSound(id, pages[id])
    /\ \A r \in Answers(requests) : EntriesSound(r.id, r.entries)
    /\ \A r \in Answers(requests) : r.id = TopId /\ TopId \in DOMAIN pages => Keeps(r.entries)
    /\ \A id \in opened \ {TopId} :
          TopId \in DOMAIN pages /\ (Watched(id) => <<Directory, id>> \in pages[TopId])

\* The last list of branches on its way is the one of the viewer.
Sequence(q) == q \in Seq(ToSet(q))
Says(q, type) == \E m \in ToSet(q) : m.type = type
LastBranches(q, ids) ==
    \E i \in DOMAIN q : /\ q[i].type = "branches" /\ q[i].ids = ids
                        /\ \A j \in DOMAIN q : j > i => q[j].type # "branches"
MessagesSound ==
    /\ Sequence(toServer) /\ Sequence(toViewer) /\ TopId \in opened
    /\ Says(toServer, "branches") => LastBranches(toServer, opened)
    /\ ~connected => toServer = <<>>
    /\ opening => TopId \in activeBranchLoads

\* An open directory is observed or will be; unless an identifier is unknown, nothing else
\* is; what was last seen of a directory is not of the future; without a socket nothing is
\* observed.
ToBeObserved == ~connected \/ opening \/ Says(toServer, "branches") \/ ~AllKnown
SeenBefore(id) == branches[id] \in Nat \X Nat /\ branches[id][2] <= stamp[cache.nodes[id]]
ObservedSound ==
    /\ \A id \in opened : Watched(id) => id \in DOMAIN branches \/ ToBeObserved
    /\ AllKnown /\ ~Says(toServer, "branches") => DOMAIN branches \subseteq opened
    /\ \A id \in DOMAIN branches :
          Known(cache, id) /\ IsDirectory(cache.nodes[id]) => SeenBefore(id)
    /\ ~connected => DOMAIN branches = {}

\* The viewer has been told that a directory has changed, or will be.
Announced(id) == \E m \in ToSet(toViewer) : m.type = "tree-changed" /\ id \in m.ids
Outdated(id) == id \in DOMAIN branches => branches[id] # Revision(cache.nodes[id])
Dropped(id) ==
    id # TopId /\ \E m \in ToSet(toServer) : m.type = "branches" /\ m.ids = {TopId}
Told(id) == id \in pendingTree \/ Announced(id) \/ Outdated(id) \/ Dropped(id)
Attended(id) ==
    \/ id \in treeErrors \cup activeBranchLoads \/ Told(id)
    \/ id \in DOMAIN pages /\ Shows(pages[id], id)
Judged(id) == Watched(id) /\ (id = TopId \/ AllKnown)
FreshSound ==
    \A id \in opened : Judged(id) =>
        /\ Attended(id)
        /\ \A r \in Answers(requests) : r.id = id => Told(id) \/ Shows(r.entries, id)

\* The listing in progress, of a directory: what has changed since its first half has a
\* later time.
ReadsSound ==
    reading # Idle =>
        /\ Known(cache, Head(requests).id) /\ reading.path = cache.nodes[Head(requests).id]
        /\ IsDirectory(reading.path)
        /\ reading.rev \in Nat \X Nat /\ reading.rev[2] <= stamp[reading.path]
        /\ reading.names \subseteq {p \in Paths \ {Top} : Parent(p) = reading.path}
        /\ reading.rev[2] = stamp[reading.path] => reading.names = Children(reading.path)

\* A selection that the companion holds is the viewer's, or about to be given up.
SubscribesTo(q, id) ==
    \A i \in DOMAIN q : q[i].type = "subscribe" =>
        q[i].id = id \/ \E j \in DOMAIN q : j > i /\ q[j].type = "unsubscribe"
SelectionSound ==
    /\ selection = NoSelection \/ selection.id # 0
    /\ Says(toServer, "unsubscribe") \/ selection.id \in {0, selected}
    /\ SubscribesTo(toServer, selected)
    /\ ~connected => selection = NoSelection

\* What holds however long a flow outlives its socket.
Basic == World /\ DirectoriesWanted /\ PagesSound /\ MessagesSound /\ ReadsSound

\* What holds when each flow has ended before the next socket was opened.
TInv == Basic /\ ObservedSound /\ FreshSound /\ SelectionSound

\* Only a socket that was opened too early meets flows of the earlier ones.
FlowSound == old \in Nat /\ (hasty => connected) /\ (connected /\ ~hasty => old = 0)
Trusted == old = 0 /\ ~hasty
FlowInv == Basic /\ FlowSound /\ (Trusted => TInv)

\* A step that leaves the flows as they are, of which none outlives its socket.
Steady == ~Cut /\ ~EndFlow /\ ~\E due \in BOOLEAN : PollUnheard(due)
-----------------------------------------------------------------------------
(* A step of the disk or of the cache *)

\* Time passes in the directory d: what changes in it has a later time, and one that is
\* created again is not the original.
Passes(d) ==
    /\ stamp[d] \in Nat /\ stamp'[d] \in Nat /\ stamp[d] <= stamp'[d]
    /\ stamp'[d] = stamp[d] => Children(d)' = Children(d)
    /\ disk'[d] = 1 => disk[d] = 1
Ages == Later(cache, cache') /\ Passes(Top) /\ Passes(Directory)

\* A change of the disk is seen in the directory where it happens.
LEMMA DiskPasses ==
  ASSUME IInv, World, Disk
  PROVE  World' /\ Ages
<1>1. UNCHANGED cache
  BY DEF Disk, Rotate, Create, Delete, Change, serverVars
<1>2. changes \in Nat /\ disk \in [Paths -> 0..MaxChanges + 1] /\ disk'[Top] = 1 /\ disk[Top] = 1
  <2>1. changes \in 0..MaxChanges /\ MaxChanges \in Nat
    BY LimitsAssumption DEF IInv, DiskTyped
  <2> QED
    BY <2>1, DiskStep DEF IInv, DiskTyped
<1>3. Top \in Paths /\ Directory \in Paths /\ Active \in Paths /\ Final \in Paths
  BY DEF Paths, Names, ToSet
<1>4. PICK p \in Paths : /\ Change(p)
                         /\ \A q \in Paths : Parent(q) # Parent(p) => disk'[q] = disk[q]
                         /\ disk'[Directory] = 1 => disk[Directory] = 1
  <2>1. CASE Rotate
    <3>1. Parent(Active) = Top /\ Parent(Final) = Top
      BY PathsAssumption DEF Parent
    <3>2. Change(Active) /\ disk' = [disk EXCEPT ![Active] = 0, ![Final] = disk[Active]]
      BY <2>1 DEF Rotate
    <3>3. PICK a : a = disk[Active]
      OBVIOUS
    <3>4. disk' = [disk EXCEPT ![Active] = 0, ![Final] = a]
      BY <3>2, <3>3
    <3>5. ASSUME NEW q \in Paths, q # Active, q # Final PROVE disk'[q] = disk[q]
      BY <1>2, <3>4, <3>5
    <3>6. Directory # Active /\ Directory # Final
      BY PathsAssumption
    <3> QED
      BY <1>3, <3>1, <3>2, <3>5, <3>6
  <2>2. ASSUME NEW p \in Paths, Create(p)
        PROVE  /\ Change(p) /\ \A q \in Paths : Parent(q) # Parent(p) => disk'[q] = disk[q]
               /\ disk'[Directory] = 1 => disk[Directory] = 1
    <3>1. Change(p) /\ disk' = [disk EXCEPT ![p] = changes + 2] /\ changes + 2 # 1
      BY <1>2, <2>2 DEF Create
    <3> QED
      BY <1>2, <1>3, <3>1
  <2>3. ASSUME NEW p \in Paths, Delete(p)
        PROVE  /\ Change(p) /\ \A q \in Paths : Parent(q) # Parent(p) => disk'[q] = disk[q]
               /\ disk'[Directory] = 1 => disk[Directory] = 1
    <3>1. Change(p) /\ disk' = [disk EXCEPT ![p] = 0]
      BY <2>3 DEF Delete
    <3> QED
      BY <1>2, <1>3, <3>1
  <2> QED
    BY <2>1, <2>2, <2>3 DEF Disk
<1>5. PICK o \in {Top, Directory} : o = Parent(p)
  BY DEF Parent
<1>6. stamp' = [stamp EXCEPT ![o] = stamp[o] + 1] /\ stamp \in [{Top, Directory} -> Nat]
  BY <1>4, <1>5 DEF Change, World
<1>7. stamp' \in [{Top, Directory} -> Nat] /\ stamp'[o] = stamp[o] + 1 /\ stamp[o] \in Nat
      /\ \A d \in {Top, Directory} : stamp[d] \in Nat /\ (d # o => stamp'[d] = stamp[d])
  BY <1>6
<1>8. ASSUME NEW d \in {Top, Directory}, d # o PROVE Children(d)' = Children(d)
  <2>1. ASSUME NEW q \in Paths, Parent(q) = d PROVE disk'[q] = disk[q]
    BY <1>4, <1>5, <1>8, <2>1
  <2> QED
    BY <2>1 DEF Children
<1>9. ASSUME NEW d \in {Top, Directory} PROVE Passes(d)
  <2>1. disk'[d] = 1 => disk[d] = 1
    BY <1>2, <1>4
  <2>2. CASE d = o
    BY <1>7, <2>1, <2>2 DEF Passes
  <2>3. CASE d # o
    BY <1>7, <1>8, <2>1, <2>3 DEF Passes
  <2> QED
    BY <2>2, <2>3
<1>10. Later(cache, cache')
  BY <1>1, LaterSame DEF IInv, CacheSound
<1> QED
  BY <1>1, <1>7, <1>9, <1>10 DEF World, Ages

\* What a step of the companion does to the identifiers.
LEMMA CacheAges ==
  ASSUME IInv, World, BeginEntries \/ EndEntries \/ ServeContent \/ Looks
  PROVE  Later(cache, cache') /\ DirectoriesIndexed(cache') /\ UNCHANGED diskVars
<1>1. CacheSound(cache) /\ DirectoriesIndexed(cache)
  BY DEF IInv, World
<1>2. CASE BeginEntries
  BY <1>1, <1>2, RelocateLater DEF BeginEntries
<1>3. CASE EndEntries
  <2>1. PICK names : names \subseteq ToSet(Names) /\ cache' = Listed(cache, names).cache
    <3>1. PICK names : names = {Names[i] : i \in {i \in DOMAIN Names :
                    Names[i] \in reading.names /\ \A j \in {i2 \in DOMAIN Names : Names[i2] \in reading.names /\ disk[Names[i2]] = 0} : i < j}}
      OBVIOUS
    <3>2. names \subseteq ToSet(Names)
      BY <3>1 DEF ToSet
    <3> QED
      BY <1>3, <3>1, <3>2 DEF EndEntries
  <2>2. PICK page : page = Listed(cache, names)
    OBVIOUS
  <2>3. PageLater(cache, page)
    BY <1>1, <2>1, <2>2, ListedLater
  <2> QED
    BY <1>3, <2>1, <2>2, <2>3 DEF PageLater, EndEntries
<1>4. CASE ServeContent
  <2>1. CASE cache' = cache
    BY <1>1, <1>4, <2>1, LaterSame DEF CacheSound, ServeContent
  <2>2. CASE cache' # cache
    <3>1. PICK id, file : cache' = [cache EXCEPT !.generations = With(cache.generations, id, file)]
      BY <1>4, <2>2 DEF ServeContent
    <3>2. PICK d : d = [cache EXCEPT !.generations = With(cache.generations, id, file)]
      OBVIOUS
    <3>3. Later(cache, d) /\ DirectoriesIndexed(d)
      BY <1>1, <3>2, ReadLater
    <3> QED
      BY <1>4, <3>1, <3>2, <3>3 DEF ServeContent
  <2> QED
    BY <2>1, <2>2
<1>5. ASSUME NEW due \in BOOLEAN, NEW heard \in BOOLEAN, Watch(due, heard)
      PROVE  Later(cache, cache') /\ DirectoriesIndexed(cache') /\ UNCHANGED diskVars
  <2>1. PICK c : c = Relocate(cache, {selection.id})
    OBVIOUS
  <2>2. Later(cache, c) /\ DirectoriesIndexed(c) /\ CacheSound(c)
    BY <1>1, <2>1, RelocateLater, RelocateSound
  <2>3. CASE cache' = c
    BY <1>5, <2>2, <2>3 DEF Watch
  <2>4. CASE cache' # c
    <3>1. PICK id, file : cache' = [c EXCEPT !.generations = With(c.generations, id, file)]
      BY <1>5, <2>1, <2>4 DEF Watch
    <3>2. PICK d : d = [c EXCEPT !.generations = With(c.generations, id, file)]
      OBVIOUS
    <3>3. Later(c, d) /\ DirectoriesIndexed(d)
      BY <2>2, <3>2, ReadLater
    <3>4. cache.last \in Nat /\ c.last \in Nat /\ d.last \in Nat
      BY <1>1, <2>2, <3>2, PollStep, <1>5, <3>1, LastTyped DEF CacheSound, CacheTyped, IInv
    <3>5. Later(cache, d)
      BY <2>2, <3>3, <3>4, LaterTransitive
    <3> QED
      BY <1>5, <3>1, <3>2, <3>3, <3>5 DEF Watch
  <2> QED
    BY <2>3, <2>4
<1> QED
  BY <1>2, <1>3, <1>4, <1>5 DEF Looks

\* Every step ages the disk and the identifiers, if it changes them at all.
LEMMA StepAges ==
  ASSUME IInv, World, [Next]_vars
  PROVE  World' /\ Ages
<1>1. CASE Disk
  BY <1>1, DiskPasses
<1>2. CASE ~Disk
  <2>1. Later(cache, cache') /\ DirectoriesIndexed(cache') /\ UNCHANGED diskVars
    <3>1. CASE BeginEntries \/ EndEntries \/ ServeContent \/ Looks
      BY <3>1, CacheAges
    <3>2. CASE ~(BeginEntries \/ EndEntries \/ ServeContent \/ Looks)
      <4>1. UNCHANGED <<cache, diskVars>>
        BY <1>2, <3>2, NextIs DEF User, Apply, ReceiveEntries, ReceiveContent, Handle,
           Refresh, Connect, Cut, EndFlow, Toggle, SelectFile, Retry, vars, serverVars
      <4> QED
        BY <4>1, LaterSame DEF World, IInv, CacheSound
    <3> QED
      BY <3>1, <3>2
  <2>2. ASSUME NEW d \in {Top, Directory} PROVE Passes(d)
    <3>1. stamp' = stamp /\ disk' = disk /\ stamp[d] \in Nat
      BY <2>1 DEF World, diskVars
    <3>2. Children(d)' = Children(d)
      BY <3>1 DEF Children
    <3> QED
      BY <3>1, <3>2 DEF Passes
  <2> QED
    BY <2>1, <2>2 DEF World, Ages, diskVars
<1> QED
  BY <1>1, <1>2

\* The identifiers that the viewer uses have been given.
LEMMA WantedGiven == IInv => Wanted \subseteq 1..cache.last
<1> SUFFICES ASSUME IInv PROVE Wanted \subseteq 1..cache.last
  OBVIOUS
<1>1. PICK n : n = cache.last
  OBVIOUS
<1>2. opened \subseteq 1..n /\ refreshing \in Seq([id : 1..n, sent : BOOLEAN])
  BY <1>1 DEF IInv, ViewSound
<1>3. ASSUME NEW i \in DOMAIN refreshing PROVE refreshing[i].id \in 1..n
  <2>1. PICK S : S = [id : 1..n, sent : BOOLEAN]
    OBVIOUS
  <2>2. refreshing \in Seq(S)
    BY <1>2, <2>1
  <2>3. refreshing[i] \in S
    BY <1>3, <2>2
  <2> QED
    BY <2>1, <2>3
<1>4. ASSUME NEW x \in activeBranchLoads PROVE x \in 1..n
  <2>1. requests \in Seq(RequestRecords(n)) /\ activeBranchLoads = Loading(requests)
    BY <1>1 DEF IInv, LoadsSound, QueueSound
  <2>2. PICK i \in DOMAIN requests : requests[i].kind = "entries" /\ x = requests[i].id
    BY <2>1 DEF Loading
  <2>3. requests[i] \in RequestRecords(n)
    BY <2>1
  <2> QED
    BY <2>2, <2>3 DEF RequestRecords
<1> QED
  BY <1>1, <1>2, <1>3, <1>4 DEF Wanted

\* An identifier that is still known after a step stood for the same directory before it.
LEMMA DirectoryBefore ==
  ASSUME IInv, Ages, NEW id \in 1..cache.last, Known(cache', id),
         Known(cache, id) => IsDirectory(cache.nodes[id])
  PROVE  /\ Known(cache, id) /\ cache'.nodes[id] = cache.nodes[id]
         /\ cache.nodes[id] \in {Top, Directory}
BY DEF Ages, Later, IsDirectory

\* An open directory that is watched after a step was so before.
LEMMA WatchedBefore ==
  ASSUME IInv, Ages, DirectoriesWanted, NEW id \in opened, Watched(id)'
  PROVE  /\ Watched(id) /\ cache'.nodes[id] = cache.nodes[id]
         /\ cache.nodes[id] \in {Top, Directory} /\ Passes(cache.nodes[id])
         /\ disk[cache.nodes[id]] = 1 /\ disk'[cache.nodes[id]] = 1
<1>1. id \in 1..cache.last /\ (Known(cache, id) => IsDirectory(cache.nodes[id]))
  BY WantedGiven DEF DirectoriesWanted, Wanted
<1>2. Known(cache', id) /\ disk'[cache'.nodes[id]] = 1
  BY DEF Watched, Known, Original
<1>3. /\ Known(cache, id) /\ cache'.nodes[id] = cache.nodes[id]
      /\ cache.nodes[id] \in {Top, Directory}
  BY <1>1, <1>2, DirectoryBefore
<1>4. Passes(cache.nodes[id])
  BY <1>3 DEF Ages
<1> QED
  BY <1>2, <1>3, <1>4 DEF Watched, Original, Passes

\* As long as the same directories are open, an identifier that is unknown stays so.
LEMMA AllKnownBefore ==
  ASSUME IInv, Ages, NEW id \in opened, Known(cache', id)
  PROVE  Known(cache, id)
<1>1. id \in 1..cache.last
  BY WantedGiven DEF Wanted
<1> QED
  BY <1>1 DEF Ages, Later

\* The directory below the root has one identifier at most, which is not the root's.
LEMMA OneBelow ==
  ASSUME World, CacheSound(cache), NEW i, Known(cache, i), cache.nodes[i] = Directory
  PROVE  /\ i # TopId /\ cache.ids[Directory] = i /\ Directory \in DOMAIN cache.ids
         /\ \A j : Known(cache, j) /\ IsDirectory(cache.nodes[j]) /\ j # TopId => j = i
<1>1. Top # Directory
  BY FilesApart
<1>2. cache.nodes[TopId] = Top
  BY DEF World, DirectoriesIndexed
<1>3. cache.ids[Directory] = i /\ Directory \in DOMAIN cache.ids
  BY DEF World, DirectoriesIndexed, Known, IsDirectory
<1>4. ASSUME NEW j, Known(cache, j), IsDirectory(cache.nodes[j]), j # TopId PROVE j = i
  <2>1. cache.nodes[j] \in DOMAIN cache.ids /\ cache.ids[cache.nodes[j]] = j
    BY <1>4 DEF World, DirectoriesIndexed, Known
  <2>2. CASE cache.nodes[j] = Directory
    BY <1>3, <2>1, <2>2
  <2>3. CASE cache.nodes[j] = Top
    <3>1. TopId \in DOMAIN cache.nodes
      BY DEF CacheSound, OrderSound
    <3>2. cache.ids[Top] = TopId
      BY <1>2, <3>1 DEF World, DirectoriesIndexed, IsDirectory
    <3> QED
      BY <1>4, <2>1, <2>3, <3>2
  <2> QED
    BY <1>4, <2>2, <2>3 DEF IsDirectory
<1> QED
  BY <1>1, <1>2, <1>3, <1>4
-----------------------------------------------------------------------------
(* Sequences of messages *)

\* A sequence is one of its own members.
LEMMA SequenceOf ==
  ASSUME NEW S, NEW r \in Seq(S)
  PROVE  Sequence(r)
<1>1. PICK R, n : R = ToSet(r) /\ n = Len(r)
  OBVIOUS
<1>2. n \in Nat /\ r \in [1..n -> S]
  BY <1>1, LenProperties
<1>3. \A i \in 1..n : r[i] \in R
  BY <1>1, <1>2 DEF ToSet
<1>4. r \in [1..n -> R]
  BY <1>2, <1>3
<1>5. r \in UNION {[1..k -> R] : k \in Nat}
  BY <1>2, <1>4
<1>6. r \in Seq(R)
  BY <1>5, SeqDef
<1> QED
  BY <1>1, <1>6 DEF Sequence

\* A message more.
LEMMA MessageSent ==
  ASSUME NEW q, Sequence(q), NEW m, NEW r, r = q \o <<m>>
  PROVE  /\ Sequence(r) /\ ToSet(r) = ToSet(q) \cup {m} /\ Len(q) \in Nat
         /\ DOMAIN q = 1..Len(q) /\ DOMAIN r = 1..(Len(q) + 1) /\ r[Len(q) + 1] = m
         /\ \A i \in 1..Len(q) : r[i] = q[i]
<1>1. PICK S : S = ToSet(q)
  OBVIOUS
<1>2. q \in Seq(S) /\ Len(q) \in Nat /\ DOMAIN q = 1..Len(q) /\ \A i \in DOMAIN q : q[i] \in S
  BY <1>1 DEF Sequence
<1>3. PICK T : T = S \cup {m}
  OBVIOUS
<1>4. q \in Seq(T) /\ <<m>> \in Seq(T)
  BY <1>2, <1>3
<1>5. /\ r \in Seq(T) /\ Len(r) = Len(q) + 1 /\ DOMAIN r = 1..(Len(q) + 1)
      /\ r[Len(q) + 1] = m /\ \A i \in 1..Len(q) : r[i] = q[i]
  BY <1>2, <1>4
<1>6. ToSet(r) = T
  <2>1. ASSUME NEW x \in T PROVE \E i \in DOMAIN r : r[i] = x
    <3>1. CASE x = m
      BY <1>2, <1>5, <3>1
    <3>2. CASE x # m
      <4>1. PICK i \in DOMAIN q : q[i] = x
        BY <1>1, <1>3, <3>2 DEF ToSet
      <4> QED
        BY <1>2, <1>5, <4>1
    <3> QED
      BY <3>1, <3>2
  <2>2. \A i \in DOMAIN r : r[i] \in T
    BY <1>5
  <2> QED
    BY <2>1, <2>2 DEF ToSet
<1> QED
  BY <1>1, <1>2, <1>3, <1>5, <1>6 DEF Sequence

\* The first message is taken.
LEMMA MessageTaken ==
  ASSUME NEW q, Sequence(q), q # <<>>, NEW r, r = Tail(q)
  PROVE  /\ Sequence(r) /\ ToSet(q) = ToSet(r) \cup {Head(q)} /\ Head(q) = q[1]
         /\ Len(q) \in Nat \ {0} /\ DOMAIN q = 1..Len(q) /\ DOMAIN r = 1..(Len(q) - 1)
         /\ \A i \in 1..(Len(q) - 1) : r[i] = q[i + 1]
<1>1. PICK S : S = ToSet(q)
  OBVIOUS
<1>2. q \in Seq(S) /\ Len(q) \in Nat \ {0} /\ DOMAIN q = 1..Len(q) /\ Head(q) = q[1]
  BY <1>1 DEF Sequence
<1>3. /\ r \in Seq(S) /\ Len(r) = Len(q) - 1 /\ DOMAIN r = 1..(Len(q) - 1)
      /\ \A i \in 1..(Len(q) - 1) : r[i] = q[i + 1]
  BY <1>2
<1>4. Sequence(r)
  BY <1>3, SequenceOf
<1>5. ToSet(q) = ToSet(r) \cup {Head(q)}
  <2>1. ASSUME NEW i \in DOMAIN q, i # 1 PROVE q[i] \in ToSet(r)
    <3>1. i - 1 \in DOMAIN r /\ r[i - 1] = q[(i - 1) + 1] /\ (i - 1) + 1 = i
      BY <1>2, <1>3, <2>1
    <3> QED
      BY <3>1 DEF ToSet
  <2>2. ASSUME NEW i \in DOMAIN r PROVE r[i] \in ToSet(q)
    <3>1. i + 1 \in DOMAIN q /\ r[i] = q[i + 1]
      BY <1>2, <1>3
    <3> QED
      BY <3>1 DEF ToSet
  <2>3. ToSet(q) \subseteq ToSet(r) \cup {Head(q)}
    <3>1. ASSUME NEW x \in ToSet(q) PROVE x \in ToSet(r) \cup {Head(q)}
      <4>1. PICK i \in DOMAIN q : x = q[i]
        BY DEF ToSet
      <4> QED
        BY <1>2, <2>1, <4>1
    <3> QED
      BY <3>1
  <2>4. ToSet(r) \cup {Head(q)} \subseteq ToSet(q)
    <3>1. Head(q) \in ToSet(q)
      BY <1>2 DEF ToSet
    <3>2. ASSUME NEW x \in ToSet(r) PROVE x \in ToSet(q)
      <4>1. PICK i \in DOMAIN r : x = r[i]
        BY DEF ToSet
      <4> QED
        BY <2>2, <4>1
    <3> QED
      BY <3>1, <3>2
  <2> QED
    BY <2>3, <2>4
<1> QED
  BY <1>2, <1>3, <1>4, <1>5 DEF Sequence

\* No message, or one.
LEMMA FewMessages ==
  /\ Sequence(<<>>) /\ ToSet(<<>>) = {}
  /\ \A m : Sequence(<<m>>) /\ ToSet(<<m>>) = {m}
<1>1. ToSet(<<>>) = {} /\ \A m : ToSet(<<m>>) = {m}
  BY DEF ToSet
<1> QED
  BY <1>1 DEF Sequence

\* The last list of branches, after a message of another kind, after another list, and
\* when the first message is taken.
LEMMA LastBranchesSent ==
  ASSUME NEW q, Sequence(q), NEW m, NEW r, r = q \o <<m>>, NEW ids
  PROVE  /\ m.type # "branches" /\ LastBranches(q, ids) => LastBranches(r, ids)
         /\ m.type = "branches" /\ m.ids = ids => LastBranches(r, ids)
<1>1. /\ Len(q) \in Nat /\ DOMAIN q = 1..Len(q) /\ DOMAIN r = 1..(Len(q) + 1)
      /\ r[Len(q) + 1] = m /\ \A i \in 1..Len(q) : r[i] = q[i]
  BY MessageSent
<1>2. ASSUME m.type # "branches", LastBranches(q, ids) PROVE LastBranches(r, ids)
  <2>1. PICK i \in DOMAIN q : /\ q[i].type = "branches" /\ q[i].ids = ids
                              /\ \A j \in DOMAIN q : j > i => q[j].type # "branches"
    BY <1>2 DEF LastBranches
  <2>2. i \in DOMAIN r /\ r[i] = q[i]
    BY <1>1
  <2>3. ASSUME NEW j \in DOMAIN r, j > i PROVE r[j].type # "branches"
    <3>1. CASE j = Len(q) + 1
      BY <1>1, <1>2, <3>1
    <3>2. CASE j # Len(q) + 1
      <4>1. j \in DOMAIN q /\ r[j] = q[j]
        BY <1>1, <3>2
      <4> QED
        BY <2>1, <2>3, <4>1
    <3> QED
      BY <3>1, <3>2
  <2> QED
    BY <2>1, <2>2, <2>3 DEF LastBranches
<1>3. ASSUME m.type = "branches", m.ids = ids PROVE LastBranches(r, ids)
  <2>1. Len(q) + 1 \in DOMAIN r /\ \A j \in DOMAIN r : ~(j > Len(q) + 1)
    BY <1>1
  <2> QED
    BY <1>1, <1>3, <2>1 DEF LastBranches
<1> QED
  BY <1>2, <1>3

\* When the first message is taken, the last list of branches is still to come, or it was
\* this message.
LEMMA LastBranchesTaken ==
  ASSUME NEW q, Sequence(q), q # <<>>, NEW r, r = Tail(q), NEW ids, LastBranches(q, ids)
  PROVE  \/ LastBranches(r, ids) /\ Says(r, "branches")
         \/ Head(q).type = "branches" /\ Head(q).ids = ids /\ ~Says(r, "branches")
<1>1. /\ Len(q) \in Nat \ {0} /\ DOMAIN q = 1..Len(q) /\ DOMAIN r = 1..(Len(q) - 1)
      /\ Head(q) = q[1] /\ \A i \in 1..(Len(q) - 1) : r[i] = q[i + 1]
  BY MessageTaken
<1>2. PICK i \in DOMAIN q : /\ q[i].type = "branches" /\ q[i].ids = ids
                            /\ \A j \in DOMAIN q : j > i => q[j].type # "branches"
  BY DEF LastBranches
<1>3. ASSUME NEW j \in DOMAIN r PROVE j + 1 \in DOMAIN q /\ r[j] = q[j + 1] /\ j \in Nat /\ j >= 1
  BY <1>1
<1>4. CASE i = 1
  <2>1. ASSUME NEW j \in DOMAIN r PROVE r[j].type # "branches"
    BY <1>2, <1>3, <1>4
  <2>2. ~Says(r, "branches")
    BY <2>1 DEF Says, ToSet
  <2> QED
    BY <1>1, <1>2, <1>4, <2>2
<1>5. CASE i # 1
  <2>1. i - 1 \in DOMAIN r /\ r[i - 1] = q[(i - 1) + 1] /\ (i - 1) + 1 = i
    BY <1>1, <1>5
  <2>2. ASSUME NEW j \in DOMAIN r, j > i - 1 PROVE r[j].type # "branches"
    <3>1. j + 1 > i
      BY <1>1, <1>3, <2>2
    <3> QED
      BY <1>2, <1>3, <3>1
  <2>3. LastBranches(r, ids)
    BY <1>2, <2>1, <2>2 DEF LastBranches
  <2>4. Says(r, "branches")
    BY <1>2, <2>1 DEF Says, ToSet
  <2> QED
    BY <2>3, <2>4
<1> QED
  BY <1>4, <1>5

\* Subscriptions, after a message of another kind or the right one, after the selection
\* is given up, and when the first message is taken.
LEMMA SubscribesSent ==
  ASSUME NEW q, Sequence(q), NEW m, NEW r, r = q \o <<m>>, NEW id
  PROVE  /\ SubscribesTo(q, id) /\ (m.type = "subscribe" => m.id = id) => SubscribesTo(r, id)
         /\ m.type = "unsubscribe" => SubscribesTo(r, id)
<1>1. /\ Len(q) \in Nat /\ DOMAIN q = 1..Len(q) /\ DOMAIN r = 1..(Len(q) + 1)
      /\ r[Len(q) + 1] = m /\ \A i \in 1..Len(q) : r[i] = q[i]
  BY MessageSent
<1>2. ASSUME SubscribesTo(q, id), m.type = "subscribe" => m.id = id PROVE SubscribesTo(r, id)
  <2>1. ASSUME NEW i \in DOMAIN r, r[i].type = "subscribe"
        PROVE  r[i].id = id \/ \E j \in DOMAIN r : j > i /\ r[j].type = "unsubscribe"
    <3>1. CASE i = Len(q) + 1
      BY <1>1, <1>2, <2>1, <3>1
    <3>2. CASE i # Len(q) + 1
      <4>1. i \in DOMAIN q /\ r[i] = q[i]
        BY <1>1, <3>2
      <4>2. q[i].id = id \/ \E j \in DOMAIN q : j > i /\ q[j].type = "unsubscribe"
        BY <1>2, <2>1, <4>1 DEF SubscribesTo
      <4>3. ASSUME NEW j \in DOMAIN q PROVE j \in DOMAIN r /\ r[j] = q[j]
        BY <1>1
      <4> QED
        BY <4>1, <4>2, <4>3
    <3> QED
      BY <3>1, <3>2
  <2> QED
    BY <2>1 DEF SubscribesTo
<1>3. ASSUME m.type = "unsubscribe" PROVE SubscribesTo(r, id)
  <2>1. ASSUME NEW i \in DOMAIN r, r[i].type = "subscribe" PROVE Len(q) + 1 > i /\ Len(q) + 1 \in DOMAIN r
    BY <1>1, <1>3, <2>1
  <2> QED
    BY <1>1, <1>3, <2>1 DEF SubscribesTo
<1> QED
  BY <1>2, <1>3

\* When the first message is taken, the others subscribe to the same file or give it up.
LEMMA SubscribesTaken ==
  ASSUME NEW q, Sequence(q), q # <<>>, NEW r, r = Tail(q), NEW id, SubscribesTo(q, id)
  PROVE  /\ SubscribesTo(r, id)
         /\ Head(q).type = "subscribe" => Head(q).id = id \/ Says(r, "unsubscribe")
<1>1. /\ Len(q) \in Nat \ {0} /\ DOMAIN q = 1..Len(q) /\ DOMAIN r = 1..(Len(q) - 1)
      /\ Head(q) = q[1] /\ \A i \in 1..(Len(q) - 1) : r[i] = q[i + 1]
  BY MessageTaken
<1>2. ASSUME NEW i \in DOMAIN q, NEW j \in DOMAIN q, j > i
      PROVE  j - 1 \in DOMAIN r /\ r[j - 1] = q[j] /\ j - 1 > i - 1
  <2>1. j - 1 \in 1..(Len(q) - 1) /\ (j - 1) + 1 = j /\ j - 1 > i - 1
    BY <1>1, <1>2
  <2> QED
    BY <1>1, <2>1
<1>3. ASSUME NEW i \in DOMAIN r, r[i].type = "subscribe"
      PROVE  r[i].id = id \/ \E j \in DOMAIN r : j > i /\ r[j].type = "unsubscribe"
  <2>1. i + 1 \in DOMAIN q /\ r[i] = q[i + 1] /\ (i + 1) - 1 = i
    BY <1>1
  <2>2. q[i + 1].id = id \/ \E j \in DOMAIN q : j > i + 1 /\ q[j].type = "unsubscribe"
    BY <1>3, <2>1 DEF SubscribesTo
  <2> QED
    BY <1>2, <2>1, <2>2
<1>4. ASSUME Head(q).type = "subscribe" PROVE Head(q).id = id \/ Says(r, "unsubscribe")
  <2>1. 1 \in DOMAIN q
    BY <1>1
  <2>2. q[1].id = id \/ \E j \in DOMAIN q : j > 1 /\ q[j].type = "unsubscribe"
    BY <1>1, <1>4, <2>1 DEF SubscribesTo
  <2> QED
    BY <1>1, <1>2, <2>1, <2>2 DEF Says, ToSet
<1> QED
  BY <1>3, <1>4 DEF SubscribesTo
-----------------------------------------------------------------------------
(* Loads *)

\* Requests that are those of a queue, or have no listing yet, bring no answer.
LEMMA AnswersFrom ==
  ASSUME NEW q, NEW reqs,
         \A i \in DOMAIN q : q[i] \in ToSet(reqs) \/ q[i].kind # "entries" \/ q[i].pc # "answered"
  PROVE  Answers(q) \subseteq Answers(reqs)
BY DEF Answers, ToSet

\* Loads begin: each is under way, or has failed.
LEMMA BeginLoads ==
  ASSUME IInv, NEW ids \in Seq(1..cache.last), Begin(ids, requests)
  PROVE  /\ Answers(requests') \subseteq Answers(requests)
         /\ activeBranchLoads \subseteq activeBranchLoads'
         /\ activeBranchLoads' \subseteq activeBranchLoads \cup ToSet(ids)
         /\ treeErrors \subseteq treeErrors'
         /\ ToSet(ids) \subseteq activeBranchLoads' \cup treeErrors'
         /\ requests # <<>> => Head(requests') = Head(requests)
<1>1. PICK n : n = cache.last
  OBVIOUS
<1>2. /\ requests \in Seq(RequestRecords(n)) /\ Len(requests) \in Nat
      /\ DOMAIN requests = 1..Len(requests) /\ activeBranchLoads = Loading(requests)
      /\ Len(ids) \in Nat /\ DOMAIN ids = 1..Len(ids) /\ RequestLimit \in Nat /\ n \in Nat
  BY <1>1, LastTyped, LimitsAssumption DEF IInv, LoadsSound, QueueSound
<1> DEFINE room == IF Len(requests) >= RequestLimit THEN 0 ELSE RequestLimit - Len(requests)
           fit == IF Len(ids) < room THEN Len(ids) ELSE room
<1>3. PICK k : k = fit
  OBVIOUS
<1>4. k \in Nat /\ k <= Len(ids)
  BY <1>2, <1>3
<1>5. PICK sent : sent = SubSeq(ids, 1, k)
  OBVIOUS
<1>6. PICK more : more = [i \in DOMAIN sent |-> Request("entries", sent[i])]
  OBVIOUS
<1>7. /\ requests' = requests \o more
      /\ activeBranchLoads' = {requests[i].id : i \in {j \in DOMAIN requests :
                                   requests[j].kind = "entries"}} \cup ToSet(sent)
      /\ treeErrors' = treeErrors \cup (ToSet(ids) \ ToSet(sent))
  BY <1>3, <1>5, <1>6 DEF Begin
<1>8. activeBranchLoads' = activeBranchLoads \cup ToSet(sent)
  BY <1>2, <1>7 DEF Loading
<1>9. DOMAIN sent = 1..k /\ \A i \in 1..k : sent[i] = ids[i] /\ sent[i] \in 1..n
  BY <1>1, <1>2, <1>4, <1>5
<1>10. ToSet(sent) \subseteq ToSet(ids)
  BY <1>2, <1>4, <1>9 DEF ToSet
<1>11. ASSUME NEW i \in 1..k PROVE more[i] \in RequestRecords(n) /\ more[i].pc = "waits"
  <2>1. more[i] = Request("entries", sent[i]) /\ sent[i] \in 1..n
    BY <1>6, <1>9
  <2> QED
    BY <2>1 DEF Request, RequestRecords
<1>12. PICK R : R = RequestRecords(n)
  OBVIOUS
<1>13. requests \in Seq(R) /\ more \in Seq(R) /\ Len(more) = k
  <2>1. more \in [1..k -> R]
    BY <1>6, <1>9, <1>11, <1>12
  <2> QED
    BY <1>2, <1>4, <1>12, <2>1
<1>14. /\ DOMAIN requests' = 1..(Len(requests) + k)
       /\ \A i \in 1..Len(requests) : requests'[i] = requests[i]
       /\ \A i \in 1..k : requests'[Len(requests) + i] = more[i]
  <2>1. PICK after : after = requests \o more
    OBVIOUS
  <2>2. after \in Seq(R) /\ Len(after) = Len(requests) + k
    BY <1>13, <2>1, ConcatProperties
  <2>3. DOMAIN after = 1..(Len(requests) + k)
    BY <1>2, <1>4, <2>2
  <2>4. \A i \in 1..Len(requests) : after[i] = requests[i]
    BY <1>2, <1>4, <1>13, <2>1
  <2>5. \A i \in 1..k : after[Len(requests) + i] = more[i]
    BY <1>2, <1>4, <1>13, <2>1
  <2> QED
    BY <1>7, <2>1, <2>3, <2>4, <2>5
<1>15. ASSUME NEW i \in DOMAIN requests'
       PROVE  requests'[i] \in ToSet(requests) \/ requests'[i].pc # "answered"
  <2>1. CASE i \in 1..Len(requests)
    BY <1>2, <1>14, <2>1 DEF ToSet
  <2>2. CASE i \notin 1..Len(requests)
    <3>1. i - Len(requests) \in 1..k /\ Len(requests) + (i - Len(requests)) = i
      BY <1>2, <1>4, <1>14, <2>2
    <3>2. requests'[i] = more[i - Len(requests)]
      BY <1>14, <3>1
    <3> QED
      BY <1>11, <3>1, <3>2
  <2> QED
    BY <2>1, <2>2
<1>16. Answers(requests') \subseteq Answers(requests)
  <2>1. PICK q : q = requests'
    OBVIOUS
  <2>2. Answers(q) \subseteq Answers(requests)
    BY <1>15, <2>1, AnswersFrom
  <2> QED
    BY <2>1, <2>2
<1>17. requests # <<>> => Head(requests') = Head(requests)
  BY <1>2, <1>13, <1>14
<1> QED
  BY <1>7, <1>8, <1>10, <1>16, <1>17

\* The load of one directory.
LEMMA BeginOneLoad ==
  ASSUME IInv, NEW id \in 1..cache.last, Begin(<<id>>, requests)
  PROVE  /\ Answers(requests') \subseteq Answers(requests)
         /\ activeBranchLoads \subseteq activeBranchLoads'
         /\ activeBranchLoads' \subseteq activeBranchLoads \cup {id}
         /\ treeErrors \subseteq treeErrors' /\ id \in activeBranchLoads' \cup treeErrors'
         /\ requests # <<>> => Head(requests') = Head(requests)
<1>1. PICK ids : ids = <<id>>
  OBVIOUS
<1>2. ids \in Seq(1..cache.last) /\ ToSet(ids) = {id}
  BY <1>1 DEF ToSet
<1>3. Begin(ids, requests)
  BY <1>1
<1> QED
  BY <1>2, <1>3, BeginLoads

\* What a step leaves of the loads: no load ends and no answer comes, but in the two
\* actions that say so; a listing in progress remains the first request's; nothing is
\* loaded but directories that are open or that a refresh names.
LoadsGrow ==
    /\ UNCHANGED <<pages, opening>>
    /\ activeBranchLoads \subseteq activeBranchLoads' /\ treeErrors \subseteq treeErrors'
    /\ pendingTree \subseteq pendingTree'
NoAnswer == Answers(requests') \subseteq Answers(requests)
SameHead == reading # Idle => Head(requests') = Head(requests)

\* A request that fails, and one for content.
LEMMA FailedLoads ==
  ASSUME IInv, requests # <<>>, Failed
  PROVE  NoAnswer /\ Head(requests').id = Head(requests).id
<1>1. PICK n : n = cache.last
  OBVIOUS
<1>2. /\ requests \in Seq(RequestRecords(n)) /\ Head(requests) = requests[1]
      /\ 1 \in DOMAIN requests
  BY <1>1 DEF IInv, LoadsSound, QueueSound
<1>3. PICK q \in RequestRecords(n) : q = requests[1]
  BY <1>2
<1>4. PICK r : r = [q EXCEPT !.pc = "failed"]
  OBVIOUS
<1>5. r \in RequestRecords(n) /\ r.pc = "failed" /\ r.id = q.id
  BY <1>4 DEF RequestRecords
<1>6. requests' = [requests EXCEPT ![1] = r]
  BY <1>3, <1>4 DEF Failed
<1>7. PICK after : after = requests'
  OBVIOUS
<1>8. /\ after \in Seq(RequestRecords(n)) /\ DOMAIN after = DOMAIN requests /\ after[1] = r
      /\ \A i \in DOMAIN after : i # 1 => after[i] = requests[i]
      /\ Head(after) = r
  BY <1>2, <1>5, <1>6, <1>7
<1>9. ASSUME NEW i \in DOMAIN after
      PROVE  after[i] \in ToSet(requests) \/ after[i].pc # "answered"
  BY <1>5, <1>8 DEF ToSet
<1>10. Answers(after) \subseteq Answers(requests)
  BY <1>9, AnswersFrom
<1> QED
  BY <1>2, <1>3, <1>5, <1>7, <1>8, <1>10 DEF NoAnswer

\* A request for content is no listing.
LEMMA SelectLoads ==
  ASSUME IInv, NEW id \in 0..cache.last, Select(id)
  PROVE  NoAnswer /\ SameHead
<1>1. PICK n : n = cache.last
  OBVIOUS
<1>2. /\ n \in Nat /\ QueueSound(requests, n) /\ requests \in Seq(RequestRecords(n))
      /\ Len(requests) \in Nat /\ DOMAIN requests = 1..Len(requests)
  BY <1>1, LastTyped DEF IInv, LoadsSound, QueueSound
<1>3. CASE requests' = requests
  BY <1>3 DEF NoAnswer, SameHead
<1>4. CASE requests' # requests
  <2>1. PICK r : r = Request("content", id)
    OBVIOUS
  <2>2. PICK after : after = Append(requests, r)
    OBVIOUS
  <2>3. requests' = after
    BY <1>4, <2>1, <2>2 DEF Select
  <2>4. r \in RequestRecords(n) /\ r.kind = "content"
    BY <1>1, <2>1 DEF Request, RequestRecords
  <2>5. /\ DOMAIN after = 1..(Len(requests) + 1) /\ after[Len(requests) + 1] = r
        /\ \A i \in 1..Len(requests) : after[i] = requests[i]
    BY <1>2, <2>2, <2>4
  <2>6. ASSUME NEW i \in DOMAIN after
        PROVE  after[i] \in ToSet(requests) \/ after[i].kind # "entries"
    <3>1. CASE i = Len(requests) + 1
      BY <2>4, <2>5, <3>1
    <3>2. CASE i # Len(requests) + 1
      <4>1. i \in DOMAIN requests /\ after[i] = requests[i]
        BY <1>2, <2>5, <3>2
      <4> QED
        BY <4>1 DEF ToSet
    <3> QED
      BY <3>1, <3>2
  <2>7. Answers(after) \subseteq Answers(requests)
    BY <2>6, AnswersFrom
  <2>8. SameHead
    BY SelectSound DEF IInv, ReadingSound, SameHead
  <2> QED
    BY <2>3, <2>7, <2>8 DEF NoAnswer
<1> QED
  BY <1>3, <1>4

\* The answer that the viewer takes; it was the only one for its directory.
LEMMA ReceivedLoads ==
  ASSUME IInv, ReceiveEntries
  PROVE  /\ Head(requests).id \in activeBranchLoads /\ Head(requests).id \in 1..cache.last
         /\ Head(requests).pc = "answered" => Head(requests) \in Answers(requests)
         /\ \A r \in Answers(requests') : r \in Answers(requests) /\ r.id # Head(requests).id
         /\ NoAnswer /\ reading = Idle
<1>1. PICK n : n = cache.last
  OBVIOUS
<1>2. /\ n \in Nat /\ QueueSound(requests, n) /\ requests \in Seq(RequestRecords(n))
      /\ activeBranchLoads = Loading(requests)
  BY <1>1, LastTyped DEF IInv, LoadsSound, QueueSound
<1>3. PICK answer : answer = Head(requests)
  OBVIOUS
<1>4. requests # <<>> /\ answer.kind = "entries" /\ answer.pc # "waits"
  BY <1>3 DEF ReceiveEntries
<1>5. PICK rest : rest = Tail(requests)
  OBVIOUS
<1>6. Sequence(requests)
  BY <1>2, SequenceOf
<1>7. Sequence(rest) /\ ToSet(requests) = ToSet(rest) \cup {answer}
  BY <1>3, <1>4, <1>5, <1>6, MessageTaken
<1>8. Loading(rest) = Loading(requests) \ {answer.id}
  BY <1>2, <1>3, <1>4, <1>5, HeadTaken
<1>9. PICK again : again = IF Again(answer.id) = {} THEN <<>> ELSE <<answer.id>>
  OBVIOUS
<1>10. PICK more : more = [i \in DOMAIN again |-> Request("entries", again[i])]
  OBVIOUS
<1>11. requests' = rest \o more
  BY <1>3, <1>5, <1>9, <1>10 DEF ReceiveEntries
<1>12. PICK after : after = rest \o more
  OBVIOUS
<1>13. ASSUME NEW r \in ToSet(after) PROVE r \in ToSet(rest) \/ r.pc = "waits"
  <2>1. CASE Again(answer.id) = {}
    <3>1. more = <<>>
      BY <1>9, <1>10, <2>1
    <3>2. after = rest
      BY <1>7, <1>12, <3>1 DEF Sequence
    <3> QED
      BY <1>13, <3>2
  <2>2. CASE Again(answer.id) # {}
    <3>1. PICK m : m = Request("entries", answer.id)
      OBVIOUS
    <3>2. more = <<m>>
      BY <1>9, <1>10, <2>2, <3>1
    <3>3. ToSet(after) = ToSet(rest) \cup {m}
      BY <1>7, <1>12, <3>2, MessageSent
    <3>4. m.pc = "waits"
      BY <3>1 DEF Request
    <3> QED
      BY <1>13, <3>3, <3>4
  <2> QED
    BY <2>1, <2>2
<1>14. ASSUME NEW r \in Answers(after)
       PROVE  r \in Answers(requests) /\ r.id # answer.id
  <2>1. r \in ToSet(rest) /\ r.kind = "entries" /\ r.pc = "answered"
    BY <1>13, <1>14 DEF Answers
  <2>2. r.id \in Loading(rest)
    BY <2>1 DEF Loading, ToSet
  <2> QED
    BY <1>7, <1>8, <2>1, <2>2 DEF Answers
<1>15. answer.id \in Loading(requests) /\ answer.id \in 1..n
  <2>1. 1 \in DOMAIN requests /\ answer = requests[1] /\ answer \in RequestRecords(n)
    BY <1>2, <1>3, <1>4
  <2> QED
    BY <1>4, <2>1 DEF Loading, RequestRecords
<1>16. answer.pc = "answered" => answer \in Answers(requests)
  BY <1>4, <1>7 DEF Answers
<1>17. reading = Idle
  BY <1>3, <1>4 DEF IInv, ReadingSound
<1> QED
  BY <1>1, <1>2, <1>3, <1>11, <1>12, <1>14, <1>15, <1>16, <1>17 DEF NoAnswer

\* Every step: see `LoadsGrow` and what follows it.
StepLoads ==
    /\ (NoAnswer /\ SameHead) \/ EndEntries
    /\ LoadsGrow \/ ReceiveEntries
    /\ Wanted' \subseteq Wanted \cup opened'

\* Steps that leave the viewer alone.
LEMMA ServerLoads ==
  ASSUME IInv, UNCHANGED <<pages, treeErrors, activeBranchLoads, pendingTree, viewerVars>>,
         (NoAnswer /\ SameHead) \/ EndEntries
  PROVE  StepLoads
BY DEF StepLoads, LoadsGrow, Wanted, viewerVars

\* Steps of the companion, of the disk and of the socket.
LEMMA CompanionLoads ==
  ASSUME IInv, \/ Disk \/ BeginEntries \/ EndEntries \/ ServeContent \/ Apply \/ Cut \/ Connect
               \/ Looks \/ EndFlow \/ UNCHANGED vars
  PROVE  StepLoads
<1>1. UNCHANGED <<pages, treeErrors, activeBranchLoads, pendingTree, viewerVars>>
  BY DEF Disk, Rotate, Create, Delete, Change, BeginEntries, EndEntries, ServeContent, Apply, Cut,
     Connect, EndFlow, Looks, Watch, vars, loadVars
<1>2. CASE BeginEntries \/ ServeContent
  <2>1. requests # <<>> /\ reading = Idle
    BY <1>2 DEF BeginEntries, ServeContent, Waiting, Free
  <2>2. NoAnswer
    <3>1. CASE Failed
      BY <2>1, <3>1, FailedLoads
    <3>2. CASE requests' = requests
      BY <3>2 DEF NoAnswer
    <3>3. CASE ~Failed /\ requests' # requests
      <4>1. PICK file : requests' = [requests EXCEPT ![1].pc = "answered", ![1].generation = file]
        BY <1>2, <3>3 DEF BeginEntries, ServeContent
      <4>2. /\ requests \in Seq(RequestRecords(cache.last)) /\ Head(requests) = requests[1]
            /\ 1 \in DOMAIN requests /\ Head(requests).kind = "content"
        BY <1>2, <2>1, <3>3 DEF IInv, LoadsSound, QueueSound, BeginEntries, ServeContent, Waiting
      <4>3. PICK q \in RequestRecords(cache.last) : q = requests[1]
        BY <4>2
      <4>4. PICK r : r = [q EXCEPT !.pc = "answered", !.generation = file]
        OBVIOUS
      <4>5. r.kind = "content"
        BY <4>2, <4>3, <4>4 DEF RequestRecords
      <4>6. requests' = [requests EXCEPT ![1] = r]
        BY <4>1, <4>2, <4>3, <4>4
      <4>7. PICK after : after = requests'
        OBVIOUS
      <4>8. /\ DOMAIN after = DOMAIN requests /\ after[1] = r
            /\ \A i \in DOMAIN after : i # 1 => after[i] = requests[i]
        BY <4>2, <4>6, <4>7
      <4>9. ASSUME NEW i \in DOMAIN after
            PROVE  after[i] \in ToSet(requests) \/ after[i].kind # "entries"
        BY <4>5, <4>8 DEF ToSet
      <4>10. Answers(after) \subseteq Answers(requests)
        BY <4>9, AnswersFrom
      <4> QED
        BY <4>7, <4>10 DEF NoAnswer
    <3> QED
      BY <3>1, <3>2, <3>3
  <2> QED
    BY <1>1, <2>1, <2>2, ServerLoads DEF SameHead
<1>3. CASE EndEntries
  BY <1>1, <1>3, ServerLoads
<1>4. CASE ~(BeginEntries \/ ServeContent \/ EndEntries)
  <2>1. requests' = requests
    BY <1>4 DEF Disk, Rotate, Create, Delete, Change, Apply, Cut, Connect, EndFlow, Looks, Watch, vars, loadVars
  <2> QED
    BY <1>1, <2>1, ServerLoads DEF NoAnswer, SameHead
<1> QED
  BY <1>2, <1>3, <1>4

\* Directories that a refresh names: taken, marked, or followed by those that are open.
Naming(q) == {q[i].id : i \in DOMAIN q}

\* A refresh without its first directory, with the first one sent, and with more of them.
LEMMA NamesTaken ==
  ASSUME NEW S, NEW q \in Seq(S), q # <<>>, NEW r, r = Tail(q)
  PROVE  Naming(r) \subseteq Naming(q) /\ Head(q).id \in Naming(q)
<1>1. Sequence(q)
  BY SequenceOf
<1>2. /\ Head(q) = q[1] /\ Len(q) \in Nat \ {0} /\ DOMAIN q = 1..Len(q)
      /\ DOMAIN r = 1..(Len(q) - 1) /\ \A i \in 1..(Len(q) - 1) : r[i] = q[i + 1]
  BY <1>1, MessageTaken
<1>3. ASSUME NEW i \in DOMAIN r PROVE i + 1 \in DOMAIN q /\ r[i] = q[i + 1]
  BY <1>2
<1> QED
  BY <1>2, <1>3 DEF Naming

\* Sending the load of the first directory of a refresh changes no name.
LEMMA NamesMarked ==
  ASSUME NEW n, NEW q \in Seq([id : 1..n, sent : BOOLEAN]), q # <<>>,
         NEW r, r = [q EXCEPT ![1].sent = TRUE]
  PROVE  Naming(r) = Naming(q)
<1>1. PICK S : S = [id : 1..n, sent : BOOLEAN]
  OBVIOUS
<1>2. q \in Seq(S)
  BY <1>1
<1>3. 1 \in DOMAIN q /\ q[1] \in S
  BY <1>2
<1>4. PICK e \in S : e = q[1]
  BY <1>3
<1>5. PICK f : f = [e EXCEPT !.sent = TRUE]
  OBVIOUS
<1>6. f.id = e.id
  BY <1>1, <1>5
<1>7. r = [q EXCEPT ![1] = f]
  BY <1>3, <1>4, <1>5
<1>8. DOMAIN r = DOMAIN q /\ r[1] = f /\ \A i \in DOMAIN q : i # 1 => r[i] = q[i]
  BY <1>2, <1>3, <1>7
<1>9. ASSUME NEW i \in DOMAIN q PROVE r[i].id = q[i].id
  BY <1>4, <1>6, <1>8
<1> QED
  BY <1>8, <1>9 DEF Naming

\* A refresh that begins names its directories after the others.
LEMMA NamesAdded ==
  ASSUME NEW S, NEW q \in Seq(S), NEW more \in Seq(S), NEW r, r = q \o more
  PROVE  Naming(r) \subseteq Naming(q) \cup Naming(more)
<1>1. /\ Len(q) \in Nat /\ Len(more) \in Nat /\ DOMAIN q = 1..Len(q)
      /\ DOMAIN more = 1..Len(more)
  BY LenProperties
<1>2. r \in Seq(S) /\ Len(r) = Len(q) + Len(more)
      /\ \A i \in 1..(Len(q) + Len(more)) : r[i] = IF i <= Len(q) THEN q[i] ELSE more[i - Len(q)]
  BY ConcatProperties
<1>3. DOMAIN r = 1..(Len(q) + Len(more))
  BY <1>2, LenProperties
<1>4. ASSUME NEW i \in DOMAIN r PROVE r[i].id \in Naming(q) \cup Naming(more)
  <2>1. CASE i <= Len(q)
    BY <1>1, <1>2, <1>3, <2>1 DEF Naming
  <2>2. CASE ~(i <= Len(q))
    <3>1. i - Len(q) \in 1..Len(more)
      BY <1>1, <1>3, <2>2
    <3>2. r[i] = more[i - Len(q)]
      BY <1>2, <1>3, <2>2
    <3> QED
      BY <1>1, <3>1, <3>2 DEF Naming
  <2> QED
    BY <2>1, <2>2
<1> QED
  BY <1>4 DEF Naming

\* Steps of the viewer.
LEMMA ReceiveLoads ==
  ASSUME IInv, ReceiveEntries \/ ReceiveContent
  PROVE  StepLoads
<1>1. PICK n : n = cache.last
  OBVIOUS
<1>2. /\ refreshing \in Seq([id : 1..n, sent : BOOLEAN]) /\ n \in Nat /\ opened' = opened
      /\ requests \in Seq(RequestRecords(n))
  BY <1>1, LastTyped DEF IInv, ViewSound, LoadsSound, QueueSound, ReceiveEntries, ReceiveContent
<1>3. CASE ReceiveEntries
  <2>1. NoAnswer /\ SameHead
    BY <1>3, ReceivedLoads DEF SameHead
  <2>2. activeBranchLoads' \subseteq activeBranchLoads
    BY <1>3 DEF ReceiveEntries
  <2>3. Naming(refreshing') \subseteq Naming(refreshing)
    <3>1. CASE refreshing' = refreshing
      BY <3>1
    <3>2. CASE refreshing' # refreshing
      <4>1. refreshing # <<>> /\ refreshing' = Tail(refreshing)
        BY <1>3, <3>2 DEF ReceiveEntries, AwaitedByRefresh
      <4>2. PICK S, r : S = [id : 1..n, sent : BOOLEAN] /\ r = Tail(refreshing)
        OBVIOUS
      <4>3. refreshing \in Seq(S)
        BY <1>2, <4>2
      <4>4. Naming(r) \subseteq Naming(refreshing)
        BY <4>1, <4>2, <4>3, NamesTaken
      <4> QED
        BY <4>1, <4>2, <4>4
    <3> QED
      BY <3>1, <3>2
  <2> QED
    BY <1>2, <1>3, <2>1, <2>2, <2>3 DEF StepLoads, Wanted, Naming
<1>4. CASE ReceiveContent
  <2>1. NoAnswer
    <3>1. PICK rest : rest = Tail(requests)
      OBVIOUS
    <3>2. Sequence(requests) /\ requests # <<>> /\ requests' = rest
      BY <1>2, <1>4, <3>1, SequenceOf DEF ReceiveContent
    <3>3. ToSet(requests) = ToSet(rest) \cup {Head(requests)}
      BY <3>1, <3>2, MessageTaken
    <3>4. Answers(rest) \subseteq Answers(requests)
      BY <3>3 DEF Answers
    <3> QED
      BY <3>2, <3>4 DEF NoAnswer
  <2>2. SameHead
    BY <1>4 DEF IInv, ReadingSound, SameHead, ReceiveContent
  <2> QED
    BY <1>2, <1>4, <2>1, <2>2 DEF StepLoads, Wanted, ReceiveContent, LoadsGrow
<1> QED
  BY <1>3, <1>4

\* A message that the viewer handles begins loads, names directories to load, or selects.
LEMMA HandleLoads ==
  ASSUME IInv, Handle
  PROVE  StepLoads
<1>1. PICK n : n = cache.last
  OBVIOUS
<1>2. /\ n \in Nat /\ opened \in SUBSET (1..n) /\ opened' = opened /\ opening' = opening
      /\ refreshing \in Seq([id : 1..n, sent : BOOLEAN]) /\ selected \in 0..n
  BY <1>1, LastTyped DEF IInv, ViewSound, Handle
<1>3. PICK message : message = Head(toViewer)
  OBVIOUS
<1>4. \/ TreeChanged(message.ids)
      \/ UNCHANGED <<loadVars, refreshing>>
      \/ /\ \E order \in Orders(opened) : refreshing' = refreshing \o
                [i \in DOMAIN order |-> [id |-> order[i], sent |-> FALSE]]
         /\ UNCHANGED loadVars
      \/ Select(selected) /\ UNCHANGED refreshing
  BY <1>3 DEF Handle
<1>5. CASE TreeChanged(message.ids)
  <2>1. PICK order \in Orders((message.ids \cap opened) \ activeBranchLoads) :
          /\ Begin(order, requests)
          /\ pendingTree' = pendingTree \cup (message.ids \cap opened \cap activeBranchLoads)
          /\ UNCHANGED <<pages, refreshing>>
    BY <1>5 DEF TreeChanged
  <2>2. (message.ids \cap opened) \ activeBranchLoads \in SUBSET (1..n)
    BY <1>2
  <2>3. order \in Seq(1..n) /\ ToSet(order) = (message.ids \cap opened) \ activeBranchLoads
    BY <1>2, <2>1, <2>2, OrdersOnto
  <2>4. /\ NoAnswer /\ activeBranchLoads \subseteq activeBranchLoads'
        /\ activeBranchLoads' \subseteq activeBranchLoads \cup ToSet(order)
        /\ treeErrors \subseteq treeErrors'
        /\ requests # <<>> => Head(requests') = Head(requests)
    BY <1>1, <2>1, <2>3, BeginLoads DEF NoAnswer
  <2> QED
    BY <1>2, <2>1, <2>3, <2>4 DEF StepLoads, LoadsGrow, SameHead, Wanted, IInv, ReadingSound
<1>6. CASE UNCHANGED <<loadVars, refreshing>>
  BY <1>2, <1>6 DEF StepLoads, LoadsGrow, NoAnswer, SameHead, Wanted, loadVars
<1>7. CASE /\ \E order \in Orders(opened) : refreshing' = refreshing \o
                 [i \in DOMAIN order |-> [id |-> order[i], sent |-> FALSE]]
           /\ UNCHANGED loadVars
  <2>1. PICK order \in Orders(opened) : refreshing' = refreshing \o
          [i \in DOMAIN order |-> [id |-> order[i], sent |-> FALSE]]
    BY <1>7
  <2>2. order \in Seq(1..n) /\ ToSet(order) = opened
    BY <1>2, <2>1, OrdersOnto
  <2>3. PICK S, more : /\ S = [id : 1..n, sent : BOOLEAN]
                       /\ more = [i \in DOMAIN order |-> [id |-> order[i], sent |-> FALSE]]
    OBVIOUS
  <2>4. PICK r : r = refreshing \o more
    OBVIOUS
  <2>5. /\ DOMAIN order = 1..Len(order) /\ Len(order) \in Nat
        /\ \A i \in 1..Len(order) : order[i] \in 1..n /\ order[i] \in opened
    <3>1. DOMAIN order = 1..Len(order) /\ Len(order) \in Nat
      BY <2>2, LenProperties
    <3>2. \A i \in 1..Len(order) : order[i] \in ToSet(order)
      BY <3>1 DEF ToSet
    <3> QED
      BY <1>2, <2>2, <3>1, <3>2
  <2>6. more \in Seq(S)
    <3>1. more \in [1..Len(order) -> S]
      BY <2>3, <2>5
    <3> QED
      BY <2>5, <3>1
  <2>7. Naming(more) \subseteq opened
    BY <2>3, <2>5 DEF Naming
  <2>8. Naming(r) \subseteq Naming(refreshing) \cup Naming(more)
    <3>1. refreshing \in Seq(S)
      BY <1>2, <2>3
    <3> QED
      BY <2>4, <2>6, <3>1, NamesAdded
  <2>9. refreshing' = r
    BY <2>1, <2>3, <2>4
  <2>10. Naming(refreshing') \subseteq Naming(refreshing) \cup opened
    BY <2>7, <2>8, <2>9
  <2>11. Wanted = opened \cup activeBranchLoads \cup Naming(refreshing)
    BY DEF Wanted, Naming
  <2>12. Wanted' = opened' \cup activeBranchLoads' \cup Naming(refreshing')
    BY DEF Wanted, Naming
  <2>13. UNCHANGED <<pages, treeErrors, activeBranchLoads, pendingTree, requests>>
    BY <1>7 DEF loadVars
  <2>14. Wanted' \subseteq Wanted \cup opened'
    BY <1>2, <2>10, <2>11, <2>12, <2>13
  <2> QED
    BY <1>2, <2>13, <2>14 DEF StepLoads, LoadsGrow, NoAnswer, SameHead
<1>8. CASE Select(selected) /\ UNCHANGED refreshing
  <2>1. NoAnswer /\ SameHead
    BY <1>1, <1>2, <1>8, SelectLoads
  <2> QED
    BY <1>2, <1>8, <2>1 DEF StepLoads, LoadsGrow, Wanted, Select
<1> QED
  BY <1>4, <1>5, <1>6, <1>7, <1>8

\* A refresh begins the load of its first directory, or passes to the next one.
LEMMA RefreshLoads ==
  ASSUME IInv, Refresh
  PROVE  StepLoads
<1>1. PICK n : n = cache.last
  OBVIOUS
<1>2. PICK S : S = [id : 1..n, sent : BOOLEAN]
  OBVIOUS
<1>3. PICK id : id = Head(refreshing).id
  OBVIOUS
<1>4. /\ refreshing \in Seq(S) /\ refreshing # <<>> /\ UNCHANGED <<opened, opening, reading>>
  BY <1>1, <1>2 DEF IInv, ViewSound, Refresh, serverVars
<1>5. id \in 1..n
  <2>1. Head(refreshing) \in S
    BY <1>4
  <2> QED
    BY <1>2, <1>3, <2>1
<1>6. Naming(refreshing') \subseteq Naming(refreshing) /\ id \in Naming(refreshing)
  <2>1. PICK rest : rest = Tail(refreshing)
    OBVIOUS
  <2>2. Naming(rest) \subseteq Naming(refreshing) /\ id \in Naming(refreshing)
    BY <1>3, <1>4, <2>1, NamesTaken
  <2>3. CASE refreshing' = rest
    BY <2>2, <2>3
  <2>4. CASE refreshing' # rest
    <3>1. PICK marked : marked = [refreshing EXCEPT ![1].sent = TRUE]
      OBVIOUS
    <3>2. refreshing' = marked
      BY <2>1, <2>4, <3>1 DEF Refresh
    <3>3. Naming(marked) = Naming(refreshing)
      BY <1>2, <1>4, <3>1, NamesMarked
    <3> QED
      BY <2>2, <3>2, <3>3
  <2> QED
    BY <2>3, <2>4
<1>7. CASE UNCHANGED loadVars
  BY <1>4, <1>6, <1>7 DEF StepLoads, LoadsGrow, NoAnswer, SameHead, Wanted, Naming, loadVars
<1>8. CASE ~UNCHANGED loadVars
  <2>1. Begin(<<id>>, requests) /\ UNCHANGED <<pages, pendingTree>>
    BY <1>3, <1>8 DEF Refresh
  <2>2. /\ NoAnswer /\ activeBranchLoads \subseteq activeBranchLoads'
        /\ activeBranchLoads' \subseteq activeBranchLoads \cup {id}
        /\ treeErrors \subseteq treeErrors'
        /\ requests # <<>> => Head(requests') = Head(requests)
    BY <1>1, <1>5, <2>1, BeginOneLoad DEF NoAnswer
  <2> QED
    BY <1>4, <1>6, <2>1, <2>2 DEF StepLoads, LoadsGrow, SameHead, Wanted, Naming, IInv, ReadingSound
<1> QED
  BY <1>7, <1>8

\* The user begins loads only.
LEMMA UserLoads ==
  ASSUME IInv, User
  PROVE  StepLoads
<1>1. PICK n : n = cache.last
  OBVIOUS
<1>2. UNCHANGED <<refreshing, opening, reading>> /\ ViewSound(n)
  BY <1>1 DEF User, Toggle, SelectFile, Retry, serverVars, IInv
<1>3. ASSUME NEW id \in 1..n, id \in opened', Begin(<<id>>, requests), UNCHANGED <<pages, pendingTree>>
      PROVE  StepLoads
  <2>1. /\ NoAnswer /\ activeBranchLoads \subseteq activeBranchLoads'
        /\ activeBranchLoads' \subseteq activeBranchLoads \cup {id}
        /\ treeErrors \subseteq treeErrors'
        /\ requests # <<>> => Head(requests') = Head(requests)
    BY <1>1, <1>3, BeginOneLoad DEF NoAnswer
  <2> QED
    BY <1>2, <1>3, <2>1 DEF StepLoads, LoadsGrow, SameHead, Wanted, IInv, ReadingSound
<1>4. CASE Toggle
  <2>1. PICK e \in Shown :
          /\ opened' = IF e[2] \in opened THEN opened \ {e[2]} ELSE opened \cup {e[2]}
          /\ IF e[2] \in opened \cup activeBranchLoads THEN UNCHANGED loadVars
             ELSE Begin(<<e[2]>>, requests) /\ UNCHANGED <<pages, pendingTree>>
    BY <1>4 DEF Toggle
  <2>2. PICK id : id = e[2]
    OBVIOUS
  <2>3. id \in 1..n
    BY <1>2, <2>2 DEF Shown, ViewSound
  <2>4. CASE UNCHANGED loadVars
    BY <1>2, <2>4 DEF StepLoads, LoadsGrow, NoAnswer, SameHead, Wanted, loadVars
  <2>5. CASE ~UNCHANGED loadVars
    BY <1>3, <2>1, <2>2, <2>3, <2>5
  <2> QED
    BY <2>4, <2>5
<1>5. CASE SelectFile
  <2>1. PICK e \in Shown : Select(e[2]) /\ opened' = opened
    BY <1>5 DEF SelectFile
  <2>2. e[2] \in 0..n
    BY <1>1, <1>2, LastTyped DEF Shown, ViewSound
  <2>3. NoAnswer /\ SameHead
    BY <1>1, <2>1, <2>2, SelectLoads
  <2> QED
    BY <1>2, <2>1, <2>3 DEF StepLoads, LoadsGrow, Wanted, Select
<1>6. CASE Retry
  <2>1. PICK id \in opened : Begin(<<id>>, requests) /\ UNCHANGED <<pages, pendingTree, opened>>
    BY <1>6 DEF Retry
  <2>2. id \in 1..n /\ id \in opened'
    BY <1>2, <2>1 DEF ViewSound
  <2> QED
    BY <1>3, <2>1, <2>2
<1> QED
  BY <1>4, <1>5, <1>6 DEF User

\* Every step.
LEMMA NextLoads ==
  ASSUME IInv, [Next]_vars
  PROVE  StepLoads
<1>1. CASE Disk \/ BeginEntries \/ EndEntries \/ ServeContent \/ Apply \/ Cut \/ Connect
           \/ Looks \/ EndFlow \/ UNCHANGED vars
  BY <1>1, CompanionLoads
<1>2. CASE User
  BY <1>2, UserLoads
<1>3. CASE ReceiveEntries \/ ReceiveContent \/ Handle \/ Refresh
  BY <1>3, ReceiveLoads, HandleLoads, RefreshLoads
<1> QED
  BY <1>1, <1>2, <1>3, NextIs
-----------------------------------------------------------------------------
(* Pages *)

\* Only the user opens and closes directories.
LEMMA OnlyToggleOpens ==
  ASSUME [Next]_vars, ~Toggle
  PROVE  opened' = opened
BY NextIs DEF Disk, Rotate, Create, Delete, Change, User, SelectFile, Retry, BeginEntries,
   EndEntries, ServeContent, Apply, Looks, Watch, EndFlow, ReceiveEntries, ReceiveContent, Handle, Refresh, Connect,
   Cut, vars, viewerVars

\* The root is always known.
LEMMA RootKnown ==
  ASSUME IInv, World
  PROVE  Known(cache, TopId) /\ cache.nodes[TopId] = Top /\ TopId \in 1..cache.last
BY LastTyped DEF IInv, CacheSound, OrderSound, CacheTyped, World, DirectoriesIndexed, Known, TopId

\* A directory that the user sees is the one below the root, on the page of the root.
LEMMA ShownDirectory ==
  ASSUME IInv, World, PagesSound, NEW e \in Shown, IsDirectory(e[1])
  PROVE  /\ TopId \in DOMAIN pages /\ e \in pages[TopId] /\ e = <<Directory, e[2]>>
         /\ e[2] \in 1..cache.last /\ e[2] # TopId
         /\ Known(cache, e[2]) => cache.nodes[e[2]] = Directory
<1>1. PICK id \in DOMAIN pages : e \in pages[id]
  BY DEF Shown
<1>2. e \in Paths \X (1..cache.last)
  BY <1>1 DEF IInv, ViewSound
<1>3. DirectoryEntry(e, id)
  BY <1>1 DEF PagesSound, EntriesSound
<1>4. id = TopId /\ e[1] = Directory /\ (Known(cache, e[2]) => cache.nodes[e[2]] = Directory)
  BY <1>3 DEF DirectoryEntry
<1>5. e[2] # TopId
  BY <1>4, RootKnown, FilesApart
<1>6. e = <<e[1], e[2]>> /\ e[2] \in 1..cache.last
  BY <1>2
<1> QED
  BY <1>1, <1>4, <1>5, <1>6

\* What the viewer wants remains a directory, since identifiers are not given again.
LEMMA DirectoriesWantedStep ==
  ASSUME IInv, IInv', Basic, Ages, StepLoads, [Next]_vars
  PROVE  DirectoriesWanted'
<1> SUFFICES ASSUME NEW id \in Wanted', Known(cache', id)
             PROVE  IsDirectory(cache'.nodes[id])
  BY DEF DirectoriesWanted, Known, IsDirectory
<1>1. CASE id \in Wanted
  <2>1. id \in 1..cache.last /\ (Known(cache, id) => IsDirectory(cache.nodes[id]))
    BY <1>1, WantedGiven DEF Basic, DirectoriesWanted
  <2> QED
    BY <2>1, DirectoryBefore DEF IsDirectory
<1>2. CASE id \notin Wanted
  <2>1. id \in opened' /\ id \notin opened
    BY <1>2 DEF StepLoads, Wanted
  <2>2. Toggle
    BY <2>1, OnlyToggleOpens
  <2>3. PICK e \in Shown : /\ IsDirectory(e[1])
                           /\ opened' = IF e[2] \in opened THEN opened \ {e[2]} ELSE opened \cup {e[2]}
    BY <2>2 DEF Toggle
  <2>4. id = e[2] /\ cache' = cache
    BY <2>1, <2>2, <2>3 DEF Toggle, serverVars
  <2>5. cache.nodes[id] = Directory
    BY <2>3, <2>4, ShownDirectory DEF Basic
  <2> QED
    BY <2>4, <2>5 DEF IsDirectory
<1> QED
  BY <1>1, <1>2

\* Entries of a page or an answer, some time later.
LEMMA EntriesLater ==
  ASSUME IInv, Ages, NEW entries, entries \subseteq Paths \X (1..cache.last), NEW id,
         EntriesSound(id, entries)
  PROVE  EntriesSound(id, entries)'
<1>1. ASSUME NEW e \in entries, IsDirectory(e[1])
      PROVE  DirectoryEntry(e, id)'
  <2>1. e[2] \in 1..cache.last /\ DirectoryEntry(e, id)
    BY <1>1 DEF EntriesSound
  <2>2. ASSUME Known(cache', e[2]) PROVE cache'.nodes[e[2]] = Directory
    BY <2>1, <2>2 DEF Ages, Later, DirectoryEntry, IsDirectory
  <2> QED
    BY <2>1, <2>2 DEF DirectoryEntry, Known
<1>2. OneDirectory(entries)
  BY DEF EntriesSound
<1> QED
  BY <1>1, <1>2 DEF EntriesSound, OneDirectory

\* Entries that have been answered have paths and identifiers.
LEMMA AnswersTyped ==
  ASSUME IInv, NEW r \in Answers(requests)
  PROVE  /\ r.entries \subseteq Paths \X (1..cache.last) /\ r.id \in activeBranchLoads
         /\ r.id \in 1..cache.last
<1>1. PICK n : n = cache.last
  OBVIOUS
<1>2. requests \in Seq(RequestRecords(n)) /\ activeBranchLoads = Loading(requests)
  BY <1>1 DEF IInv, LoadsSound, QueueSound
<1>3. PICK i \in DOMAIN requests : r = requests[i] /\ r.kind = "entries"
  BY DEF Answers, ToSet
<1>4. r \in RequestRecords(n)
  BY <1>2, <1>3
<1> QED
  BY <1>1, <1>2, <1>3, <1>4 DEF RequestRecords, Loading

\* The answer to the listing in progress: what the directory holds at that moment.
AnswerOf(r) ==
    /\ r.id = Head(requests).id /\ Known(cache, r.id) /\ cache.nodes[r.id] = reading.path
    /\ IsDirectory(reading.path) /\ EntriesSound(r.id, r.entries)'
    /\ Listing(r.entries) = Children(reading.path)
    /\ Directory \in Children(reading.path) /\ Directory \in DOMAIN cache.ids
          => <<Directory, cache.ids[Directory]>> \in r.entries

\* A listing that ends well shows its directory as it is, with the identifier of the one
\* below the root if it has one.
LEMMA ListingAnswered ==
  ASSUME IInv, World, ReadsSound, EndEntries
  PROVE  \A r \in Answers(requests') : r \in Answers(requests) \/ AnswerOf(r)
<1>1. PICK id, path : id = Head(requests).id /\ path = reading.path
  OBVIOUS
<1>2. /\ Known(cache, id) /\ path = cache.nodes[id] /\ IsDirectory(path)
      /\ reading.names \subseteq {p \in Paths \ {Top} : Parent(p) = path}
      /\ reading.rev[2] = stamp[path] => reading.names = Children(path)
  BY <1>1 DEF ReadsSound, EndEntries, Free
<1>3. requests # <<>>
  BY DEF IInv, ReadingSound, EndEntries, Free
<1>4. CASE Failed
  BY <1>3, <1>4, FailedLoads DEF NoAnswer
<1>5. CASE ~Failed
  <2> DEFINE gone == {i \in DOMAIN Names : Names[i] \in reading.names /\ disk[Names[i]] = 0}
  <2>1. PICK names : names = {Names[i] : i \in {i \in DOMAIN Names :
                         Names[i] \in reading.names /\ \A j \in gone : i < j}}
    OBVIOUS
  <2>2. PICK page : page = Listed(cache, names)
    OBVIOUS
  <2>3. /\ cache' = page.cache /\ gone = {} /\ Revision(path) = reading.rev
        /\ requests' = [requests EXCEPT ![1].pc = "answered", ![1].entries = page.entries]
    BY <1>1, <1>5, <2>1, <2>2 DEF EndEntries
  <2>4. names = reading.names
    <3>1. names = {Names[i] : i \in {i \in DOMAIN Names : Names[i] \in reading.names}}
      BY <2>1, <2>3
    <3>2. reading.names \subseteq {Names[i] : i \in DOMAIN Names}
      BY <1>2 DEF Paths, ToSet
    <3> QED
      BY <3>1, <3>2
  <2> HIDE DEF gone
  <2>5. names \subseteq ToSet(Names)
    BY <2>1 DEF ToSet
  <2>6. names = Children(path)
    BY <1>2, <2>3, <2>4 DEF Revision
  <2>0. CacheSound(cache) /\ DirectoriesIndexed(cache)
    BY DEF IInv, World
  <2>7. PageLater(cache, page)
    BY <2>0, <2>2, <2>5, ListedLater
  <2>8. Listing(page.entries) = names
    BY <2>0, <2>2, <2>5, ListedLater
  <2>9. BelowRoot(page)
    BY <2>0, <2>2, <2>5, ListedLater
  <2>10. OneDirectory(page.entries)
    BY <2>0, <2>2, <2>5, ListedLater
  <2>11. Directory \in names /\ Directory \in DOMAIN cache.ids
            => <<Directory, cache.ids[Directory]>> \in page.entries
    BY <2>0, <2>2, <2>5, ListedLater
  <2>12. ASSUME NEW e \in page.entries, IsDirectory(e[1])
         PROVE  DirectoryEntry(e, id)'
    <3>1. e[1] = Directory /\ e[1] \in names
      BY <2>8, <2>9, <2>12 DEF Listing, BelowRoot
    <3>2. path = Top
      BY <1>2, <2>4, <3>1, PathsAssumption DEF Parent
    <3>3. id = TopId
      BY <1>2, <3>2, RootKnown DEF World, DirectoriesIndexed, Known
    <3> QED
      BY <2>3, <2>9, <2>12, <3>1, <3>3 DEF DirectoryEntry, Known, BelowRoot
  <2>13. EntriesSound(id, page.entries)'
    BY <2>3, <2>10, <2>12 DEF EntriesSound, OneDirectory
  <2>14. PICK n : n = cache.last
    OBVIOUS
  <2>15. /\ requests \in Seq(RequestRecords(n)) /\ Head(requests) = requests[1]
         /\ 1 \in DOMAIN requests
    BY <1>3, <2>14 DEF IInv, LoadsSound, QueueSound
  <2>16. PICK q \in RequestRecords(n) : q = requests[1]
    BY <2>15
  <2>17. PICK r, es : es = page.entries /\ r = [q EXCEPT !.pc = "answered", !.entries = es]
    OBVIOUS
  <2>18. r.id = id /\ r.entries = page.entries
    BY <1>1, <2>15, <2>16, <2>17 DEF RequestRecords
  <2>19. requests' = [requests EXCEPT ![1] = r]
    BY <2>3, <2>15, <2>16, <2>17
  <2>20. PICK after : after = requests'
    OBVIOUS
  <2>21. /\ DOMAIN after = DOMAIN requests /\ after[1] = r
         /\ \A i \in DOMAIN after : i # 1 => after[i] = requests[i]
    BY <2>15, <2>19, <2>20
  <2>22. AnswerOf(r)
    BY <1>1, <1>2, <2>6, <2>8, <2>11, <2>13, <2>18 DEF AnswerOf
  <2>23. ASSUME NEW a \in Answers(after) PROVE a \in Answers(requests) \/ a = r
    BY <2>21 DEF Answers, ToSet
  <2> QED
    BY <2>20, <2>22, <2>23
<1> QED
  BY <1>4, <1>5

\* A page is the one it was, or the answer that has been taken.
LEMMA PagesFrom ==
  ASSUME IInv, StepLoads
  PROVE  /\ DOMAIN pages \subseteq DOMAIN pages'
         /\ \A id \in DOMAIN pages' :
               \/ id \in DOMAIN pages /\ pages'[id] = pages[id]
               \/ /\ ReceiveEntries /\ Head(requests) \in Answers(requests)
                  /\ id = Head(requests).id /\ pages'[id] = Head(requests).entries
<1>1. CASE LoadsGrow
  BY <1>1 DEF LoadsGrow
<1>2. CASE ReceiveEntries
  <2>1. PICK answer : answer = Head(requests)
    OBVIOUS
  <2>2. CASE answer.pc # "answered"
    BY <1>2, <2>1, <2>2 DEF ReceiveEntries
  <2>3. CASE answer.pc = "answered"
    <3>1. answer \in Answers(requests)
      BY <1>2, <2>1, <2>3, ReceivedLoads
    <3>2. pages' = With(pages, answer.id, answer.entries)
      BY <1>2, <2>1, <2>3 DEF ReceiveEntries
    <3>3. /\ DOMAIN pages' = DOMAIN pages \cup {answer.id} /\ pages'[answer.id] = answer.entries
          /\ \A id \in DOMAIN pages : id # answer.id => pages'[id] = pages[id]
      BY <3>2 DEF With
    <3> QED
      BY <1>2, <2>1, <3>1, <3>3
  <2> QED
    BY <2>2, <2>3
<1> QED
  BY <1>1, <1>2 DEF StepLoads

\* An answer is an earlier one, or the listing that ends.
LEMMA AnswersBefore ==
  ASSUME IInv, World, ReadsSound, StepLoads, NEW r \in Answers(requests')
  PROVE  r \in Answers(requests) \/ (EndEntries /\ AnswerOf(r))
BY ListingAnswered DEF StepLoads, NoAnswer

\* Pages and answers remain sound, and an open directory stays on the page of the root: a
\* new list of the root has it with the same identifier, as long as it is the original.
LEMMA PagesStep ==
  ASSUME IInv, IInv', Basic, Ages, StepLoads, [Next]_vars
  PROVE  PagesSound'
<1>1. World /\ PagesSound /\ ReadsSound /\ DirectoriesWanted
  BY DEF Basic
<1>2. ASSUME NEW r \in Answers(requests) PROVE EntriesSound(r.id, r.entries)'
  <2>1. r.entries \subseteq Paths \X (1..cache.last) /\ EntriesSound(r.id, r.entries)
    BY <1>1, AnswersTyped DEF PagesSound
  <2> QED
    BY <2>1, EntriesLater
<1>3. ASSUME NEW id \in DOMAIN pages' PROVE EntriesSound(id, pages[id])'
  <2>1. CASE id \in DOMAIN pages /\ pages'[id] = pages[id]
    <3>1. PICK es : es = pages[id]
      OBVIOUS
    <3>2. es \subseteq Paths \X (1..cache.last) /\ EntriesSound(id, es)
      BY <1>1, <2>1, <3>1 DEF IInv, ViewSound, PagesSound
    <3>3. EntriesSound(id, es)'
      BY <3>2, EntriesLater
    <3> QED
      BY <2>1, <3>1, <3>3 DEF EntriesSound
  <2>2. CASE /\ Head(requests) \in Answers(requests)
             /\ id = Head(requests).id /\ pages'[id] = Head(requests).entries
    <3>1. PICK r \in Answers(requests) : id = r.id /\ pages'[id] = r.entries
      BY <2>2
    <3>2. EntriesSound(id, r.entries)'
      BY <1>2, <3>1
    <3> QED
      BY <3>1, <3>2 DEF EntriesSound
  <2> QED
    BY <2>1, <2>2, PagesFrom
<1>4. ASSUME NEW r \in Answers(requests') PROVE EntriesSound(r.id, r.entries)'
  BY <1>1, <1>2, <1>4, AnswersBefore DEF AnswerOf
<1>5. ASSUME NEW r \in Answers(requests'), r.id = TopId, TopId \in DOMAIN pages',
             NEW e \in pages'[TopId], IsDirectory(e[1]), Known(cache', e[2]), disk'[Directory] = 1
      PROVE  e \in r.entries
  <2>1. TopId \in DOMAIN pages /\ pages'[TopId] = pages[TopId]
    <3>1. ReceiveEntries => Head(requests).id # TopId
      BY <1>5, ReceivedLoads
    <3> QED
      BY <1>5, <3>1, PagesFrom
  <2>2. e \in Paths \X (1..cache.last) /\ DirectoryEntry(e, TopId)
    BY <1>1, <1>5, <2>1 DEF IInv, ViewSound, PagesSound, EntriesSound
  <2>3. Known(cache, e[2]) /\ disk[Directory] = 1
    BY <1>5, <2>2 DEF Ages, Later, Passes
  <2>4. CASE r \in Answers(requests)
    BY <1>1, <1>5, <2>1, <2>3, <2>4 DEF PagesSound, Keeps
  <2>5. CASE AnswerOf(r)
    <3>1. cache.nodes[e[2]] = Directory /\ e = <<Directory, e[2]>>
      BY <2>2, <2>3 DEF DirectoryEntry
    <3>2. Directory \in DOMAIN cache.ids /\ cache.ids[Directory] = e[2]
      BY <1>1, <2>3, <3>1, OneBelow DEF IInv
    <3>3. reading.path = Top
      BY <1>1, <1>5, <2>5, RootKnown DEF AnswerOf
    <3>4. Directory \in Children(Top)
      <4>1. Directory \in Paths \ {Top} /\ Parent(Directory) = Top
        BY PathsAssumption DEF Paths, Names, ToSet, Parent
      <4> QED
        BY <2>3, <4>1 DEF Children
    <3> QED
      BY <2>5, <3>1, <3>2, <3>3, <3>4 DEF AnswerOf
  <2> QED
    BY <1>1, <1>5, <2>4, <2>5, AnswersBefore
<1>6. ASSUME NEW id \in opened' \ {TopId}
      PROVE  TopId \in DOMAIN pages' /\ (Watched(id)' => <<Directory, id>> \in pages'[TopId])
  <2>1. CASE id \in opened
    <3>1. TopId \in DOMAIN pages /\ TopId \in DOMAIN pages'
      BY <1>1, <1>6, <2>1, PagesFrom DEF PagesSound
    <3>2. ASSUME Watched(id)' PROVE <<Directory, id>> \in pages'[TopId]
      <4>1. Watched(id) /\ disk[cache.nodes[id]] = 1
        BY <1>1, <2>1, <3>2, WatchedBefore
      <4>2. PICK e : e = <<Directory, id>>
        OBVIOUS
      <4>3. e \in pages[TopId] /\ e[1] = Directory /\ e[2] = id
        BY <1>1, <1>6, <2>1, <4>1, <4>2 DEF PagesSound
      <4>4. DirectoryEntry(e, TopId)
        BY <1>1, <3>1, <4>3 DEF PagesSound, EntriesSound, IsDirectory
      <4>5. Known(cache, id) /\ disk[Directory] = 1
        BY <4>1, <4>3, <4>4 DEF DirectoryEntry, Watched
      <4>6. CASE pages'[TopId] = pages[TopId]
        BY <4>2, <4>3, <4>6
      <4>7. CASE pages'[TopId] # pages[TopId]
        <5>1. PICK r \in Answers(requests) : r.id = TopId /\ pages'[TopId] = r.entries
          BY <3>1, <4>7, PagesFrom
        <5>2. Keeps(r.entries)
          BY <1>1, <3>1, <5>1 DEF PagesSound
        <5>3. e \in r.entries
          BY <4>3, <4>5, <5>2 DEF Keeps, IsDirectory
        <5> QED
          BY <4>2, <5>1, <5>3
      <4> QED
        BY <4>6, <4>7
    <3> QED
      BY <3>1, <3>2
  <2>2. CASE id \notin opened
    <3>1. Toggle
      BY <1>6, <2>2, OnlyToggleOpens
    <3>2. PICK e \in Shown : /\ IsDirectory(e[1])
                             /\ opened' = IF e[2] \in opened THEN opened \ {e[2]} ELSE opened \cup {e[2]}
      BY <3>1 DEF Toggle
    <3>3. id = e[2]
      BY <1>6, <2>2, <3>2
    <3>4. TopId \in DOMAIN pages /\ <<Directory, id>> \in pages[TopId]
      BY <1>1, <3>2, <3>3, ShownDirectory
    <3>5. pages' = pages
      BY <3>1 DEF Toggle, loadVars
    <3> QED
      BY <3>4, <3>5
  <2> QED
    BY <2>1, <2>2
<1>7. \A id \in DOMAIN pages' : EntriesSound(id, pages[id])'
  BY <1>3
<1>8. \A r \in Answers(requests') : EntriesSound(r.id, r.entries)'
  BY <1>4
<1>9. ASSUME NEW r \in Answers(requests'), r.id = TopId, TopId \in DOMAIN pages'
      PROVE  Keeps(r.entries)'
  BY <1>5, <1>9 DEF Keeps, Known
<1>10. (\A id \in DOMAIN pages : EntriesSound(id, pages[id]))'
  BY <1>7
<1>11. (\A r \in Answers(requests) : EntriesSound(r.id, r.entries))'
  BY <1>8 DEF Answers
<1>12. (\A r \in Answers(requests) : r.id = TopId /\ TopId \in DOMAIN pages => Keeps(r.entries))'
  BY <1>9 DEF Answers
<1>13. (\A id \in opened \ {TopId} :
          TopId \in DOMAIN pages /\ (Watched(id) => <<Directory, id>> \in pages[TopId]))'
  BY <1>6
<1> QED
  BY <1>10, <1>11, <1>12, <1>13 DEF PagesSound
-----------------------------------------------------------------------------
(* Messages *)

\* One sequence after the other.
LEMMA MessagesJoined ==
  ASSUME NEW q, Sequence(q), NEW m, Sequence(m), NEW r, r = q \o m
  PROVE  Sequence(r) /\ ToSet(r) = ToSet(q) \cup ToSet(m)
<1>1. PICK S : S = ToSet(q) \cup ToSet(m)
  OBVIOUS
<1>2. q \in Seq(S) /\ m \in Seq(S)
  <2>1. PICK A, B : A = ToSet(q) /\ B = ToSet(m)
    OBVIOUS
  <2>2. q \in Seq(A) /\ m \in Seq(B) /\ A \subseteq S /\ B \subseteq S
    BY <1>1, <2>1 DEF Sequence
  <2> QED
    BY <2>2, SeqMonotonic
<1>3. /\ Len(q) \in Nat /\ Len(m) \in Nat /\ DOMAIN q = 1..Len(q) /\ DOMAIN m = 1..Len(m)
  BY <1>2, LenProperties
<1>4. r \in Seq(S) /\ Len(r) = Len(q) + Len(m)
      /\ \A i \in 1..(Len(q) + Len(m)) : r[i] = IF i <= Len(q) THEN q[i] ELSE m[i - Len(q)]
  BY <1>2, ConcatProperties
<1>5. DOMAIN r = 1..(Len(q) + Len(m))
  BY <1>4, LenProperties
<1>6. ASSUME NEW i \in DOMAIN r PROVE r[i] \in S
  BY <1>4, <1>5, ElementOfSeq
<1>7. ASSUME NEW x \in S PROVE \E i \in DOMAIN r : r[i] = x
  <2>1. CASE x \in ToSet(q)
    <3>1. PICK i \in 1..Len(q) : x = q[i]
      BY <1>3, <2>1 DEF ToSet
    <3>2. i \in 1..(Len(q) + Len(m)) /\ i <= Len(q)
      BY <1>3
    <3> QED
      BY <1>4, <1>5, <3>1, <3>2
  <2>2. CASE x \in ToSet(m)
    <3>1. PICK i \in 1..Len(m) : x = m[i]
      BY <1>3, <2>2 DEF ToSet
    <3>2. Len(q) + i \in 1..(Len(q) + Len(m)) /\ ~(Len(q) + i <= Len(q)) /\ (Len(q) + i) - Len(q) = i
      BY <1>3
    <3> QED
      BY <1>4, <1>5, <3>1, <3>2
  <2> QED
    BY <1>1, <2>1, <2>2
<1>8. ToSet(r) = S
  BY <1>6, <1>7 DEF ToSet
<1> QED
  BY <1>1, <1>4, <1>8, SequenceOf

\* What a step does to the messages of the viewer.
SendsOne(m) == connected /\ connected' /\ toServer' = toServer \o <<m>>
Mail ==
    \/ /\ UNCHANGED <<connected, toServer>>
       /\ connected => UNCHANGED <<opened, selected>> /\ (opening => opening')
    \/ \E m : /\ SendsOne(m)
              /\ \/ m.type = "branches" /\ m.ids = opened' /\ UNCHANGED selected
                 \/ m.type = "subscribe" /\ m.id = selected /\ UNCHANGED <<opened, selected, opening>>
                 \/ m.type = "unsubscribe" /\ UNCHANGED <<opened, opening>>
    \/ Apply \/ Cut \/ Connect

\* A selection gives up the one before.
LEMMA SelectMail ==
  ASSUME NEW id, Select(id), UNCHANGED <<connected, opened, opening>>
  PROVE  Mail
<1>1. PICK m : m = [type |-> "unsubscribe"]
  OBVIOUS
<1>2. m.type = "unsubscribe" /\ toServer' = IF connected THEN toServer \o <<m>> ELSE toServer
  BY <1>1 DEF Select, Send
<1> QED
  BY <1>2 DEF Mail, SendsOne

\* Every step sends at most one message to the companion, unless it is one of the three.
LEMMA NextMail ==
  ASSUME Sequence(toServer), [Next]_vars
  PROVE  Mail
<1>1. CASE Apply \/ Cut \/ Connect
  BY <1>1 DEF Mail
<1>2. CASE UNCHANGED <<connected, toServer, opened, selected, opening>>
  BY <1>2 DEF Mail
<1>3. CASE Disk \/ BeginEntries \/ EndEntries \/ ServeContent \/ Looks \/ EndFlow
           \/ Refresh \/ Retry \/ UNCHANGED vars
  <2>1. UNCHANGED <<connected, toServer, opened, selected, opening>>
    BY <1>3 DEF Disk, Rotate, Create, Delete, Change, BeginEntries, EndEntries, ServeContent, Looks,
       Watch, EndFlow, Refresh, Retry, vars, socketVars, viewerVars
  <2> QED
    BY <1>2, <2>1
<1>4. CASE ReceiveEntries
  <2>1. UNCHANGED <<connected, opened, selected>> /\ opening' = FALSE
    BY <1>4 DEF ReceiveEntries
  <2>2. CASE opening
    <3>1. PICK m : m = Branches(opened)
      OBVIOUS
    <3>2. m.type = "branches" /\ m.ids = opened'
      BY <2>1, <3>1 DEF Branches
    <3>3. toServer' = IF connected THEN toServer \o <<m>> ELSE toServer
      BY <1>4, <2>2, <3>1 DEF ReceiveEntries, Send
    <3> QED
      BY <2>1, <3>2, <3>3 DEF Mail, SendsOne
  <2>3. CASE ~opening
    <3>1. PICK t : t = toServer \o <<>>
      OBVIOUS
    <3>2. toServer' = IF connected THEN t ELSE toServer
      BY <1>4, <2>3, <3>1 DEF ReceiveEntries, Send
    <3>3. toServer' = toServer
      <4>1. t = toServer
        BY <3>1, ConcatEmptySeq DEF Sequence
      <4> QED
        BY <3>2, <4>1
    <3> QED
      BY <2>1, <2>3, <3>3 DEF Mail
  <2> QED
    BY <2>2, <2>3
<1>5. CASE ReceiveContent
  <2>1. UNCHANGED <<connected, opened, selected, opening>>
    BY <1>5 DEF ReceiveContent
  <2>2. CASE toServer' = toServer
    BY <1>2, <2>1, <2>2
  <2>3. CASE toServer' # toServer
    <3>1. PICK m : m = [type |-> "subscribe", id |-> selected, generation |-> Head(requests).generation]
      OBVIOUS
    <3>2. m.type = "subscribe" /\ m.id = selected
      BY <3>1
    <3>3. toServer' = IF connected THEN toServer \o <<m>> ELSE toServer
      BY <1>5, <2>3, <3>1 DEF ReceiveContent, Send
    <3> QED
      BY <2>1, <3>2, <3>3 DEF Mail, SendsOne
  <2> QED
    BY <2>2, <2>3
<1>6. CASE Handle
  <2>1. UNCHANGED <<connected, opened, opening>>
    BY <1>6 DEF Handle
  <2>2. Select(selected) \/ UNCHANGED <<toServer, selected>>
    BY <1>6 DEF Handle, TreeChanged
  <2> QED
    BY <1>2, <2>1, <2>2, SelectMail
<1>7. CASE SelectFile
  <2>1. PICK id : Select(id)
    BY <1>7 DEF SelectFile
  <2> QED
    BY <1>7, <2>1, SelectMail DEF SelectFile
<1>8. CASE Toggle
  <2>1. PICK m : m = Branches(opened')
    OBVIOUS
  <2>2. m.type = "branches" /\ m.ids = opened'
    BY <2>1 DEF Branches
  <2>3. toServer' = IF connected THEN toServer \o <<m>> ELSE toServer
    BY <1>8, <2>1 DEF Toggle, Send
  <2>4. UNCHANGED <<connected, selected>>
    BY <1>8 DEF Toggle
  <2> QED
    BY <2>2, <2>3, <2>4 DEF Mail, SendsOne
<1> QED
  BY <1>1, <1>3, <1>4, <1>5, <1>6, <1>7, <1>8, NextIs DEF User

\* What a step does to the messages of the companion: some are added, or the first one is
\* taken; a cut loses them.
Post ==
    \/ Sequence(toViewer') /\ ToSet(toViewer) \subseteq ToSet(toViewer')
    \/ Handle
    \/ Cut

\* Every step.
LEMMA NextPost ==
  ASSUME Sequence(toViewer), [Next]_vars
  PROVE  Post
<1>1. CASE Handle \/ Cut
  BY <1>1 DEF Post
<1>2. ASSUME NEW due \in BOOLEAN, Watch(due, TRUE) PROVE Post
  <2>1. PICK c : c = Relocate(cache, {selection.id})
    OBVIOUS
  <2>2. PICK renamed, reset :
          /\ renamed = IF c # cache THEN <<About("file-renamed")>> ELSE <<>>
          /\ reset = IF disk[c.nodes[selection.id]] \notin {0, selection.generation}
                     THEN <<About("reset")>> ELSE <<>>
    OBVIOUS
  <2>3. PICK file : file = IF selection = NoSelection THEN <<>> ELSE renamed \o reset
    OBVIOUS
  <2>4. PICK tree : tree = IF due THEN TreeMessages ELSE <<>>
    OBVIOUS
  <2>5. toViewer' = (toViewer \o file) \o tree
    BY <1>2, <2>1, <2>2, <2>3, <2>4 DEF Watch, FileMessages
  <2>6. Sequence(renamed) /\ Sequence(reset)
    BY <2>2, FewMessages
  <2>7. Sequence(file)
    <3>1. PICK both : both = renamed \o reset
      OBVIOUS
    <3>2. Sequence(both)
      BY <2>6, <3>1, MessagesJoined
    <3> QED
      BY <2>3, <3>1, <3>2, FewMessages
  <2>8. Sequence(tree)
    BY <2>4, FewMessages DEF TreeMessages
  <2>9. PICK most : most = toViewer \o file
    OBVIOUS
  <2>10. Sequence(most) /\ ToSet(toViewer) \subseteq ToSet(most)
    <3>1. PICK q : q = toViewer
      OBVIOUS
    <3>2. Sequence(q) /\ most = q \o file
      BY <2>9, <3>1
    <3>3. Sequence(most) /\ ToSet(most) = ToSet(q) \cup ToSet(file)
      BY <2>7, <3>2, MessagesJoined
    <3> QED
      BY <3>1, <3>3
  <2>11. PICK all : all = most \o tree
    OBVIOUS
  <2>12. Sequence(all) /\ ToSet(most) \subseteq ToSet(all)
    <3>1. Sequence(most)
      BY <2>10
    <3>2. Sequence(all) /\ ToSet(all) = ToSet(most) \cup ToSet(tree)
      BY <2>8, <2>11, <3>1, MessagesJoined
    <3> QED
      BY <3>2
  <2> QED
    BY <2>5, <2>9, <2>10, <2>11, <2>12 DEF Post
<1>3. CASE UNCHANGED toViewer
  BY <1>3 DEF Post
<1>4. CASE ~(Handle \/ Cut \/ Looks)
  <2>1. UNCHANGED toViewer
    BY <1>4, NextIs DEF Disk, Rotate, Create, Delete, Change, User, Toggle, SelectFile, Retry,
       BeginEntries, EndEntries, ServeContent, Apply, ReceiveEntries, ReceiveContent, Refresh,
       Connect, EndFlow, vars, socketVars
  <2> QED
    BY <1>3, <2>1
<1>5. ASSUME NEW due \in BOOLEAN, Watch(due, FALSE) PROVE Post
  <2>1. toViewer' = toViewer
    BY <1>5 DEF Watch
  <2> QED
    BY <1>3, <2>1
<1> QED
  BY <1>1, <1>2, <1>4, <1>5 DEF Looks

\* A new socket: the list of branches comes first, then the selection.
LEMMA ConnectMail ==
  ASSUME Connect
  PROVE  /\ ~connected /\ connected' /\ UNCHANGED <<opened, opening, selected, branches>>
         /\ selection' = NoSelection
         /\ Sequence(toServer') /\ LastBranches(toServer', opened)
         /\ Says(toServer', "branches") /\ SubscribesTo(toServer', selected)
<1>1. /\ ~connected /\ connected' /\ UNCHANGED <<opened, opening, selected, branches>>
      /\ selection' = NoSelection
  BY DEF Connect, viewerVars, serverVars
<1>2. PICK b, m, q : /\ b = Branches(opened) /\ q = <<b>>
                     /\ m = [type |-> "subscribe", id |-> selected, generation |-> generation]
  OBVIOUS
<1>3. b.type = "branches" /\ b.ids = opened /\ m.type = "subscribe" /\ m.id = selected
  BY <1>2 DEF Branches
<1>4. Sequence(q) /\ ToSet(q) = {b} /\ LastBranches(q, opened) /\ SubscribesTo(q, selected)
  <2>1. Sequence(q) /\ ToSet(q) = {b}
    BY <1>2, FewMessages
  <2>2. DOMAIN q = {1} /\ q[1] = b
    BY <1>2
  <2>3. LastBranches(q, opened) /\ SubscribesTo(q, selected)
    BY <1>3, <2>2 DEF LastBranches, SubscribesTo
  <2> QED
    BY <2>1, <2>3
<1>5. CASE selected # 0 /\ generation # 0
  <2>1. PICK r : r = q \o <<m>>
    OBVIOUS
  <2>2. toServer' = r
    BY <1>2, <1>5, <2>1 DEF Connect, Subscribe
  <2>3. Sequence(r) /\ ToSet(r) = ToSet(q) \cup {m}
    BY <1>4, <2>1, MessageSent
  <2>4. LastBranches(r, opened)
    BY <1>3, <1>4, <2>1, LastBranchesSent
  <2>5. SubscribesTo(r, selected)
    BY <1>3, <1>4, <2>1, SubscribesSent
  <2> QED
    BY <1>1, <1>3, <1>4, <2>2, <2>3, <2>4, <2>5 DEF Says
<1>6. CASE ~(selected # 0 /\ generation # 0)
  <2>1. toServer' = q \o <<>>
    BY <1>2, <1>6 DEF Connect, Subscribe
  <2>2. q \o <<>> = q
    BY <1>4, ConcatEmptySeq DEF Sequence
  <2>3. toServer' = q
    BY <2>1, <2>2
  <2> QED
    BY <1>1, <1>3, <1>4, <2>3 DEF Says
<1> QED
  BY <1>5, <1>6

\* Only three actions of the companion change what it observes.
LEMMA ServerKeeps ==
  ASSUME [Next]_vars, Steady, ~Apply, ~\E due \in BOOLEAN : Poll(due)
  PROVE  branches' = branches /\ selection' \in {selection, NoSelection}
BY DEF Steady, Next, Disk, Rotate, Create, Delete, Change, User, Toggle, SelectFile, Retry, System,
   BeginEntries, EndEntries, ServeContent, ReceiveEntries, ReceiveContent, Handle, Refresh,
   Connect, vars, serverVars

\* The messages of the viewer to the companion, after a step.
LEMMA ServerMail ==
  ASSUME MessagesSound, Mail, UNCHANGED opened \/ Toggle
  PROVE  /\ Sequence(toServer') /\ (Says(toServer', "branches") => LastBranches(toServer', opened'))
<1>0. Sequence(toServer) /\ (Says(toServer, "branches") => LastBranches(toServer, opened))
  BY DEF MessagesSound
<1>1. CASE UNCHANGED <<connected, toServer>> /\ (connected => UNCHANGED opened)
  <2>1. CASE connected
    BY <1>0, <1>1, <2>1
  <2>2. CASE ~connected
    <3>1. toServer' = <<>>
      BY <1>1, <2>2 DEF MessagesSound
    <3> QED
      BY <3>1, FewMessages DEF Says
  <2> QED
    BY <2>1, <2>2
<1>2. ASSUME NEW m, SendsOne(m), \/ m.type = "branches" /\ m.ids = opened'
                                 \/ m.type # "branches" /\ UNCHANGED opened
      PROVE  Sequence(toServer') /\ (Says(toServer', "branches") => LastBranches(toServer', opened'))
  <2>1. PICK r : r = toServer \o <<m>>
    OBVIOUS
  <2>2. toServer' = r
    BY <1>2, <2>1 DEF SendsOne
  <2>3. Sequence(r) /\ ToSet(r) = ToSet(toServer) \cup {m}
    BY <1>0, <2>1, MessageSent
  <2>4. CASE m.type = "branches" /\ m.ids = opened'
    <3>1. PICK ids : ids = opened'
      OBVIOUS
    <3>2. LastBranches(r, ids)
      BY <1>0, <2>1, <2>4, <3>1, LastBranchesSent
    <3> QED
      BY <2>2, <2>3, <3>1, <3>2
  <2>5. CASE m.type # "branches" /\ UNCHANGED opened
    <3>1. ASSUME Says(r, "branches") PROVE LastBranches(r, opened)
      <4>1. Says(toServer, "branches")
        BY <2>3, <2>5, <3>1 DEF Says
      <4> QED
        BY <1>0, <2>1, <2>5, <4>1, LastBranchesSent
    <3> QED
      BY <2>2, <2>3, <2>5, <3>1
  <2> QED
    BY <1>2, <2>4, <2>5
<1>3. CASE Apply
  <2>1. toServer # <<>> /\ toServer' = Tail(toServer) /\ UNCHANGED opened
    BY <1>3 DEF Apply, viewerVars
  <2>2. PICK r : r = Tail(toServer)
    OBVIOUS
  <2>3. Sequence(r) /\ ToSet(toServer) = ToSet(r) \cup {Head(toServer)}
    BY <1>0, <2>1, <2>2, MessageTaken
  <2>4. ASSUME Says(r, "branches") PROVE LastBranches(r, opened)
    <3>1. Says(toServer, "branches")
      BY <2>3, <2>4 DEF Says
    <3> QED
      BY <1>0, <2>1, <2>2, <2>4, <3>1, LastBranchesTaken
  <2> QED
    BY <2>1, <2>2, <2>3, <2>4
<1>4. CASE Cut
  <2>1. toServer' = <<>>
    BY <1>4 DEF Cut
  <2> QED
    BY <2>1, FewMessages DEF Says
<1>5. CASE Connect
  BY <1>5, ConnectMail
<1>6. CASE Mail
  <2>1. ASSUME NEW m, SendsOne(m),
               \/ m.type = "branches" /\ m.ids = opened' /\ UNCHANGED selected
               \/ m.type = "subscribe" /\ m.id = selected /\ UNCHANGED <<opened, selected, opening>>
               \/ m.type = "unsubscribe" /\ UNCHANGED <<opened, opening>>
        PROVE  Sequence(toServer') /\ (Says(toServer', "branches") => LastBranches(toServer', opened'))
    <3>1. \/ m.type = "branches" /\ m.ids = opened'
          \/ m.type # "branches" /\ UNCHANGED opened
      BY <2>1
    <3> QED
      BY <1>2, <2>1, <3>1
  <2> QED
    BY <1>1, <1>3, <1>4, <1>5, <2>1, <1>6 DEF Mail
<1> QED
  BY <1>6

\* The root remains open.
LEMMA RootOpen ==
  ASSUME IInv, Basic, [Next]_vars
  PROVE  TopId \in opened'
<1>1. TopId \in opened /\ World /\ PagesSound
  BY DEF Basic, MessagesSound
<1>2. CASE Toggle
  <2>1. PICK e \in Shown : /\ IsDirectory(e[1])
                           /\ opened' = IF e[2] \in opened THEN opened \ {e[2]} ELSE opened \cup {e[2]}
    BY <1>2 DEF Toggle
  <2>2. e[2] # TopId
    BY <1>1, <2>1, ShownDirectory
  <2> QED
    BY <1>1, <2>1, <2>2
<1> QED
  BY <1>1, <1>2, OnlyToggleOpens

\* The last list of branches on its way remains the one of the viewer.
LEMMA MessagesStep ==
  ASSUME IInv, Basic, StepLoads, Mail, Post, [Next]_vars
  PROVE  MessagesSound'
<1>0. MessagesSound
  BY DEF Basic
<1>1. Sequence(toServer') /\ (Says(toServer', "branches") => LastBranches(toServer', opened'))
  BY <1>0, OnlyToggleOpens, ServerMail
<1>2. Sequence(toViewer')
  <2>1. CASE Handle
    <3>1. toViewer # <<>> /\ toViewer' = Tail(toViewer) /\ Sequence(toViewer)
      BY <1>0, <2>1 DEF Handle, MessagesSound
    <3>2. PICK q, r : q = toViewer /\ r = Tail(q)
      OBVIOUS
    <3>3. Sequence(r)
      BY <3>1, <3>2, MessageTaken
    <3> QED
      BY <3>1, <3>2, <3>3
  <2>2. CASE Cut
    BY <2>2, FewMessages DEF Cut
  <2> QED
    BY <2>1, <2>2 DEF Post
<1>3. ASSUME ~connected' PROVE toServer' = <<>>
  <2>1. CASE Cut
    BY <2>1 DEF Cut
  <2>2. CASE ~Cut
    <3>1. ~Connect /\ ~\E m : SendsOne(m)
      BY <1>3 DEF Connect, SendsOne
    <3>2. ~Apply
      BY <1>0, <1>3 DEF Apply, MessagesSound
    <3> QED
      BY <1>0, <1>3, <2>2, <3>1, <3>2 DEF Mail, MessagesSound
  <2> QED
    BY <2>1, <2>2
<1>4. opening' => TopId \in activeBranchLoads'
  <2>1. CASE LoadsGrow
    BY <1>0, <2>1 DEF LoadsGrow, MessagesSound
  <2>2. CASE ReceiveEntries
    BY <2>2 DEF ReceiveEntries
  <2> QED
    BY <2>1, <2>2 DEF StepLoads
<1>5. TopId \in opened'
  BY RootOpen
<1>6. (Says(toServer, "branches") => LastBranches(toServer, opened))'
  BY <1>1 DEF Says, LastBranches
<1>7. Sequence(toServer)' /\ Sequence(toViewer)'
  BY <1>1, <1>2 DEF Sequence
<1>8. (~connected => toServer = <<>>)'
  BY <1>3
<1> QED
  BY <1>4, <1>5, <1>6, <1>7, <1>8 DEF MessagesSound

\* Only a message of the viewer gives the companion another selection.
LEMMA SelectionKept ==
  ASSUME [Next]_vars, Steady, ~Apply
  PROVE  selection' \in {selection, NoSelection}
<1>1. CASE \E due \in BOOLEAN : Poll(due)
  BY <1>1 DEF Poll, Watch
<1> QED
  BY <1>1, ServerKeeps

\* The selection that the companion holds is the one of the viewer, or is given up.
LEMMA SelectionStep ==
  ASSUME IInv, TInv, Mail, Steady, [Next]_vars
  PROVE  SelectionSound'
<1>0. SelectionSound /\ Sequence(toServer) /\ (~connected => toServer = <<>>)
  BY DEF TInv, Basic, MessagesSound
<1> DEFINE Sound == /\ selection' = NoSelection \/ selection'.id # 0
                    /\ Says(toServer', "unsubscribe") \/ selection'.id \in {0, selected'}
                    /\ SubscribesTo(toServer', selected')
                    /\ ~connected' => selection' = NoSelection
<1>1. NoSelection.id = 0
  BY DEF NoSelection
<1>2. ASSUME selection' \in {selection, NoSelection}
      PROVE  selection' = NoSelection \/ selection'.id # 0
  BY <1>0, <1>2 DEF SelectionSound
<1>3. ASSUME selection' \in {selection, NoSelection}, UNCHANGED <<connected, toServer>>,
             connected => UNCHANGED selected
      PROVE  Sound
  <2>1. CASE connected
    BY <1>0, <1>1, <1>2, <1>3, <2>1 DEF SelectionSound
  <2>2. CASE ~connected
    <3>1. toServer' = <<>> /\ selection' = NoSelection
      BY <1>0, <1>3, <2>2 DEF SelectionSound
    <3> QED
      BY <1>1, <3>1 DEF SubscribesTo
  <2> QED
    BY <2>1, <2>2
<1>4. ASSUME selection' \in {selection, NoSelection}, NEW m, SendsOne(m),
             \/ m.type = "branches" /\ m.ids = opened' /\ UNCHANGED selected
             \/ m.type = "subscribe" /\ m.id = selected /\ UNCHANGED <<opened, selected, opening>>
             \/ m.type = "unsubscribe" /\ UNCHANGED <<opened, opening>>
      PROVE  Sound
  <2>1. PICK r : r = toServer \o <<m>>
    OBVIOUS
  <2>2. toServer' = r /\ connected'
    BY <1>4, <2>1 DEF SendsOne
  <2>3. ToSet(r) = ToSet(toServer) \cup {m}
    BY <1>0, <2>1, MessageSent
  <2>4. CASE m.type = "unsubscribe"
    <3>1. SubscribesTo(r, selected')
      <4>1. PICK id : id = selected'
        OBVIOUS
      <4>2. SubscribesTo(r, id)
        BY <1>0, <2>1, <2>4, SubscribesSent
      <4> QED
        BY <4>1, <4>2
    <3>2. Says(r, "unsubscribe")
      BY <2>3, <2>4 DEF Says
    <3> QED
      BY <1>2, <1>4, <2>2, <3>1, <3>2
  <2>5. CASE m.type # "unsubscribe"
    <3>1. UNCHANGED selected /\ (m.type = "subscribe" => m.id = selected)
      BY <1>4, <2>5
    <3>2. SubscribesTo(r, selected)
      BY <1>0, <2>1, <3>1, SubscribesSent DEF SelectionSound
    <3>3. Says(r, "unsubscribe") \/ selection'.id \in {0, selected}
      BY <1>0, <1>1, <1>4, <2>3 DEF SelectionSound, Says
    <3> QED
      BY <1>2, <1>4, <2>2, <3>1, <3>2, <3>3
  <2> QED
    BY <2>4, <2>5
<1>5. ASSUME Apply PROVE Sound
  <2>1. toServer # <<>> /\ toServer' = Tail(toServer) /\ UNCHANGED <<selected, connected>> /\ connected
    BY <1>0, <1>5 DEF Apply, viewerVars
  <2>2. PICK r : r = Tail(toServer)
    OBVIOUS
  <2>3. PICK m : m = Head(toServer)
    OBVIOUS
  <2>4. ToSet(toServer) = ToSet(r) \cup {m}
    BY <1>0, <2>1, <2>2, <2>3, MessageTaken
  <2>5. SubscribesTo(r, selected) /\ (m.type = "subscribe" => m.id = selected \/ Says(r, "unsubscribe"))
    BY <1>0, <2>1, <2>2, <2>3, SubscribesTaken DEF SelectionSound
  <2>6. CASE UNCHANGED selection /\ m.type # "unsubscribe"
    <3>1. Says(r, "unsubscribe") \/ selection.id \in {0, selected}
      BY <1>0, <2>4, <2>6 DEF SelectionSound, Says
    <3> QED
      BY <1>0, <2>1, <2>2, <2>5, <2>6, <3>1 DEF SelectionSound
  <2>7. CASE selection' = NoSelection
    BY <1>1, <2>1, <2>2, <2>5, <2>7
  <2>8. CASE /\ m.type = "subscribe" /\ Known(cache, m.id)
             /\ selection' = [id |-> m.id, generation |-> m.generation]
    <3>1. m.id # 0
      BY <2>8, LastTyped DEF Known
    <3>2. selection'.id = m.id
      BY <2>8
    <3> QED
      BY <2>1, <2>2, <2>5, <2>8, <3>1, <3>2
  <2> QED
    BY <1>5, <2>3, <2>6, <2>7, <2>8 DEF Apply
<1>6. ASSUME Connect PROVE Sound
  <2>1. /\ ~connected /\ connected' /\ UNCHANGED selected /\ selection' = NoSelection
        /\ SubscribesTo(toServer', selected)
    BY <1>6, ConnectMail
  <2> QED
    BY <1>1, <2>1
<1>7. Sound
  <2>1. CASE Apply \/ Connect
    BY <1>5, <1>6, <2>1
  <2>2. CASE ~Apply /\ ~Connect
    <3>1. selection' \in {selection, NoSelection}
      BY <2>2, SelectionKept
    <3> HIDE DEF Sound
    <3> QED
      BY <1>3, <1>4, <2>2, <3>1 DEF Mail, Steady
  <2> QED
    BY <2>1, <2>2
<1> QED
  BY <1>7 DEF SelectionSound, Says, SubscribesTo, NoSelection

\* A listing in progress holds the lock: the cache waits.
LEMMA ReadingHolds ==
  ASSUME [Next]_vars, reading # Idle, ~EndEntries
  PROVE  UNCHANGED <<cache, reading>>
BY NextIs DEF Disk, Rotate, Create, Delete, Change, User, Toggle, SelectFile, Retry,
   BeginEntries, ServeContent, Apply, Looks, Watch, EndFlow, Cut, Free, ReceiveEntries, ReceiveContent, Handle,
   Refresh, Connect, vars, serverVars

\* And only one action begins one.
LEMMA ReadingBegins ==
  ASSUME [Next]_vars, reading = Idle, reading' # Idle
  PROVE  BeginEntries
BY NextIs DEF Disk, Rotate, Create, Delete, Change, User, Toggle, SelectFile, Retry,
   EndEntries, ServeContent, Apply, Looks, Watch, EndFlow, Cut, Free, ReceiveEntries, ReceiveContent, Handle,
   Refresh, Connect, vars, serverVars

\* While the companion lists a directory, the disk may change but the cache may not.
LEMMA ReadsStep ==
  ASSUME IInv, IInv', Basic, World', Ages, StepLoads, DirectoriesWanted', [Next]_vars
  PROVE  ReadsSound'
<1> DEFINE Sound(id, path, rev, names) ==
             /\ Known(cache', id) /\ path = cache'.nodes[id] /\ IsDirectory(path)
             /\ rev \in Nat \X Nat /\ rev[2] <= stamp'[path]
             /\ names \subseteq {p \in Paths \ {Top} : Parent(p) = path}
             /\ rev[2] = stamp'[path] => names = Children(path)'
<1>0. PICK id, path, rev, names :
        /\ id = Head(requests').id /\ path = reading'.path /\ rev = reading'.rev
        /\ names = reading'.names
  OBVIOUS
<1>1. ASSUME reading' # Idle, reading # Idle
      PROVE  Sound(id, path, rev, names)
  <2>1. ~EndEntries
    BY <1>1 DEF EndEntries
  <2>2. cache' = cache /\ reading' = reading /\ Head(requests') = Head(requests)
    BY <1>1, <2>1, ReadingHolds DEF StepLoads, SameHead
  <2>3. /\ Known(cache, Head(requests).id) /\ reading.path = cache.nodes[Head(requests).id]
        /\ IsDirectory(reading.path)
        /\ reading.rev \in Nat \X Nat /\ reading.rev[2] <= stamp[reading.path]
        /\ reading.names \subseteq {p \in Paths \ {Top} : Parent(p) = reading.path}
        /\ reading.rev[2] = stamp[reading.path] => reading.names = Children(reading.path)
    BY <1>1 DEF Basic, ReadsSound
  <2>4. /\ reading.path = path /\ reading.rev = rev /\ reading.names = names
        /\ Head(requests).id = id
    BY <1>0, <2>2
  <2>5. Passes(path)
    BY <2>3, <2>4 DEF Ages, IsDirectory
  <2>6. PICK s, t, v : s = stamp[path] /\ t = stamp'[path] /\ v = rev[2]
    OBVIOUS
  <2>7. s \in Nat /\ t \in Nat /\ s <= t /\ v \in Nat /\ v <= s
    BY <2>3, <2>4, <2>5, <2>6 DEF Passes
  <2>8. v <= t /\ (v = t => s = t /\ v = s)
    BY <2>7
  <2>9. v = t => names = Children(path)'
    BY <2>3, <2>4, <2>5, <2>6, <2>8 DEF Passes
  <2>10. /\ Known(cache', id) /\ path = cache'.nodes[id] /\ IsDirectory(path)
         /\ rev \in Nat \X Nat /\ names \subseteq {p \in Paths \ {Top} : Parent(p) = path}
    BY <2>2, <2>3, <2>4 DEF Known
  <2>11. rev[2] = v /\ stamp'[path] = t
    BY <2>4, <2>6
  <2> QED
    BY <2>8, <2>9, <2>10, <2>11
<1>2. ASSUME reading' # Idle, reading = Idle
      PROVE  Sound(id, path, rev, names)
  <2>1. BeginEntries
    BY <1>2, ReadingBegins
  <2>2. PICK place : place = cache'.nodes[Head(requests).id]
    OBVIOUS
  <2>3. /\ Known(cache', Head(requests).id)
        /\ UNCHANGED <<requests, disk, stamp, activeBranchLoads>>
        /\ reading' = [kind |-> "entries", path |-> place,
                       rev |-> Revision(place), names |-> Children(place)]
    BY <1>2, <2>1, <2>2 DEF BeginEntries, diskVars, Known
  <2>4. /\ Known(cache', id) /\ UNCHANGED <<requests, disk, stamp, activeBranchLoads>>
        /\ id = Head(requests).id /\ place = path /\ path = cache'.nodes[id]
        /\ rev = Revision(path) /\ names = Children(path)
    BY <1>0, <2>2, <2>3
  <2>5. id \in activeBranchLoads
    <3>1. requests # <<>> /\ Head(requests).kind = "entries"
      BY <2>1 DEF BeginEntries, Waiting
    <3>2. activeBranchLoads = Loading(requests) /\ 1 \in DOMAIN requests /\ Head(requests) = requests[1]
      BY <3>1 DEF IInv, LoadsSound, QueueSound
    <3> QED
      BY <2>4, <3>1, <3>2 DEF Loading
  <2>6. IsDirectory(path)
    BY <2>4, <2>5 DEF DirectoriesWanted, Wanted, Known, IsDirectory
  <2>7. disk[path] \in Nat /\ stamp[path] \in Nat
    <3>1. disk \in [Paths -> 0..MaxChanges + 1] /\ path \in Paths
      BY <2>6 DEF IInv, DiskTyped, IsDirectory, Paths, Names, ToSet
    <3> QED
      BY <2>6, <3>1, LimitsAssumption DEF Basic, World, IsDirectory
  <2>8. Children(path) \subseteq {p \in Paths \ {Top} : Parent(p) = path}
        /\ Children(path)' = Children(path)
    BY <2>4 DEF Children
  <2>9. rev = <<disk[path], stamp[path]>> /\ stamp'[path] = stamp[path]
    BY <2>4 DEF Revision
  <2>10. rev \in Nat \X Nat /\ rev[2] <= stamp'[path]
    BY <2>7, <2>9
  <2> QED
    BY <2>4, <2>6, <2>8, <2>10
<1>3. reading' # Idle => Sound(id, path, rev, names)
  BY <1>1, <1>2
<1> QED
  BY <1>0, <1>3 DEF ReadsSound, Known, IsDirectory, Idle, Children, Parent

-----------------------------------------------------------------------------
(* Observed directories *)

\* What a poll sees of an observed directory: its revision of the moment.
Polled(id) ==
    /\ \E due \in BOOLEAN : Poll(due)
    /\ id \in DOMAIN branches /\ branches'[id] = Revision(cache.nodes[id])

\* Where the revision of an observed directory comes from.
LEMMA BranchesFrom ==
  ASSUME [Next]_vars, Steady, NEW id \in DOMAIN branches'
  PROVE  \/ id \in DOMAIN branches /\ branches'[id] = branches[id]
         \/ Apply /\ Known(cache, id) /\ branches'[id] = Unknown
         \/ Polled(id)
<1>1. CASE Apply
  <2>1. CASE branches' = branches
    BY <2>1
  <2>2. CASE branches' # branches
    <3>1. PICK ids : ids = Head(toServer).ids
      OBVIOUS
    <3>2. (\A i \in ids : Known(cache, i)) /\ branches' = [i \in ids |-> Prior(i)]
      BY <1>1, <2>2, <3>1 DEF Apply
    <3> QED
      BY <1>1, <3>2 DEF Prior
  <2> QED
    BY <2>1, <2>2
<1>2. ASSUME NEW due \in BOOLEAN, Poll(due) PROVE (id \in DOMAIN branches /\ branches'[id] = branches[id]) \/ Polled(id)
  <2>1. CASE due
    <3>1. branches' = [i \in {i \in DOMAIN branches : Readable(i)} |-> Revision(cache.nodes[i])]
      BY <1>2, <2>1 DEF Poll, Watch
    <3> QED
      BY <1>2, <3>1 DEF Polled
  <2>2. CASE ~due
    BY <1>2, <2>2 DEF Poll, Watch
  <2> QED
    BY <2>1, <2>2
<1>3. CASE ~Apply /\ ~\E due \in BOOLEAN : Poll(due)
  BY <1>3, ServerKeeps
<1> QED
  BY <1>1, <1>2, <1>3

\* A directory that can be read remains observed.
LEMMA BranchesKept ==
  ASSUME [Next]_vars, Steady, ~Apply, NEW id \in DOMAIN branches, Readable(id)
  PROVE  id \in DOMAIN branches'
<1>1. ASSUME NEW due \in BOOLEAN, Poll(due) PROVE id \in DOMAIN branches'
  <2>1. CASE due
    <3>1. branches' = [i \in {i \in DOMAIN branches : Readable(i)} |-> Revision(cache.nodes[i])]
      BY <1>1, <2>1 DEF Poll, Watch
    <3> QED
      BY <3>1
  <2>2. CASE ~due
    BY <1>1, <2>2 DEF Poll, Watch
  <2> QED
    BY <2>1, <2>2
<1> QED
  BY <1>1, ServerKeeps

\* After a step with no list of branches on its way there was none before, unless the
\* companion has taken it.
LEMMA QuietBefore ==
  ASSUME IInv, MessagesSound, Ages, Mail, ~Apply, ~Cut, AllKnown', ~Says(toServer', "branches")
  PROVE  \/ ~connected /\ ~connected'
         \/ /\ connected /\ connected' /\ UNCHANGED opened /\ (opening => opening')
            /\ AllKnown /\ ~Says(toServer, "branches")
<1>1. ~Connect
  BY ConnectMail
<1>2. ASSUME UNCHANGED opened PROVE AllKnown
  BY <1>2, AllKnownBefore DEF AllKnown, Known
<1>3. ASSUME NEW m, SendsOne(m), m.type = "subscribe" \/ m.type = "unsubscribe",
             UNCHANGED <<opened, opening>>
      PROVE  /\ connected /\ connected' /\ UNCHANGED opened /\ (opening => opening')
             /\ AllKnown /\ ~Says(toServer, "branches")
  <2>1. PICK r : r = toServer \o <<m>>
    OBVIOUS
  <2>2. toServer' = r /\ ToSet(r) = ToSet(toServer) \cup {m}
    BY <1>3, <2>1, MessageSent DEF SendsOne, MessagesSound
  <2> QED
    BY <1>2, <1>3, <2>2 DEF SendsOne, Says
<1>4. ASSUME NEW m, SendsOne(m), m.type = "branches" PROVE FALSE
  <2>1. PICK r : r = toServer \o <<m>>
    OBVIOUS
  <2>2. toServer' = r /\ ToSet(r) = ToSet(toServer) \cup {m}
    BY <1>4, <2>1, MessageSent DEF SendsOne, MessagesSound
  <2> QED
    BY <1>4, <2>2 DEF Says
<1>5. ASSUME UNCHANGED <<connected, toServer>>,
             connected => UNCHANGED <<opened, selected>> /\ (opening => opening')
      PROVE  \/ ~connected /\ ~connected'
             \/ /\ connected /\ connected' /\ UNCHANGED opened /\ (opening => opening')
                /\ AllKnown /\ ~Says(toServer, "branches")
  BY <1>2, <1>5
<1> QED
  BY <1>1, <1>3, <1>4, <1>5 DEF Mail

\* After the companion has taken the last list of branches, it observes what is open.
LEMMA QuietApplied ==
  ASSUME IInv, MessagesSound, ObservedSound, Apply, AllKnown', ~Says(toServer', "branches")
  PROVE  /\ UNCHANGED <<opened, opening, connected, cache>> /\ connected /\ AllKnown
         /\ DOMAIN branches' \subseteq opened
         /\ DOMAIN branches' = opened \/ (~Says(toServer, "branches") /\ branches' = branches)
<1>1. /\ toServer # <<>> /\ toServer' = Tail(toServer) /\ Sequence(toServer)
      /\ UNCHANGED <<opened, opening, connected, cache>>
  BY DEF Apply, viewerVars, MessagesSound
<1>2. connected /\ AllKnown
  BY <1>1 DEF MessagesSound, AllKnown, Known
<1>3. PICK m, r : m = Head(toServer) /\ r = Tail(toServer)
  OBVIOUS
<1>4. ToSet(toServer) = ToSet(r) \cup {m}
  BY <1>1, <1>3, MessageTaken
<1>5. CASE m.type = "branches"
  <2>1. Says(toServer, "branches")
    BY <1>4, <1>5 DEF Says
  <2>2. LastBranches(toServer, opened)
    BY <2>1 DEF MessagesSound
  <2>3. m.ids = opened
    <3>1. PICK q : q = toServer
      OBVIOUS
    <3>2. Sequence(q) /\ q # <<>> /\ r = Tail(q) /\ LastBranches(q, opened) /\ m = Head(q)
      BY <1>1, <1>3, <2>2, <3>1
    <3>3. ~Says(r, "branches")
      BY <1>1, <1>3 DEF Says
    <3> QED
      BY <3>2, <3>3, LastBranchesTaken
  <2>4. branches' = [id \in opened |-> Prior(id)]
    BY <1>2, <1>3, <1>5, <2>3 DEF Apply, AllKnown
  <2> QED
    BY <1>1, <1>2, <2>4
<1>6. CASE m.type # "branches"
  <2>1. ~Says(toServer, "branches")
    BY <1>1, <1>3, <1>4, <1>6 DEF Says
  <2>2. branches' = branches
    BY <1>3, <1>6 DEF Apply
  <2> QED
    BY <1>1, <1>2, <2>1, <2>2 DEF ObservedSound
<1> QED
  BY <1>5, <1>6

\* A directory opened, or a socket cut, is followed by a list of branches.
LEMMA ObservedStep ==
  ASSUME IInv, TInv, World', Ages, StepLoads, Mail, Steady, [Next]_vars
  PROVE  ObservedSound'
<1>0. MessagesSound /\ ObservedSound /\ DirectoriesWanted /\ World
  BY DEF TInv, Basic
<1>1. ASSUME NEW id \in opened', Watched(id)', ~ToBeObserved'
      PROVE  id \in DOMAIN branches'
  <2>1. connected' /\ ~opening' /\ ~Says(toServer', "branches") /\ AllKnown'
    BY <1>1 DEF ToBeObserved, Says
  <2>2. CASE Apply
    <3>1. /\ UNCHANGED <<opened, opening, connected, cache>> /\ connected /\ AllKnown
          /\ DOMAIN branches' = opened \/ (~Says(toServer, "branches") /\ branches' = branches)
      BY <1>0, <2>1, <2>2, QuietApplied
    <3>2. Watched(id)
      BY <1>0, <1>1, <3>1, WatchedBefore
    <3> QED
      BY <1>0, <1>1, <2>1, <3>1, <3>2 DEF ObservedSound, ToBeObserved
  <2>3. CASE ~Apply
    <3>1. ~Cut
      BY DEF Steady
    <3>2. /\ connected /\ connected' /\ UNCHANGED opened /\ (opening => opening')
          /\ AllKnown /\ ~Says(toServer, "branches")
      BY <1>0, <2>1, <2>3, <3>1, QuietBefore
    <3>3. Watched(id)
      BY <1>0, <1>1, <3>2, WatchedBefore
    <3>4. id \in DOMAIN branches
      BY <1>0, <1>1, <2>1, <3>2, <3>3 DEF ObservedSound, ToBeObserved
    <3>5. Readable(id)
      BY <3>3 DEF Watched, Original, Readable
    <3> QED
      BY <2>3, <3>4, <3>5, BranchesKept
  <2> QED
    BY <2>2, <2>3
<1>2. ASSUME AllKnown', ~Says(toServer', "branches")
      PROVE  DOMAIN branches' \subseteq opened'
  <2>1. CASE Apply
    BY <1>0, <1>2, <2>1, QuietApplied
  <2>2. CASE ~Apply
    <3>1. DOMAIN branches' \subseteq DOMAIN branches
      BY <2>2, BranchesFrom DEF Polled
    <3>2. ~Cut
      BY DEF Steady
    <3>3. \/ ~connected
          \/ UNCHANGED opened /\ AllKnown /\ ~Says(toServer, "branches")
      BY <1>0, <1>2, <2>2, <3>2, QuietBefore
    <3> QED
      BY <1>0, <3>1, <3>3 DEF ObservedSound
  <2> QED
    BY <2>1, <2>2
<1>3. ASSUME NEW id \in DOMAIN branches', Known(cache', id), IsDirectory(cache'.nodes[id])
      PROVE  branches'[id] \in Nat \X Nat /\ branches'[id][2] <= stamp'[cache'.nodes[id]]
  <2>1. id \in 1..cache.last
    BY LastTyped, BranchesFrom DEF Polled, Known, IInv, ViewSound
  <2>2. PICK p : p = cache'.nodes[id]
    OBVIOUS
  <2>3. Known(cache, id) /\ cache.nodes[id] = p
    BY <1>3, <2>1, <2>2 DEF Ages, Later
  <2>4. stamp[p] \in Nat /\ stamp'[p] \in Nat /\ stamp[p] <= stamp'[p]
    BY <1>3, <2>2 DEF Ages, Passes, IsDirectory
  <2>5. CASE id \in DOMAIN branches /\ branches'[id] = branches[id]
    <3>1. branches[id] \in Nat \X Nat /\ branches[id][2] <= stamp[p]
      BY <1>0, <1>3, <2>2, <2>3, <2>5 DEF ObservedSound, SeenBefore
    <3>2. branches[id][2] \in Nat
      BY <3>1
    <3> QED
      BY <2>2, <2>4, <2>5, <3>1, <3>2
  <2>6. CASE branches'[id] = Unknown
    BY <2>2, <2>4, <2>6 DEF Unknown
  <2>7. CASE Polled(id)
    <3>1. branches'[id] = <<disk[p], stamp[p]>>
      BY <2>3, <2>7 DEF Polled, Revision
    <3>2. disk[p] \in Nat
      <4>1. disk \in [Paths -> 0..MaxChanges + 1] /\ p \in Paths
        BY <1>3, <2>2 DEF IInv, DiskTyped, IsDirectory, Paths, Names, ToSet
      <4> QED
        BY <4>1, LimitsAssumption
    <3> QED
      BY <2>2, <2>4, <3>1, <3>2
  <2> QED
    BY <2>5, <2>6, <2>7, BranchesFrom
<1>4. (\A id \in opened : Watched(id) => id \in DOMAIN branches \/ ToBeObserved)'
  BY <1>1
<1>5. (AllKnown /\ ~Says(toServer, "branches") => DOMAIN branches \subseteq opened)'
  BY <1>2 DEF Says
<1>6. (\A id \in DOMAIN branches :
          Known(cache, id) /\ IsDirectory(cache.nodes[id]) => SeenBefore(id))'
  BY <1>3 DEF SeenBefore, Known, IsDirectory
<1>7. ASSUME ~connected' PROVE DOMAIN branches' = {}
  <2>1. ~Apply
    BY <1>0, <1>7 DEF Apply, MessagesSound
  <2>2. ~connected
    BY <1>7, <2>1 DEF Mail, SendsOne, Steady, Connect
  <2>3. ~\E due \in BOOLEAN : Poll(due)
    BY <2>2 DEF Poll
  <2> QED
    BY <1>0, <2>1, <2>2, <2>3, ServerKeeps DEF ObservedSound
<1>8. (~connected => DOMAIN branches = {})'
  BY <1>7
<1> QED
  BY <1>4, <1>5, <1>6, <1>8 DEF ObservedSound

-----------------------------------------------------------------------------
(* What the viewer has been told *)

\* The open directory p, known as id, does not change in a step.
Stays(id, p) ==
    /\ Known(cache, id) /\ Known(cache', id) /\ cache.nodes[id] = p /\ cache'.nodes[id] = p
    /\ p \in {Top, Directory} /\ disk[p] = 1 /\ disk'[p] = 1
    /\ stamp'[p] = stamp[p] /\ Children(p)' = Children(p)
\* What is known of a directory that stays.
RevisionNow(p) == <<1, stamp[p]>>

\* The revisions of a directory that stays.
LEMMA StaysOutdated ==
  ASSUME NEW id, NEW p, Stays(id, p)
  PROVE  /\ Outdated(id) <=> (id \in DOMAIN branches => branches[id] # RevisionNow(p))
         /\ Outdated(id)' <=> (id \in DOMAIN branches' => branches'[id] # RevisionNow(p))
         /\ Revision(cache.nodes[id]) = RevisionNow(p)
BY DEF Stays, Outdated, Revision, RevisionNow

\* A directory that is watched stays, unless it has a later time.
LEMMA WatchedStays ==
  ASSUME IInv, Ages, DirectoriesWanted, NEW id \in opened, Watched(id)',
         NEW p, p = cache.nodes[id], stamp'[p] = stamp[p]
  PROVE  Stays(id, p)
<1>1. /\ Watched(id) /\ cache'.nodes[id] = p /\ p \in {Top, Directory}
      /\ disk[p] = 1 /\ disk'[p] = 1
  BY WatchedBefore
<1>2. Passes(p)
  BY <1>1 DEF Ages
<1>3. Known(cache, id) /\ Known(cache', id)
  BY <1>1 DEF Watched, Known
<1> QED
  BY <1>1, <1>2, <1>3 DEF Stays, Passes

\* Only the disk gives a directory another time.
LEMMA TimesKept ==
  ASSUME [Next]_vars, ~Disk
  PROVE  UNCHANGED <<disk, stamp>>
BY NextIs DEF User, Toggle, SelectFile, Retry, BeginEntries, EndEntries, ServeContent, Apply,
   Looks, Watch, EndFlow, Cut, ReceiveEntries, ReceiveContent, Handle, Refresh, Connect, vars, diskVars

\* With a later time, it is not as it was last seen.
LEMMA LaterOutdated ==
  ASSUME IInv, Ages, TInv, [Next]_vars, NEW id \in opened, Watched(id)', NEW p, p = cache.nodes[id],
         stamp'[p] # stamp[p]
  PROVE  Outdated(id)'
<1>1. /\ Watched(id) /\ cache'.nodes[id] = p /\ p \in {Top, Directory}
  BY WatchedBefore DEF TInv, Basic
<1>2. stamp[p] \in Nat /\ stamp'[p] \in Nat /\ stamp[p] <= stamp'[p]
  BY <1>1 DEF Ages, Passes
<1>3. Disk
  BY TimesKept
<1>4. branches' = branches
  BY <1>3 DEF Disk, Rotate, Create, Delete, Change, serverVars
<1>5. ASSUME id \in DOMAIN branches PROVE branches[id] # <<disk'[p], stamp'[p]>>
  <2>1. SeenBefore(id)
    BY <1>1, <1>5 DEF TInv, Basic, ObservedSound, Watched, IsDirectory
  <2>2. branches[id][2] <= stamp[p] /\ branches[id] \in Nat \X Nat
    BY <2>1 DEF SeenBefore
  <2>3. branches[id][2] # stamp'[p]
    BY <1>2, <2>2
  <2>4. <<disk'[p], stamp'[p]>>[2] = stamp'[p]
    OBVIOUS
  <2> QED
    BY <2>3, <2>4
<1> QED
  BY <1>1, <1>4, <1>5 DEF Outdated, Revision

\* A poll announces what is not as it was last seen.
LEMMA OutdatedPolled ==
  ASSUME NEW id, NEW p, Stays(id, p), MessagesSound, NEW due \in BOOLEAN, Poll(due), Outdated(id)
  PROVE  Outdated(id)' \/ Announced(id)'
<1>1. CASE ~due
  <2>1. branches' = branches
    BY <1>1 DEF Poll, Watch
  <2> QED
    BY <2>1, StaysOutdated
<1>2. CASE due /\ id \notin DOMAIN branches
  <2>1. branches' = [i \in {i \in DOMAIN branches : Readable(i)} |-> Revision(cache.nodes[i])]
    BY <1>2 DEF Poll, Watch
  <2>2. id \notin DOMAIN branches'
    BY <1>2, <2>1
  <2> QED
    BY <2>2, StaysOutdated
<1>3. CASE due /\ id \in DOMAIN branches
  <2>1. id \in Changed
    BY <1>3 DEF Changed, Outdated
  <2>2. PICK m, tree : m = [type |-> "tree-changed", ids |-> Changed] /\ tree = <<m>>
    OBVIOUS
  <2>3. TreeMessages = tree
    BY <2>1, <2>2 DEF TreeMessages
  <2>4. PICK c, file : /\ c = Relocate(cache, {selection.id})
                       /\ file = IF selection = NoSelection THEN <<>> ELSE FileMessages(c)
    OBVIOUS
  <2>5. PICK most : most = toViewer \o file
    OBVIOUS
  <2>6. PICK all : all = most \o <<m>>
    OBVIOUS
  <2>7. toViewer' = all
    BY <1>3, <2>2, <2>3, <2>4, <2>5, <2>6 DEF Poll, Watch
  <2>8. Sequence(most)
    <3>1. PICK renamed, reset :
            /\ renamed = IF c # cache THEN <<About("file-renamed")>> ELSE <<>>
            /\ reset = IF disk[c.nodes[selection.id]] \notin {0, selection.generation}
                       THEN <<About("reset")>> ELSE <<>>
      OBVIOUS
    <3>2. PICK both : both = renamed \o reset
      OBVIOUS
    <3>3. file = IF selection = NoSelection THEN <<>> ELSE both
      BY <2>4, <3>1, <3>2 DEF FileMessages
    <3>4. Sequence(renamed) /\ Sequence(reset)
      BY <3>1, FewMessages
    <3>5. Sequence(both)
      BY <3>2, <3>4, MessagesJoined
    <3>6. Sequence(file)
      BY <3>3, <3>5, FewMessages
    <3> QED
      BY <2>5, <3>6, MessagesJoined DEF MessagesSound
  <2>9. ToSet(all) = ToSet(most) \cup {m}
    BY <2>6, <2>8, MessageSent
  <2>10. m \in ToSet(toViewer') /\ m.type = "tree-changed" /\ id \in m.ids
    BY <2>1, <2>2, <2>7, <2>9
  <2> QED
    BY <2>10 DEF Announced
<1> QED
  BY <1>1, <1>2, <1>3

\* What is observed anew is not as it was last seen.
LEMMA OutdatedApplied ==
  ASSUME NEW id, NEW p, Stays(id, p), Apply, Outdated(id)
  PROVE  Outdated(id)'
<1>1. CASE branches' = branches
  BY <1>1, StaysOutdated
<1>2. CASE branches' # branches
  <2>1. PICK ids : ids = Head(toServer).ids
    OBVIOUS
  <2>2. branches' = [i \in ids |-> Prior(i)]
    BY <1>2, <2>1 DEF Apply
  <2>3. ASSUME id \in ids PROVE branches'[id] # RevisionNow(p)
    <3>1. CASE id \in DOMAIN branches
      BY <2>2, <2>3, <3>1, StaysOutdated DEF Prior
    <3>2. CASE id \notin DOMAIN branches
      BY <2>2, <2>3, <3>2 DEF Prior, Unknown, RevisionNow
    <3> QED
      BY <3>1, <3>2
  <2> QED
    BY <2>2, <2>3, StaysOutdated
<1> QED
  BY <1>1, <1>2

\* So a directory that is not as it was last seen remains so, or is announced.
LEMMA OutdatedOn ==
  ASSUME NEW id, NEW p, Stays(id, p), MessagesSound, Steady, [Next]_vars, Outdated(id)
  PROVE  Outdated(id)' \/ Announced(id)'
<1>1. CASE Apply
  BY <1>1, OutdatedApplied
<1>2. CASE \E due \in BOOLEAN : Poll(due)
  BY <1>2, OutdatedPolled
<1>3. CASE UNCHANGED branches
  BY <1>3, StaysOutdated
<1> QED
  BY <1>1, <1>2, <1>3, ServerKeeps

\* A directory that leaves the observed ones is no longer among them, or is still to leave.
LEMMA DroppedOn ==
  ASSUME IInv, World, MessagesSound, Mail, Steady, NEW id, NEW p, Stays(id, p), Dropped(id)
  PROVE  Dropped(id)' \/ Outdated(id)'
<1>1. PICK m \in ToSet(toServer) : m.type = "branches" /\ m.ids = {TopId}
  BY DEF Dropped
<1>2. id # TopId
  BY DEF Dropped
<1>3. ASSUME m \in ToSet(toServer') PROVE Dropped(id)'
  BY <1>1, <1>2, <1>3 DEF Dropped
<1>4. ASSUME NEW n, SendsOne(n) PROVE m \in ToSet(toServer')
  <2>1. PICK r : r = toServer \o <<n>>
    OBVIOUS
  <2>2. toServer' = r /\ ToSet(r) = ToSet(toServer) \cup {n}
    BY <1>4, <2>1, MessageSent DEF SendsOne, MessagesSound
  <2> QED
    BY <1>1, <2>2
<1>5. CASE Apply
  <2>1. toServer # <<>> /\ toServer' = Tail(toServer)
    BY <1>5 DEF Apply
  <2>2. PICK h, r : h = Head(toServer) /\ r = Tail(toServer)
    OBVIOUS
  <2>3. ToSet(toServer) = ToSet(r) \cup {h}
    BY <2>1, <2>2, MessageTaken DEF MessagesSound
  <2>4. CASE m \in ToSet(r)
    BY <1>3, <2>1, <2>2, <2>4
  <2>5. CASE m = h
    <3>1. \A i \in h.ids : Known(cache, i)
      BY <1>1, <2>5, RootKnown
    <3>2. branches' = [i \in {TopId} |-> Prior(i)]
      BY <1>1, <1>5, <2>2, <2>5, <3>1 DEF Apply
    <3>3. id \notin DOMAIN branches'
      BY <1>2, <3>2
    <3> QED
      BY <3>3, StaysOutdated
  <2> QED
    BY <1>1, <2>3, <2>4, <2>5
<1>6. ~Cut
  BY DEF Steady
<1>7. CASE Connect
  BY <1>1, <1>7, FewMessages DEF Connect, MessagesSound
<1>8. CASE UNCHANGED toServer
  BY <1>1, <1>3, <1>8
<1> QED
  BY <1>3, <1>4, <1>5, <1>6, <1>7, <1>8 DEF Mail

\* The message that the viewer handles.
Handled(id) ==
    Handle /\ Head(toViewer).type = "tree-changed" /\ id \in Head(toViewer).ids

\* What is announced remains so, unless the viewer handles it.
LEMMA AnnouncedOn ==
  ASSUME MessagesSound, Post, Steady, NEW id, NEW p, Stays(id, p), Announced(id)
  PROVE  Announced(id)' \/ Handled(id)
<1>1. PICK m \in ToSet(toViewer) : m.type = "tree-changed" /\ id \in m.ids
  BY DEF Announced
<1>2. ASSUME m \in ToSet(toViewer') PROVE Announced(id)'
  BY <1>1, <1>2 DEF Announced
<1>3. CASE Handle
  <2>1. toViewer # <<>> /\ toViewer' = Tail(toViewer)
    BY <1>3 DEF Handle
  <2>2. PICK h, r : h = Head(toViewer) /\ r = Tail(toViewer)
    OBVIOUS
  <2>3. ToSet(toViewer) = ToSet(r) \cup {h}
    BY <2>1, <2>2, MessageTaken DEF MessagesSound
  <2> QED
    BY <1>1, <1>2, <1>3, <2>1, <2>2, <2>3 DEF Handled
<1>4. ~Cut
  BY DEF Steady
<1>5. CASE ToSet(toViewer) \subseteq ToSet(toViewer')
  BY <1>1, <1>2, <1>5
<1> QED
  BY <1>3, <1>4, <1>5 DEF Post

\* What the viewer has been told remains so, unless it handles it or loads the directory.
LEMMA ToldOn ==
  ASSUME IInv, TInv, StepLoads, Mail, Post, Steady, [Next]_vars, NEW id, NEW p, Stays(id, p), Told(id)
  PROVE  Told(id)' \/ Handled(id) \/ (ReceiveEntries /\ id \in pendingTree)
<1>1. CASE id \in pendingTree
  BY <1>1 DEF StepLoads, LoadsGrow, Told
<1>2. CASE Outdated(id)
  BY <1>2, OutdatedOn DEF TInv, Basic, Told
<1>3. CASE Dropped(id)
  BY <1>3, DroppedOn DEF TInv, Basic, Told
<1>4. CASE Announced(id)
  BY <1>4, AnnouncedOn DEF TInv, Basic, Told
<1> QED
  BY <1>1, <1>2, <1>3, <1>4 DEF Told

-----------------------------------------------------------------------------
(* What the viewer shows *)

\* What the viewer shows of a directory is right, or will be; so is every answer that it
\* has not taken yet.
Fresh(id) ==
    /\ Attended(id)
    /\ \A r \in Answers(requests) : r.id = id => Told(id) \/ Shows(r.entries, id)

\* A directory about which the viewer has been told is loaded again.
LEMMA ToldFresh ==
  ASSUME NEW id, Told(id)'
  PROVE  Fresh(id)'
BY DEF Fresh, Attended

\* A list that shows a directory still does when the directory stays.
LEMMA ShowsOn ==
  ASSUME NEW id, NEW p, Stays(id, p), NEW entries
  PROVE  /\ Shows(entries, id) <=> Listing(entries) = Children(p)
         /\ Shows(entries, id)' <=> Listing(entries) = Children(p)
<1>1. Shows(entries, id) <=> Listing(entries) = Children(p)
  BY DEF Shows, Stays, Listing
<1>2. Shows(entries, id)' <=> Listing(entries) = Children(p)'
  BY DEF Shows, Stays, Listing, Children
<1> QED
  BY <1>1, <1>2 DEF Stays

\* An answer shows its directory, or the viewer has been told, when that remains so.
LEMMA AnswersOn ==
  ASSUME IInv, TInv, StepLoads, NEW id, NEW p, Stays(id, p), Fresh(id), Told(id) => Told(id)',
         NEW r \in Answers(requests'), r.id = id
  PROVE  Told(id)' \/ Shows(r.entries, id)'
<1>1. PICK es : es = r.entries
  OBVIOUS
<1>2. CASE r \in Answers(requests)
  BY <1>1, <1>2, ShowsOn DEF Fresh
<1>3. CASE AnswerOf(r)
  <2>1. Listing(es) = Children(reading.path) /\ reading.path = p
    BY <1>1, <1>3 DEF AnswerOf, Stays
  <2>2. Listing(es) = Children(p)
    BY <2>1
  <2>3. Shows(es, id)'
    BY <2>2, ShowsOn
  <2> QED
    BY <1>1, <2>3
<1> QED
  BY <1>2, <1>3, AnswersBefore DEF TInv, Basic

\* A step that takes no answer.
LEMMA FreshOn ==
  ASSUME IInv, TInv, StepLoads, LoadsGrow, NEW id, NEW p, Stays(id, p), Fresh(id),
         Told(id) => Told(id)'
  PROVE  Fresh(id)'
<1>1. ASSUME NEW r \in Answers(requests'), r.id = id
      PROVE  Told(id)' \/ Shows(r.entries, id)'
  BY <1>1, AnswersOn
<1>2. Attended(id)'
  <2>1. CASE id \in treeErrors \cup activeBranchLoads
    BY <2>1 DEF LoadsGrow, Attended
  <2>2. CASE Told(id)
    BY <2>2 DEF Attended
  <2>3. CASE id \in DOMAIN pages /\ Shows(pages[id], id)
    <3>1. PICK es : es = pages[id]
      OBVIOUS
    <3>2. pages' = pages /\ Shows(es, id)'
      BY <2>3, <3>1, ShowsOn DEF LoadsGrow
    <3>3. id \in DOMAIN pages' /\ pages'[id] = es
      BY <2>3, <3>1, <3>2
    <3>4. Shows(pages[id], id)'
      BY <3>2, <3>3 DEF Shows
    <3> QED
      BY <3>3, <3>4 DEF Attended
  <2> QED
    BY <2>1, <2>2, <2>3 DEF Fresh, Attended
<1>3. (\A r \in Answers(requests) : r.id = id => Told(id) \/ Shows(r.entries, id))'
  BY <1>1 DEF Answers
<1> QED
  BY <1>2, <1>3 DEF Fresh

\* A directory that is announced is loaded, or will be once more after the load under way.
LEMMA HandledFresh ==
  ASSUME IInv, NEW id \in opened, Handled(id)
  PROVE  Fresh(id)'
<1>1. PICK ids : ids = Head(toViewer).ids
  OBVIOUS
<1>2. TreeChanged(ids) /\ id \in ids
  BY <1>1 DEF Handled, Handle
<1>3. PICK n : n = cache.last
  OBVIOUS
<1>4. n \in Nat /\ opened \subseteq 1..n
  BY <1>3, LastTyped DEF IInv, ViewSound
<1>5. PICK now : now = (ids \cap opened) \ activeBranchLoads
  OBVIOUS
<1>6. PICK order \in Orders(now) : Begin(order, requests)
  BY <1>2, <1>5 DEF TreeChanged
<1>7. pendingTree' = pendingTree \cup (ids \cap opened \cap activeBranchLoads)
  BY <1>2 DEF TreeChanged
<1>8. now \in SUBSET (1..n)
  BY <1>4, <1>5
<1>9. order \in Seq(1..n) /\ ToSet(order) = now
  BY <1>4, <1>6, <1>8, OrdersOnto
<1>10. /\ Answers(requests') \subseteq Answers(requests)
       /\ ToSet(order) \subseteq activeBranchLoads' \cup treeErrors'
  BY <1>3, <1>6, <1>9, BeginLoads
<1>11. CASE id \in activeBranchLoads
  <2>1. Told(id)'
    BY <1>2, <1>7, <1>11 DEF Told
  <2> QED
    BY <2>1, ToldFresh
<1>12. CASE id \notin activeBranchLoads
  <2>1. Attended(id)'
    BY <1>2, <1>5, <1>9, <1>10, <1>12 DEF Attended
  <2>2. ASSUME NEW r \in Answers(requests') PROVE r.id # id
    BY <1>10, <1>12, AnswersTyped
  <2>3. (\A r \in Answers(requests) : r.id = id => Told(id) \/ Shows(r.entries, id))'
    BY <2>2 DEF Answers
  <2> QED
    BY <2>1, <2>3 DEF Fresh
<1> QED
  BY <1>11, <1>12

\* A directory whose answer is taken: its page is the answer, unless another load is to
\* follow or the answer is an error.
LEMMA ReceivedFresh ==
  ASSUME IInv, TInv, StepLoads, Mail, Post, Steady, [Next]_vars, NEW id, NEW p, Stays(id, p), Fresh(id),
         ReceiveEntries
  PROVE  Fresh(id)'
<1>1. PICK answer, a : answer = Head(requests) /\ a = answer.id
  OBVIOUS
<1>2. PICK again : again = IF Again(a) = {} THEN <<>> ELSE <<a>>
  OBVIOUS
<1>3. /\ pages' = IF answer.pc = "answered" THEN With(pages, a, answer.entries) ELSE pages
      /\ activeBranchLoads' = activeBranchLoads \ ({a} \ ToSet(again))
      /\ treeErrors' = IF answer.pc = "answered" THEN treeErrors \ {a} ELSE treeErrors \cup {a}
      /\ pendingTree' = pendingTree \ {a}
  BY <1>1, <1>2 DEF ReceiveEntries
<1>4. /\ a \in activeBranchLoads /\ (answer.pc = "answered" => answer \in Answers(requests))
      /\ \A r \in Answers(requests') : r \in Answers(requests) /\ r.id # a
  BY <1>1, ReceivedLoads
<1>5. ~Handled(id)
  BY DEF Handled, Handle, ReceiveEntries, TreeChanged
<1>6. Told(id) => Told(id)' \/ id \in pendingTree
  BY <1>5, ToldOn
<1>7. CASE id # a
  <2>1. Told(id) => Told(id)'
    <3>1. ASSUME id \in pendingTree PROVE Told(id)'
      BY <1>3, <1>7, <3>1 DEF Told
    <3> QED
      BY <1>6, <3>1
  <2>2. ASSUME NEW r \in Answers(requests'), r.id = id
        PROVE  Told(id)' \/ Shows(r.entries, id)'
    BY <2>1, <2>2, AnswersOn
  <2>3. Attended(id)'
    <3>1. CASE id \in treeErrors \cup activeBranchLoads
      BY <1>3, <1>7, <3>1 DEF Attended
    <3>2. CASE Told(id)
      BY <2>1, <3>2 DEF Attended
    <3>3. CASE id \in DOMAIN pages /\ Shows(pages[id], id)
      <4>1. PICK es : es = pages[id]
        OBVIOUS
      <4>2. id \in DOMAIN pages' /\ pages'[id] = es
        BY <1>3, <1>7, <3>3, <4>1 DEF With
      <4>3. Shows(es, id)'
        BY <3>3, <4>1, ShowsOn
      <4>4. Shows(pages[id], id)'
        BY <4>2, <4>3 DEF Shows
      <4> QED
        BY <4>2, <4>4 DEF Attended
    <3> QED
      BY <3>1, <3>2, <3>3 DEF Fresh, Attended
  <2>4. (\A r \in Answers(requests) : r.id = id => Told(id) \/ Shows(r.entries, id))'
    BY <2>2 DEF Answers
  <2> QED
    BY <2>3, <2>4 DEF Fresh
<1>8. CASE id = a
  <2>1. (\A r \in Answers(requests) : r.id = id => Told(id) \/ Shows(r.entries, id))'
    BY <1>4, <1>8 DEF Answers
  <2>2. Attended(id)'
    <3>1. CASE id \in pendingTree
      <4>1. again = <<a>>
        BY <1>2, <1>8, <3>1 DEF Again
      <4>2. a \in ToSet(again)
        BY <4>1 DEF ToSet
      <4>3. id \in activeBranchLoads'
        BY <1>3, <1>4, <1>8, <4>2
      <4> QED
        BY <4>3 DEF Attended
    <3>2. CASE answer.pc # "answered"
      BY <1>3, <1>8, <3>2 DEF Attended
    <3>3. CASE answer.pc = "answered" /\ id \notin pendingTree
      <4>1. PICK es : es = answer.entries
        OBVIOUS
      <4>2. Told(id)' \/ Shows(es, id)
        BY <1>1, <1>4, <1>6, <1>8, <3>3, <4>1 DEF Fresh
      <4>3. id \in DOMAIN pages' /\ pages'[id] = es
        BY <1>3, <1>8, <3>3, <4>1 DEF With
      <4>4. Shows(es, id) => Shows(pages[id], id)'
        <5>1. Shows(es, id) => Shows(es, id)'
          BY ShowsOn
        <5> QED
          BY <4>3, <5>1 DEF Shows
      <4> QED
        BY <4>2, <4>3, <4>4 DEF Attended
    <3> QED
      BY <3>1, <3>2, <3>3
  <2> QED
    BY <2>1, <2>2 DEF Fresh
<1> QED
  BY <1>7, <1>8

\* A directory that was judged and is open after a step.
LEMMA JudgedBefore ==
  ASSUME IInv, Basic, Ages, [Next]_vars, NEW id \in opened, id \in opened', Judged(id)'
  PROVE  Judged(id)
<1>0. World /\ PagesSound /\ DirectoriesWanted
  BY DEF Basic
<1>1. Watched(id)
  <2>1. Watched(id)'
    BY DEF Judged
  <2> QED
    BY <1>0, <2>1, WatchedBefore
<1>2. CASE id = TopId
  BY <1>1, <1>2 DEF Judged
<1>3. CASE id # TopId
  <2>1. AllKnown'
    BY <1>3 DEF Judged
  <2>2. ASSUME NEW x \in opened, ~Known(cache, x) PROVE FALSE
    <3>1. x \notin opened'
      <4>1. CASE x \in opened'
        <5>1. Known(cache', x)
          BY <2>1, <4>1 DEF AllKnown, Known
        <5> QED
          BY <2>2, <5>1, AllKnownBefore
      <4> QED
        BY <4>1
    <3>2. Toggle
      BY <3>1, OnlyToggleOpens
    <3>3. PICK e \in Shown : /\ IsDirectory(e[1])
                             /\ opened' = IF e[2] \in opened THEN opened \ {e[2]} ELSE opened \cup {e[2]}
      BY <3>2 DEF Toggle
    <3>4. x = e[2]
      BY <3>1, <3>3
    <3>5. TopId \in DOMAIN pages /\ e \in pages[TopId]
      BY <1>0, <3>3, ShownDirectory
    <3>6. <<Directory, id>> \in pages[TopId]
      BY <1>0, <1>1, <1>3 DEF PagesSound
    <3>7. e = <<Directory, id>>
      <4>1. PICK f : f = <<Directory, id>>
        OBVIOUS
      <4>2. IsDirectory(f[1]) /\ f \in pages[TopId]
        BY <3>6, <4>1 DEF IsDirectory
      <4>3. OneDirectory(pages[TopId])
        BY <1>0, <3>5 DEF PagesSound, EntriesSound
      <4> QED
        BY <3>3, <3>5, <4>1, <4>2, <4>3 DEF OneDirectory
    <3>8. x = id
      BY <3>4, <3>7
    <3> QED
      BY <3>1, <3>8
  <2> QED
    BY <1>1, <2>2 DEF Judged, AllKnown
<1> QED
  BY <1>2, <1>3

\* A directory that the user opens: it is loaded; an answer from a time when it was open
\* before does not count, for it is not observed at the moment, or about to be dropped.
LEMMA OpenedFresh ==
  ASSUME IInv, TInv, World', Mail, [Next]_vars, NEW id \in opened', id \notin opened, Judged(id)'
  PROVE  Fresh(id)'
<1>0. World /\ PagesSound /\ DirectoriesWanted /\ MessagesSound /\ ObservedSound
  BY DEF TInv, Basic
<1>1. Toggle
  BY OnlyToggleOpens
<1>2. PICK e \in Shown :
        /\ IsDirectory(e[1])
        /\ opened' = IF e[2] \in opened THEN opened \ {e[2]} ELSE opened \cup {e[2]}
        /\ Send(<<Branches(opened')>>)
        /\ IF e[2] \in opened \cup activeBranchLoads THEN UNCHANGED loadVars
           ELSE Begin(<<e[2]>>, requests) /\ UNCHANGED <<pages, pendingTree>>
        /\ UNCHANGED <<diskVars, serverVars, connected, toViewer, flowVars, selected, generation,
                       refreshing, opening>>
  BY <1>1 DEF Toggle
<1>3. id = e[2] /\ opened' = opened \cup {id} /\ UNCHANGED <<cache, disk, stamp, branches>>
  BY <1>2 DEF diskVars, serverVars
<1>4. id \in 1..cache.last /\ id # TopId
  BY <1>0, <1>2, <1>3, ShownDirectory
<1>5. /\ Answers(requests') \subseteq Answers(requests)
      /\ id \in activeBranchLoads' \cup treeErrors'
  <2>1. CASE id \in activeBranchLoads
    BY <1>2, <1>3, <2>1 DEF loadVars
  <2>2. CASE id \notin activeBranchLoads
    <3>1. Begin(<<id>>, requests)
      BY <1>2, <1>3, <2>2
    <3> QED
      BY <1>4, <3>1, BeginOneLoad
  <2> QED
    BY <2>1, <2>2
<1>6. AllKnown' /\ Known(cache, id)
  BY <1>3, <1>4 DEF Judged, Watched, Known
<1>7. AllKnown
  BY <1>3, <1>6 DEF AllKnown, Known
<1>8. opened = {TopId}
  <2>1. TopId \in opened
    BY <1>0 DEF MessagesSound
  <2>2. cache.nodes[id] = Directory
    BY <1>0, <1>2, <1>3, <1>6, ShownDirectory
  <2>3. ASSUME NEW x \in opened PROVE x = TopId
    <3>1. Known(cache, x) /\ IsDirectory(cache.nodes[x])
      BY <1>0, <1>7 DEF AllKnown, DirectoriesWanted, Wanted
    <3> QED
      BY <1>0, <1>6, <2>2, <3>1, OneBelow DEF IInv
  <2> QED
    BY <2>1, <2>3
<1>9. Told(id)'
  <2>1. CASE id \notin DOMAIN branches
    BY <1>3, <2>1 DEF Told, Outdated
  <2>2. CASE id \in DOMAIN branches
    <3>1. Says(toServer, "branches")
      BY <1>0, <1>7, <2>2 DEF ObservedSound
    <3>2. LastBranches(toServer, {TopId})
      BY <1>0, <1>8, <3>1 DEF MessagesSound
    <3>3. PICK m \in ToSet(toServer) : m.type = "branches" /\ m.ids = {TopId}
      BY <3>2 DEF LastBranches, ToSet
    <3>4. m \in ToSet(toServer')
      <4>1. PICK n, r : n = Branches(opened') /\ r = toServer \o <<n>>
        OBVIOUS
      <4>2. toServer' = IF connected THEN r ELSE toServer
        BY <1>2, <4>1 DEF Send
      <4>3. ToSet(r) = ToSet(toServer) \cup {n}
        BY <1>0, <4>1, MessageSent DEF MessagesSound
      <4> QED
        BY <3>3, <4>2, <4>3
    <3>5. Dropped(id)'
      BY <1>4, <3>3, <3>4 DEF Dropped
    <3> QED
      BY <3>5 DEF Told
  <2> QED
    BY <2>1, <2>2
<1> QED
  BY <1>9, ToldFresh

\* Every step.
LEMMA FreshStep ==
  ASSUME IInv, TInv, World', Ages, StepLoads, Mail, Post, Steady, [Next]_vars
  PROVE  FreshSound'
<1> SUFFICES ASSUME NEW id \in opened', Judged(id)'
             PROVE  Fresh(id)'
  BY DEF FreshSound, Fresh
<1>1. CASE id \notin opened
  BY <1>1, OpenedFresh
<1>2. CASE id \in opened
  <2>1. Judged(id)
    BY <1>2, JudgedBefore DEF TInv
  <2>2. Fresh(id)
    BY <1>2, <2>1 DEF TInv, FreshSound, Fresh
  <2>3. Watched(id)'
    BY DEF Judged
  <2>4. PICK p : p = cache.nodes[id]
    OBVIOUS
  <2>5. CASE stamp'[p] # stamp[p]
    <3>1. Outdated(id)'
      BY <1>2, <2>3, <2>4, <2>5, LaterOutdated
    <3>2. Told(id)'
      BY <3>1 DEF Told
    <3> QED
      BY <3>2, ToldFresh
  <2>6. CASE stamp'[p] = stamp[p]
    <3>1. Stays(id, p)
      BY <1>2, <2>3, <2>4, <2>6, WatchedStays DEF TInv, Basic
    <3>2. CASE ReceiveEntries
      BY <2>2, <3>1, <3>2, ReceivedFresh
    <3>3. CASE Handled(id)
      BY <1>2, <3>3, HandledFresh
    <3>4. CASE ~ReceiveEntries /\ ~Handled(id)
      <4>1. Told(id) => Told(id)'
        BY <3>1, <3>4, ToldOn
      <4>2. LoadsGrow
        BY <3>4 DEF StepLoads
      <4> QED
        BY <2>2, <3>1, <4>1, <4>2, FreshOn
    <3> QED
      BY <3>2, <3>3, <3>4
  <2> QED
    BY <2>5, <2>6
<1> QED
  BY <1>1, <1>2

\* The first state: the root is being loaded.
LEMMA InitFlowInv == Init => FlowInv
<1> SUFFICES ASSUME Init PROVE FlowInv
  OBVIOUS
<1>1. /\ cache.nodes = [id \in {TopId} |-> Top] /\ cache.ids = [p \in {Top} |-> TopId]
      /\ stamp = [d \in {Top, Directory} |-> 0]
  BY DEF Init
<1>2. /\ opened = {TopId} /\ activeBranchLoads = {TopId} /\ refreshing = <<>> /\ pages = <<>>
      /\ branches = <<>> /\ toServer = <<>> /\ toViewer = <<>> /\ selected = 0
      /\ selection = NoSelection /\ reading = Idle /\ connected /\ opening
  BY DEF Init
<1>3. World
  BY <1>1 DEF World, DirectoriesIndexed
<1>4. DirectoriesWanted
  BY <1>1, <1>2 DEF DirectoriesWanted, Wanted, Known, IsDirectory
<1>5. Answers(requests) = {}
  <2>1. PICK r : r = Request("entries", TopId)
    OBVIOUS
  <2>2. requests = <<r>> /\ r.pc = "waits"
    BY <2>1 DEF Init, Request
  <2>3. ToSet(requests) = {r}
    BY <2>2, FewMessages
  <2> QED
    BY <2>2, <2>3 DEF Answers
<1>6. PagesSound
  BY <1>2, <1>5 DEF PagesSound
<1>7. Sequence(<<>>) /\ ToSet(<<>>) = {}
  BY FewMessages
<1>8. MessagesSound
  BY <1>2, <1>7 DEF MessagesSound, Says
<1>9. ObservedSound
  BY <1>2 DEF ObservedSound, ToBeObserved
<1>10. FreshSound
  BY <1>2, <1>5 DEF FreshSound, Attended
<1>11. ReadsSound
  BY <1>2 DEF ReadsSound
<1>12. SelectionSound
  BY <1>2 DEF SelectionSound, SubscribesTo, NoSelection
<1>13. FlowSound
  BY DEF Init, FlowSound
<1> QED
  BY <1>3, <1>4, <1>6, <1>8, <1>9, <1>10, <1>11, <1>12, <1>13 DEF FlowInv, Basic, TInv

\* The flows and their sockets.
LEMMA FlowStep ==
  ASSUME FlowSound, [Next]_vars
  PROVE  /\ FlowSound'
         /\ Trusted' => \/ Trusted /\ Steady
                        \/ /\ EndFlow /\ ~connected /\ ~connected'
                           /\ selection' = NoSelection /\ branches' = <<>>
<1>1. CASE Cut
  BY <1>1 DEF Cut, FlowSound, Trusted
<1>2. CASE EndFlow
  BY <1>2 DEF EndFlow, FlowSound, Trusted
<1>3. CASE Connect
  <2>1. old' = old /\ old \in Nat /\ ~connected /\ connected' /\ (old > 0 <=> old # 0)
    BY <1>3 DEF Connect, FlowSound
  <2>2. hasty' <=> old # 0
    <3>1. hasty' = (old > 0)
      BY <1>3 DEF Connect
    <3> QED
      BY <2>1, <3>1, Zenon
  <2>3. FlowSound'
    BY <2>1, <2>2, Zenon DEF FlowSound
  <2>4. ASSUME Trusted' PROVE Trusted /\ Steady
    <3>1. old = 0 /\ ~hasty /\ ~(old > 0)
      BY <2>1, <2>4, Zenon DEF FlowSound, Trusted
    <3> QED
      BY <2>1, <3>1, Zenon DEF Trusted, Steady, Cut, EndFlow, PollUnheard
  <2> QED
    BY <2>3, <2>4
<1>4. CASE ~Cut /\ ~EndFlow /\ ~Connect
  <2>1. UNCHANGED <<connected, old, hasty>>
    BY <1>4, NextIs DEF Disk, Rotate, Create, Delete, Change, User, Toggle, SelectFile, Retry,
       BeginEntries, EndEntries, ServeContent, Apply, Looks, Watch, ReceiveEntries,
       ReceiveContent, Handle, Refresh, vars, socketVars, flowVars
  <2> QED
    <3>1. FlowSound' /\ (Trusted' <=> Trusted)
      BY <2>1, Zenon DEF FlowSound, Trusted
    <3>2. Trusted => ~(old > 0)
      BY DEF Trusted
    <3> QED
      BY <1>4, <3>1, <3>2, Zenon DEF Steady, PollUnheard
<1> QED
  BY <1>1, <1>2, <1>3, <1>4

\* Nobody observes anything after the last flow has ended, and a socket opened from then on
\* starts from nothing.
LEMMA EndedSound ==
  ASSUME MessagesSound', ~connected', selection' = NoSelection, branches' = <<>>
  PROVE  ObservedSound' /\ FreshSound' /\ SelectionSound'
<1>1. DOMAIN branches' = {} /\ toServer' = <<>>
  BY DEF MessagesSound
<1>2. ObservedSound'
  BY <1>1 DEF ObservedSound, ToBeObserved
<1>3. FreshSound'
  <2>1. ASSUME NEW id PROVE Told(id)'
    BY <1>1 DEF Told, Outdated
  <2> QED
    BY <2>1 DEF FreshSound, Attended
<1>4. SelectionSound'
  BY <1>1 DEF SelectionSound, SubscribesTo, NoSelection
<1> QED
  BY <1>2, <1>3, <1>4

\* A step keeps the invariant of the tree.
LEMMA NextFlowInv == IInv /\ FlowInv /\ [Next]_vars => FlowInv'
<1> SUFFICES ASSUME IInv, FlowInv, [Next]_vars PROVE FlowInv'
  OBVIOUS
<1>0. Basic /\ FlowSound /\ (Trusted => TInv)
  BY DEF FlowInv
<1>1. IInv'
  BY NextIInv
<1>2. World' /\ Ages
  BY <1>0, StepAges DEF Basic
<1>3. StepLoads
  BY NextLoads
<1>4. Mail /\ Post
  BY <1>0, NextMail, NextPost DEF Basic, MessagesSound
<1>5. DirectoriesWanted'
  BY <1>0, <1>1, <1>2, <1>3, DirectoriesWantedStep
<1>6. PagesSound'
  BY <1>0, <1>1, <1>2, <1>3, PagesStep
<1>7. MessagesSound'
  BY <1>0, <1>3, <1>4, MessagesStep
<1>8. ReadsSound'
  BY <1>0, <1>1, <1>2, <1>3, <1>5, ReadsStep
<1>9. Basic'
  BY <1>2, <1>5, <1>6, <1>7, <1>8 DEF Basic
<1>10. ASSUME TInv, Steady PROVE ObservedSound' /\ FreshSound' /\ SelectionSound'
  <2>1. ObservedSound'
    BY <1>2, <1>3, <1>4, <1>10, ObservedStep
  <2>2. FreshSound'
    BY <1>2, <1>3, <1>4, <1>10, FreshStep
  <2>3. SelectionSound'
    BY <1>4, <1>10, SelectionStep
  <2> QED
    BY <2>1, <2>2, <2>3
<1>11. FlowSound'
  BY <1>0, FlowStep
<1>12. Trusted' => TInv'
  <2>1. ASSUME ~connected', selection' = NoSelection, branches' = <<>>
        PROVE  ObservedSound' /\ FreshSound' /\ SelectionSound'
    BY <1>7, <2>1, EndedSound
  <2> QED
    BY <1>0, <1>9, <1>10, <2>1, FlowStep DEF TInv
<1> QED
  BY <1>9, <1>11, <1>12 DEF FlowInv

\* The invariants imply the property.
LEMMA FlowInvImplies == IInv /\ FlowInv => TreeCatchesUp
<1> SUFFICES ASSUME IInv, FlowInv, Settled, NoneExpired, ~hasty, NEW id \in opened, Original(id)
             PROVE  id \in treeErrors \/ (id \in DOMAIN pages /\ Shows(pages[id], id))
  BY DEF TreeCatchesUp, UpToDate
<1>0. TInv
  BY DEF FlowInv, FlowSound, Trusted, Settled
<1>1. /\ connected /\ reading = Idle /\ requests = <<>> /\ toServer = <<>> /\ toViewer = <<>>
      /\ Expired \/ Changed = {}
  BY DEF Settled, Free
<1>2. AllKnown
  BY DEF NoneExpired, AllKnown
<1>3. ~Says(toServer, "branches") /\ ~Says(toServer, "unsubscribe") /\ ~Announced(id) /\ ~Dropped(id)
  BY <1>1, FewMessages DEF Says, Announced, Dropped
<1>4. activeBranchLoads = {} /\ pendingTree = {}
  BY <1>1 DEF IInv, LoadsSound, Loading
<1>5. ~opening
  BY <1>0, <1>4 DEF TInv, Basic, MessagesSound
<1>6. ~Expired
  <2>1. selection = NoSelection \/ (selection.id # 0 /\ selection.id = selected)
    BY <1>0, <1>3 DEF TInv, SelectionSound
  <2> QED
    BY <2>1 DEF Expired, NoneExpired
<1>7. Watched(id) /\ Judged(id)
  BY <1>2 DEF Watched, Judged, AllKnown
<1>8. id \in DOMAIN branches
  BY <1>0, <1>1, <1>2, <1>3, <1>5, <1>7 DEF TInv, ObservedSound, ToBeObserved
<1>9. ~Outdated(id)
  BY <1>1, <1>6, <1>8 DEF Changed, Outdated
<1>10. ~Told(id)
  BY <1>3, <1>4, <1>9 DEF Told
<1> QED
  BY <1>0, <1>4, <1>7, <1>10 DEF TInv, FreshSound, Attended

\* The property of the tree (front-react-logger/docs/SPECIFICATION.md:63), for every size of
\* the cache and of the queue and every number of changes, presses, cuts and flows that
\* outlive their sockets: when all is done, an open directory shows what it holds, or an
\* error, unless the socket was opened before the flow of an earlier one had ended.
THEOREM TreeCatchesUpHolds == Spec => []TreeCatchesUp
<1>1. Init => IInv /\ FlowInv
  BY InitIInv, InitFlowInv
<1>2. IInv /\ FlowInv /\ [Next]_vars => IInv' /\ FlowInv'
  BY NextIInv, NextFlowInv
<1>3. IInv /\ FlowInv => TreeCatchesUp
  BY FlowInvImplies
<1> QED
  BY <1>1, <1>2, <1>3, PTL DEF Spec
=============================================================================

------------------------------ MODULE SumProofs ------------------------------
(***************************************************************************)
(* What SumFunction of the community modules computes over finite domains: *)
(* its definition recurses over subsets, so each fact is proved from a     *)
(* minimal set that would contradict it.                                   *)
(***************************************************************************)
EXTENDS Integers, Functions, FiniteSetTheorems, WellFoundedInduction, TLAPS

\* The element a sum takes first, and the recursion SumFunction chooses a solution of.
Pick(s) == CHOOSE x \in s : TRUE
Unrolls(f, S, it) ==
    it = [s \in SUBSET S |-> IF s = {} THEN 0 ELSE f[Pick(s)] + it[s \ {Pick(s)}]]

\* SumFunctionOnSet is a solution, if there is one.
LEMMA SumIsSolution ==
  ASSUME NEW f, NEW S, \E it : Unrolls(f, S, it)
  PROVE  \E it : Unrolls(f, S, it) /\ SumFunctionOnSet(f, S) = it[S]
<1> DEFINE it == CHOOSE it : Unrolls(f, S, it)
<1>1. Unrolls(f, S, it)
  OBVIOUS
<1>2. SumFunctionOnSet(f, S) = it[S]
  BY DEF SumFunctionOnSet, FoldFunctionOnSet, MapThenFoldSet, Unrolls, Pick
<1> QED
  BY <1>1, <1>2

\* A set of finite sets has a minimal member.
LEMMA MinimalSet ==
  ASSUME NEW S, IsFiniteSet(S), NEW Bad \in SUBSET (SUBSET S), Bad # {}
  PROVE  \E T \in Bad : \A U \in SUBSET T : U # T => U \notin Bad
<1>1. IsWellFoundedOn(StrictSubsetOrdering(S), SUBSET S)
  BY FS_StrictSubsetOrderingWellFounded, FS_FiniteSubsetsOfFinite
<1>2. PICK T \in Bad : \A U \in Bad : <<U, T>> \notin StrictSubsetOrdering(S)
  BY <1>1, WFMin
<1>3. ASSUME NEW U \in SUBSET T, U # T, U \in Bad PROVE FALSE
  <2>1. <<U, T>> \in (SUBSET S) \X (SUBSET S)
    BY <1>3
  <2>2. <<U, T>> \in StrictSubsetOrdering(S)
    BY <1>3, <2>1 DEF StrictSubsetOrdering
  <2> QED
    BY <1>2, <1>3, <2>2
<1> QED
  BY <1>3

\* Picking from a nonempty set.
LEMMA Picked == ASSUME NEW s, s # {} PROVE Pick(s) \in s
  BY DEF Pick

\* Solutions agree.
LEMMA SolutionsAgree ==
  ASSUME NEW f, NEW S, NEW T, IsFiniteSet(S), NEW a, NEW b, Unrolls(f, S, a), Unrolls(f, T, b),
         NEW u \in SUBSET S, u \subseteq T
  PROVE  a[u] = b[u]
<1> DEFINE Bad == {v \in SUBSET S : v \subseteq T /\ a[v] # b[v]}
<1> SUFFICES ASSUME Bad # {} PROVE FALSE
  OBVIOUS
<1>1. PICK v \in Bad : \A w \in SUBSET v : w # v => w \notin Bad
  BY MinimalSet
<1>2. /\ a[v] = IF v = {} THEN 0 ELSE f[Pick(v)] + a[v \ {Pick(v)}]
      /\ b[v] = IF v = {} THEN 0 ELSE f[Pick(v)] + b[v \ {Pick(v)}]
  BY DEF Unrolls
<1>3. CASE v = {}
  BY <1>2, <1>3
<1>4. CASE v # {}
  <2>1. Pick(v) \in v
    BY <1>4, Picked
  <2>2. v \ {Pick(v)} \notin Bad
    BY <1>1, <2>1
  <2>3. a[v \ {Pick(v)}] = b[v \ {Pick(v)}]
    BY <2>2
  <2> QED
    BY <1>2, <1>4, <2>3
<1> QED
  BY <1>3, <1>4
\* A solution, restricted to smaller sets.
LEMMA SolutionRestricted ==
  ASSUME NEW f, NEW S, NEW it, Unrolls(f, S, it), NEW T \in SUBSET S
  PROVE  Unrolls(f, T, [v \in SUBSET T |-> it[v]])
<1> DEFINE b == [v \in SUBSET T |-> it[v]]
<1>1. ASSUME NEW v \in SUBSET T
      PROVE  b[v] = IF v = {} THEN 0 ELSE f[Pick(v)] + b[v \ {Pick(v)}]
  <2>1. v \in SUBSET S /\ v \ {Pick(v)} \in SUBSET T
    OBVIOUS
  <2>2. it[v] = IF v = {} THEN 0 ELSE f[Pick(v)] + it[v \ {Pick(v)}]
    BY <2>1 DEF Unrolls
  <2> QED
    BY <2>1, <2>2
<1>2. b = [v \in SUBSET T |-> b[v]]
  OBVIOUS
<1> HIDE DEF b
<1>3. b = [v \in SUBSET T |-> IF v = {} THEN 0 ELSE f[Pick(v)] + b[v \ {Pick(v)}]]
  BY <1>1, <1>2
<1> QED
  BY <1>3 DEF Unrolls, b

\* A finite set has a solution.
LEMMA SolutionExists ==
  ASSUME NEW f, NEW S, IsFiniteSet(S)
  PROVE  \E it : Unrolls(f, S, it)
<1> DEFINE Bad == {T \in SUBSET S : ~\E it : Unrolls(f, T, it)}
<1> SUFFICES ASSUME Bad # {} PROVE FALSE
  OBVIOUS
<1>0. Bad \in SUBSET (SUBSET S)
  OBVIOUS
<1> HIDE DEF Bad
<1>1. PICK T \in Bad : \A U \in SUBSET T : U # T => U \notin Bad
  BY <1>0, MinimalSet
<1> USE DEF Bad
<1>2. IsFiniteSet(T)
  BY FS_Subset
<1> DEFINE sol == [U \in SUBSET T |-> CHOOSE it : Unrolls(f, U, it)]
           value == [U \in SUBSET T |-> sol[U][U]]
           whole == IF T = {} THEN 0 ELSE f[Pick(T)] + value[T \ {Pick(T)}]
           it == [U \in SUBSET T |-> IF U = T THEN whole ELSE value[U]]
<1>3. ASSUME NEW U \in SUBSET T, U # T PROVE Unrolls(f, U, sol[U])
  <2>1. \E z : Unrolls(f, U, z)
    BY <1>1, <1>3
  <2> QED
    BY <2>1
<1> HIDE DEF sol
<1>4. ASSUME NEW U \in SUBSET T, U # T, U # {}
      PROVE  value[U] = f[Pick(U)] + value[U \ {Pick(U)}]
  <2> DEFINE V == U \ {Pick(U)}
  <2>1. V \in SUBSET U /\ V \in SUBSET T /\ V # T /\ IsFiniteSet(U)
    BY <1>2, <1>4, FS_Subset
  <2>2. Unrolls(f, U, sol[U]) /\ Unrolls(f, V, sol[V])
    BY <1>3, <1>4, <2>1
  <2> HIDE DEF V
  <2>3. sol[U][V] = sol[V][V]
    <3>1. ASSUME NEW a, NEW b, Unrolls(f, U, a), Unrolls(f, V, b) PROVE a[V] = b[V]
      BY <2>1, <3>1, SolutionsAgree
    <3> QED
      BY <2>2, <3>1
  <2>4. sol[U][U] = f[Pick(U)] + sol[U][V]
    BY <1>4, <2>2 DEF Unrolls, V
  <2> QED
    BY <2>1, <2>3, <2>4 DEF V
<1>5. {} # T => value[{}] = 0
  <2> SUFFICES ASSUME {} # T PROVE value[{}] = 0
    OBVIOUS
  <2>1. Unrolls(f, {}, sol[{}])
    BY <1>3
  <2> QED
    BY <2>1 DEF Unrolls
<1> HIDE DEF value
<1>6. ASSUME NEW U \in SUBSET T
      PROVE  it[U] = IF U = {} THEN 0 ELSE f[Pick(U)] + it[U \ {Pick(U)}]
  <2>1. U # {} => /\ Pick(U) \in U /\ U \ {Pick(U)} \in SUBSET T /\ U \ {Pick(U)} # T
                  /\ it[U \ {Pick(U)}] = value[U \ {Pick(U)}]
    BY Picked
  <2>2. CASE U = T
    BY <2>1, <2>2
  <2>3. CASE U # T
    BY <1>4, <1>5, <2>1, <2>3
  <2> QED
    BY <2>2, <2>3
<1>7. it = [U \in SUBSET T |-> it[U]]
  OBVIOUS
<1> HIDE DEF it
<1>8. it = [U \in SUBSET T |-> IF U = {} THEN 0 ELSE f[Pick(U)] + it[U \ {Pick(U)}]]
  BY <1>6, <1>7
<1>9. Unrolls(f, T, it)
  BY <1>8 DEF Unrolls
<1> QED
  BY <1>1, <1>9

\* The recursion, for sums over subsets of a finite set.
LEMMA SumUnrolls ==
  ASSUME NEW f, NEW S, IsFiniteSet(S)
  PROVE  SumFunctionOnSet(f, S) =
           IF S = {} THEN 0 ELSE f[Pick(S)] + SumFunctionOnSet(f, S \ {Pick(S)})
<1> DEFINE T == S \ {Pick(S)}
<1>1. PICK a : Unrolls(f, S, a) /\ SumFunctionOnSet(f, S) = a[S]
  BY SolutionExists, SumIsSolution
<1>2. IsFiniteSet(T) /\ T \in SUBSET S
  BY FS_Subset
<1> HIDE DEF T
<1>3. PICK b : Unrolls(f, T, b) /\ SumFunctionOnSet(f, T) = b[T]
  BY <1>2, SolutionExists, SumIsSolution
<1>4. a[T] = b[T]
  <2>1. \A u \in SUBSET S : u \subseteq T => a[u] = b[u]
    BY <1>1, <1>3, SolutionsAgree
  <2> QED
    BY <1>2, <2>1
<1>5. a[S] = IF S = {} THEN 0 ELSE f[Pick(S)] + a[T]
  BY <1>1 DEF Unrolls, T
<1> QED
  BY <1>1, <1>3, <1>4, <1>5 DEF T-----------------------------------------------------------------------------
(* Sums of natural numbers *)

\* The sum is a natural number, and any element may be taken out first.
LEMMA SumTakes ==
  ASSUME NEW S, IsFiniteSet(S), NEW f, \A x \in S : f[x] \in Nat
  PROVE  /\ SumFunctionOnSet(f, S) \in Nat
         /\ \A x \in S : SumFunctionOnSet(f, S) = f[x] + SumFunctionOnSet(f, S \ {x})
<1> DEFINE Total(T) == SumFunctionOnSet(f, T)
           Good(T) == Total(T) \in Nat /\ \A x \in T : Total(T) = f[x] + Total(T \ {x})
           Bad == {T \in SUBSET S : ~Good(T)}
<1> SUFFICES ASSUME Bad # {} PROVE FALSE
  OBVIOUS
<1>0. Bad \in SUBSET (SUBSET S)
  OBVIOUS
<1>1. PICK T \in Bad : \A U \in SUBSET T : U # T => U \notin Bad
  <2> HIDE DEF Bad
  <2> QED
    BY <1>0, MinimalSet
<1>2. \A U \in SUBSET T : Total(U) = IF U = {} THEN 0 ELSE f[Pick(U)] + Total(U \ {Pick(U)})
  <2> SUFFICES ASSUME NEW U \in SUBSET T
               PROVE  Total(U) = IF U = {} THEN 0 ELSE f[Pick(U)] + Total(U \ {Pick(U)})
    OBVIOUS
  <2>1. IsFiniteSet(U)
    BY FS_Subset
  <2> QED
    BY <2>1, SumUnrolls
<1>3. \A U \in SUBSET T : U # T => Good(U)
  BY <1>1
<1>4. T # {}
  <2> SUFFICES ASSUME T = {} PROVE Good(T)
    BY <1>1
  <2> QED
    BY <1>2
<1> DEFINE c == Pick(T)
<1>5. c \in T /\ \A x \in T : f[x] \in Nat
  BY <1>4, Picked
<1> HIDE DEF Total, c
<1>6. Total(T) = f[c] + Total(T \ {c}) /\ Total(T \ {c}) \in Nat
  <2>1. T \ {c} \in SUBSET T /\ T \ {c} # T
    BY <1>5
  <2> QED
    BY <1>2, <1>3, <1>4, <2>1 DEF c
<1>7. ASSUME NEW x \in T PROVE Total(T) = f[x] + Total(T \ {x})
  <2>1. CASE x = c
    BY <1>6, <2>1
  <2>2. CASE x # c
    <3> DEFINE rest == T \ {c, x}
    <3>1. /\ T \ {c} \in SUBSET T /\ T \ {c} # T /\ x \in T \ {c} /\ (T \ {c}) \ {x} = rest
          /\ T \ {x} \in SUBSET T /\ T \ {x} # T /\ c \in T \ {x} /\ (T \ {x}) \ {c} = rest
          /\ rest \in SUBSET T /\ rest # T
      BY <1>5, <2>2
    <3> HIDE DEF rest
    <3>2. Total(T \ {c}) = f[x] + Total(rest) /\ Total(T \ {x}) = f[c] + Total(rest)
          /\ Total(rest) \in Nat
      BY <1>3, <3>1
    <3>3. f[c] \in Nat /\ f[x] \in Nat
      BY <1>5
    <3> QED
      BY <1>6, <3>2, <3>3
  <2> QED
    BY <2>1, <2>2
<1>8. Total(T) \in Nat
  BY <1>5, <1>6
<1> QED
  BY <1>1, <1>7, <1>8

\* The sum over two disjoint pieces, when the values are added point by point: with
\* zeros, this covers sums over subsets and sums of sums.
LEMMA SumsAdd ==
  ASSUME NEW S, IsFiniteSet(S), NEW f, NEW g, NEW h,
         \A x \in S : f[x] \in Nat /\ g[x] \in Nat /\ h[x] = f[x] + g[x]
  PROVE  SumFunctionOnSet(h, S) = SumFunctionOnSet(f, S) + SumFunctionOnSet(g, S)
<1> DEFINE Bad == {T \in SUBSET S : SumFunctionOnSet(h, T) # SumFunctionOnSet(f, T) + SumFunctionOnSet(g, T)}
<1> SUFFICES ASSUME Bad # {} PROVE FALSE
  OBVIOUS
<1>0. Bad \in SUBSET (SUBSET S)
  OBVIOUS
<1>1. PICK T \in Bad : \A U \in SUBSET T : U # T => U \notin Bad
  <2> HIDE DEF Bad
  <2> QED
    BY <1>0, MinimalSet
<1>2. IsFiniteSet(T)
  BY FS_Subset
<1>3. CASE T = {}
  <2>1. /\ SumFunctionOnSet(h, T) = 0 /\ SumFunctionOnSet(f, T) = 0 /\ SumFunctionOnSet(g, T) = 0
    BY <1>2, <1>3, SumUnrolls
  <2> QED
    BY <2>1
<1>4. ASSUME NEW x \in T PROVE FALSE
  <2> DEFINE U == T \ {x}
  <2>1. U \in SUBSET T /\ U # T /\ IsFiniteSet(U)
    BY <1>2, FS_Subset
  <2>2. SumFunctionOnSet(h, U) = SumFunctionOnSet(f, U) + SumFunctionOnSet(g, U)
    BY <1>1, <2>1
  <2>3. \A y \in T : f[y] \in Nat /\ g[y] \in Nat /\ h[y] \in Nat
    OBVIOUS
  <2>4. /\ SumFunctionOnSet(f, T) = f[x] + SumFunctionOnSet(f, U)
        /\ SumFunctionOnSet(g, T) = g[x] + SumFunctionOnSet(g, U)
        /\ SumFunctionOnSet(h, T) = h[x] + SumFunctionOnSet(h, U)
    BY <1>2, <2>3, SumTakes
  <2>5. SumFunctionOnSet(f, U) \in Nat /\ SumFunctionOnSet(g, U) \in Nat
    BY <2>1, <2>3, SumTakes
  <2>6. h[x] = f[x] + g[x] /\ f[x] \in Nat /\ g[x] \in Nat
    OBVIOUS
  <2> HIDE DEF U
  <2>7. SumFunctionOnSet(h, T) = SumFunctionOnSet(f, T) + SumFunctionOnSet(g, T)
    BY <2>2, <2>4, <2>5, <2>6
  <2> QED
    BY <2>7
<1> QED
  BY <1>3, <1>4

\* Only the values on the set count.
LEMMA SumsAgree ==
  ASSUME NEW S, IsFiniteSet(S), NEW f, NEW h, \A x \in S : f[x] \in Nat /\ h[x] = f[x]
  PROVE  SumFunctionOnSet(h, S) = SumFunctionOnSet(f, S)
<1> DEFINE g == [x \in S |-> 0]
<1>1. \A x \in S : f[x] \in Nat /\ g[x] \in Nat /\ f[x] = f[x] + g[x] /\ h[x] = f[x] + g[x]
  OBVIOUS
<1>2. \A x \in S : g[x] = g[x] + g[x] /\ g[x] \in Nat
  OBVIOUS
<1> HIDE DEF g
<1>3. SumFunctionOnSet(h, S) = SumFunctionOnSet(f, S) + SumFunctionOnSet(g, S)
  BY <1>1, SumsAdd
<1>4. SumFunctionOnSet(f, S) = SumFunctionOnSet(f, S) + SumFunctionOnSet(g, S)
  BY <1>1, SumsAdd
<1> QED
  BY <1>3, <1>4
-----------------------------------------------------------------------------
(* SumFunction, as the accounts use it *)

\* A function whose values can be summed.
Summable(f) == IsFiniteSet(DOMAIN f) /\ \A x \in DOMAIN f : f[x] \in Nat

\* Sums of natural numbers are natural.
LEMMA SumNatural == ASSUME NEW f, Summable(f) PROVE SumFunction(f) \in Nat
  BY SumTakes DEF SumFunction, Summable

\* A sum of nothing.
LEMMA SumOfNone == ASSUME NEW f, DOMAIN f = {} PROVE SumFunction(f) = 0
  BY SumUnrolls, FS_EmptySet DEF SumFunction

\* A new term.
LEMMA SumGrows ==
  ASSUME NEW f, NEW h, Summable(f), NEW x, x \notin DOMAIN f, DOMAIN h = DOMAIN f \cup {x},
         \A y \in DOMAIN f : h[y] = f[y], h[x] \in Nat
  PROVE  Summable(h) /\ SumFunction(h) = SumFunction(f) + h[x]
<1>1. Summable(h)
  <2>1. IsFiniteSet(DOMAIN h)
    BY FS_AddElement DEF Summable
  <2> QED
    BY <2>1 DEF Summable
<1>2. SumFunctionOnSet(h, DOMAIN h) = h[x] + SumFunctionOnSet(h, DOMAIN h \ {x})
  BY <1>1, SumTakes DEF Summable
<1>3. SumFunctionOnSet(h, DOMAIN f) = SumFunctionOnSet(f, DOMAIN f)
  BY SumsAgree DEF Summable
<1>4. DOMAIN h \ {x} = DOMAIN f
  OBVIOUS
<1>5. SumFunction(f) \in Nat
  BY SumNatural
<1> QED
  BY <1>1, <1>2, <1>3, <1>4, <1>5 DEF SumFunction

\* A term that changes.
LEMMA SumChanges ==
  ASSUME NEW f, NEW h, Summable(f), NEW x \in DOMAIN f, DOMAIN h = DOMAIN f,
         \A y \in DOMAIN f \ {x} : h[y] = f[y], h[x] \in Nat
  PROVE  Summable(h) /\ SumFunction(h) + f[x] = SumFunction(f) + h[x]
<1> DEFINE rest == [y \in DOMAIN f \ {x} |-> f[y]]
<1>1. Summable(rest) /\ DOMAIN rest = DOMAIN f \ {x} /\ \A y \in DOMAIN rest : rest[y] = f[y]
  BY FS_Subset DEF Summable
<1> HIDE DEF rest
<1>2. SumFunction(f) = SumFunction(rest) + f[x]
  <2>1. /\ f[x] \in Nat /\ x \notin DOMAIN rest /\ DOMAIN f = DOMAIN rest \cup {x}
        /\ \A y \in DOMAIN rest : f[y] = rest[y]
    BY <1>1 DEF Summable
  <2> QED
    BY <1>1, <2>1, SumGrows
<1>3. Summable(h) /\ SumFunction(h) = SumFunction(rest) + h[x]
  <2>1. x \notin DOMAIN rest /\ DOMAIN h = DOMAIN rest \cup {x} /\ \A y \in DOMAIN rest : h[y] = rest[y]
    BY <1>1
  <2> QED
    BY <1>1, <2>1, SumGrows
<1>4. SumFunction(rest) \in Nat /\ f[x] \in Nat
  BY <1>1, SumNatural DEF Summable
<1> QED
  BY <1>2, <1>3, <1>4

\* Terms that are sums.
LEMMA SumAdded ==
  ASSUME NEW f, NEW g, NEW h, Summable(f), Summable(g), DOMAIN f = DOMAIN g, DOMAIN h = DOMAIN g,
         \A x \in DOMAIN g : h[x] = f[x] + g[x]
  PROVE  Summable(h) /\ SumFunction(h) = SumFunction(f) + SumFunction(g)
<1>1. \A x \in DOMAIN g : f[x] \in Nat /\ g[x] \in Nat /\ h[x] = f[x] + g[x]
  BY DEF Summable
<1>2. Summable(h)
  BY <1>1 DEF Summable
<1>3. SumFunctionOnSet(h, DOMAIN g) = SumFunctionOnSet(f, DOMAIN g) + SumFunctionOnSet(g, DOMAIN g)
  BY <1>1, SumsAdd DEF Summable
<1> QED
  BY <1>2, <1>3 DEF SumFunction

\* A sum of zeros.
LEMMA SumOfZeros ==
  ASSUME NEW f, Summable(f), \A x \in DOMAIN f : f[x] = 0
  PROVE  SumFunction(f) = 0
<1>1. SumFunction(f) = SumFunction(f) + SumFunction(f)
  BY SumAdded
<1> QED
  BY <1>1, SumNatural

\* Terms that grow.
LEMMA SumMonotone ==
  ASSUME NEW f, NEW h, Summable(f), Summable(h), DOMAIN f = DOMAIN h,
         \A x \in DOMAIN f : f[x] <= h[x]
  PROVE  SumFunction(f) <= SumFunction(h)
<1> DEFINE g == [x \in DOMAIN f |-> h[x] - f[x]]
<1>1. Summable(g) /\ DOMAIN g = DOMAIN f
  BY DEF Summable
<1>2. \A x \in DOMAIN f : h[x] = f[x] + g[x]
  BY DEF Summable
<1> HIDE DEF g
<1>3. SumFunction(h) = SumFunction(f) + SumFunction(g)
  BY <1>1, <1>2, SumAdded
<1> QED
  BY <1>1, <1>3, SumNatural

\* Terms that are zero can be left out.
LEMMA SumRestricted ==
  ASSUME NEW f, NEW g, Summable(f), DOMAIN g \in SUBSET DOMAIN f, \A x \in DOMAIN g : g[x] = f[x],
         \A x \in DOMAIN f \ DOMAIN g : f[x] = 0
  PROVE  SumFunction(g) = SumFunction(f)
<1> DEFINE D == DOMAIN f
           E == DOMAIN g
           Bad == {T \in SUBSET D : SumFunctionOnSet(f, T) # SumFunctionOnSet(f, T \cap E)}
<1>1. IsFiniteSet(D) /\ \A x \in D : f[x] \in Nat
  BY DEF Summable
<1>2. Bad = {}
  <2> SUFFICES ASSUME Bad # {} PROVE FALSE
    OBVIOUS
  <2>0. Bad \in SUBSET (SUBSET D)
    OBVIOUS
  <2> HIDE DEF Bad
  <2>1. PICK T \in Bad : \A U \in SUBSET T : U # T => U \notin Bad
    BY <1>1, <2>0, MinimalSet
  <2> USE DEF Bad
  <2>2. IsFiniteSet(T) /\ \A x \in T : f[x] \in Nat
    BY <1>1, <2>1, FS_Subset
  <2>3. PICK x \in T : x \notin E
    <3>1. T \subseteq E => T \cap E = T
      OBVIOUS
    <3> QED
      BY <2>1, <3>1
  <2>4. SumFunctionOnSet(f, T) = f[x] + SumFunctionOnSet(f, T \ {x})
    BY <2>2, SumTakes
  <2>5. T \ {x} \notin Bad
    BY <2>1
  <2>6. SumFunctionOnSet(f, T \ {x}) = SumFunctionOnSet(f, (T \ {x}) \cap E)
    BY <2>1, <2>5
  <2>7. (T \ {x}) \cap E = T \cap E
    BY <2>3
  <2>8. f[x] = 0
    BY <2>1, <2>3
  <2>9. SumFunctionOnSet(f, T \ {x}) \in Nat
    <3>1. IsFiniteSet(T \ {x})
      BY <2>2, FS_Subset
    <3> QED
      BY <2>2, <3>1, SumTakes
  <2>10. SumFunctionOnSet(f, T) = SumFunctionOnSet(f, T \ {x})
    BY <2>4, <2>8, <2>9
  <2> QED
    BY <2>1, <2>6, <2>7, <2>10
<1>3. SumFunctionOnSet(f, D) = SumFunctionOnSet(f, E)
  <2>1. D \cap E = E
    OBVIOUS
  <2> QED
    BY <1>2, <2>1
<1>4. SumFunctionOnSet(g, E) = SumFunctionOnSet(f, E)
  <2>1. IsFiniteSet(E) /\ \A x \in E : f[x] \in Nat /\ g[x] = f[x]
    BY <1>1, FS_Subset
  <2> QED
    BY <2>1, SumsAgree
<1> QED
  BY <1>3, <1>4 DEF SumFunction
=============================================================================

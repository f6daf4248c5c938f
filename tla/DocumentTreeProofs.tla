------------------------- MODULE DocumentTreeProofs -------------------------
(***************************************************************************)
(* What is known of any tree of DocumentTree, and of the sums over its     *)
(* nodes: which nodes a subtree has, how a tree grows and is pruned, and   *)
(* that domains and removal modes depend on little of it.  The proofs of   *)
(* RequestGuards and of Document cite these lemmas.                        *)
(***************************************************************************)
EXTENDS DocumentTree, Functions, FiniteSetTheorems, WellFoundedInduction, TLAPS
-----------------------------------------------------------------------------
(* Induction over the numbers, with a set in the place of a predicate.     *)

\* A set that has every number whose predecessors it has, has them all.
LEMMA NumbersByDescent ==
    ASSUME NEW T \in SUBSET Nat,
           \A n \in Nat : (\A m \in Nat : m < n => m \in T) => n \in T
    PROVE  T = Nat
<1>. SUFFICES ASSUME Nat \ T # {} PROVE FALSE
    OBVIOUS
<1>. DEFINE R == OpToRel(<, Nat)
<1>1. IsWellFoundedOn(R, Nat)
    BY NatLessThanWellFounded
<1>2. PICK n \in Nat \ T : \A m \in Nat \ T : <<m, n>> \notin R
    <2>1. Nat \ T \in SUBSET Nat
        OBVIOUS
    <2>. HIDE DEF R
    <2>. QED  BY <1>1, <2>1, WFMin
<1>3. ASSUME NEW m \in Nat, m < n PROVE m \in T
    BY <1>2, <1>3 DEF OpToRel
<1>. QED  BY <1>2, <1>3

\* F[m][h], what the function h is to be at m, depends on h where the measure is smaller.
LooksBelow(D, V, N, mu, F) ==
    /\ V # {} /\ N \in Nat /\ mu \in [D -> 0 .. N]
    /\ F \in [D -> [[D -> V] -> V]]
    /\ \A m \in D : \A g, h \in [D -> V] :
          (\A c \in D : mu[c] < mu[m] => g[c] = h[c]) => F[m][g] = F[m][h]

\* A function may be defined by recursion down a bounded measure.
LEMMA RecursionByMeasure ==
    ASSUME NEW D, NEW V, NEW N, NEW mu, NEW F, LooksBelow(D, V, N, mu, F)
    PROVE  \E h \in [D -> V] : \A m \in D : h[m] = F[m][h]
<1>. DEFINE Upto(k) == \E h \in [D -> V] : \A m \in D : mu[m] < k => h[m] = F[m][h]
            T == {k \in Nat : Upto(k)}
<1>1. ASSUME NEW m \in D, NEW h \in [D -> V] PROVE F[m][h] \in V
    BY DEF LooksBelow
<1>2. N \in Nat /\ \A m \in D : mu[m] \in Nat /\ mu[m] < N + 1
    BY DEF LooksBelow
<1>3. ASSUME NEW k \in Nat, \A j \in Nat : j < k => j \in T PROVE k \in T
    <2>1. CASE k = 0
        <3>1. PICK v : v \in V
            BY DEF LooksBelow
        <3>2. [m \in D |-> v] \in [D -> V]
            BY <3>1
        <3>3. \A m \in D : ~ mu[m] < k
            BY <1>2, <2>1
        <3>. QED  BY <3>2, <3>3
    <2>2. CASE k # 0
        <3>1. PICK j \in Nat : j < k /\ k = j + 1
            BY ONLY k \in Nat, k # 0, k - 1 \in Nat, k - 1 < k, k = (k - 1) + 1
        <3>2. j \in T
            BY <1>3, <3>1
        <3>3. PICK h \in [D -> V] : \A m \in D : mu[m] < j => h[m] = F[m][h]
            BY <3>2
        <3>. DEFINE g == [m \in D |-> IF mu[m] < j THEN h[m] ELSE F[m][h]]
        <3>4. g \in [D -> V] /\ \A m \in D : g[m] = IF mu[m] < j THEN h[m] ELSE F[m][h]
            <4>1. \A m \in D : h[m] \in V /\ F[m][h] \in V
                BY <1>1
            <4>. QED  BY <4>1
        <3>. HIDE DEF g
        <3>5. ASSUME NEW m \in D, mu[m] < k PROVE g[m] = F[m][g]
            <4>1. g[m] = F[m][h]
                BY <3>3, <3>4
            <4>2. ASSUME NEW c \in D, mu[c] < mu[m] PROVE g[c] = h[c]
                <5>1. mu[c] < j
                    BY <1>2, <3>1, <3>5, <4>2
                <5>. QED  BY <3>4, <5>1
            <4>3. F[m][g] = F[m][h]
                BY <3>4, <4>2 DEF LooksBelow
            <4>. QED  BY <4>1, <4>3
        <3>. QED  BY <3>4, <3>5
    <2>. QED  BY <2>1, <2>2
<1>4. T = Nat
    <2>. HIDE DEF Upto
    <2>1. T \in SUBSET Nat
        OBVIOUS
    <2>. HIDE DEF T
    <2>. QED  BY <1>3, <2>1, NumbersByDescent
<1>5. Upto(N + 1)
    <2>. HIDE DEF Upto
    <2>1. N + 1 \in Nat
        BY <1>2
    <2>. QED  BY <1>4, <2>1
<1>. QED  BY <1>2, <1>5

-----------------------------------------------------------------------------
(* Sums over finite sets: SumFunctionOnSet adds the elements in some order. *)

\* The element a fold takes next.
AnyOf(S) == CHOOSE x \in S : TRUE

\* What holds of a subset when it holds of the smaller ones holds of the set.
LEMMA SubsetsByDescent ==
    ASSUME NEW S, IsFiniteSet(S), NEW T,
           \A s \in SUBSET S : (\A t \in SUBSET s : t # s => t \in T) => s \in T
    PROVE  S \in T
<1>. DEFINE N == {n \in Nat : \A s \in SUBSET S : Cardinality(s) = n => s \in T}
<1>1. ASSUME NEW n \in Nat, \A m \in Nat : m < n => m \in N PROVE n \in N
    <2>. SUFFICES ASSUME NEW s \in SUBSET S, Cardinality(s) = n PROVE s \in T
        OBVIOUS
    <2>1. ASSUME NEW t \in SUBSET s, t # s PROVE t \in T
        <3>1. IsFiniteSet(s) /\ t \in SUBSET S
            BY FS_Subset
        <3>2. IsFiniteSet(t) /\ Cardinality(t) \in Nat /\ Cardinality(t) < n
            BY <2>1, <3>1, FS_Subset, FS_CardinalityType
        <3>. QED  BY <1>1, <3>1, <3>2
    <2>. QED  BY <2>1
<1>2. N = Nat
    <2>1. N \in SUBSET Nat
        OBVIOUS
    <2>. HIDE DEF N
    <2>. QED  BY <1>1, <2>1, NumbersByDescent
<1>3. Cardinality(S) \in N
    BY <1>2, FS_CardinalityType
<1>. QED  BY <1>3

\* A sum is one element and the sum of the others.
LEMMA SumUnfolds ==
    ASSUME NEW f, NEW S, IsFiniteSet(S)
    PROVE  SumFunctionOnSet(f, S) =
               IF S = {} THEN 0
               ELSE f[AnyOf(S)] + SumFunctionOnSet(f, S \ {AnyOf(S)})
<1>. DEFINE Sum(s) == SumFunctionOnSet(f, s)
            Step(g, s) == IF s = {} THEN 0 ELSE f[AnyOf(s)] + g[s \ {AnyOf(s)}]
            Iter(s) == CHOOSE g : g = [t \in SUBSET s |-> Step(g, t)]
            Unfolds(s) == Sum(s) = IF s = {} THEN 0 ELSE f[AnyOf(s)] + Sum(s \ {AnyOf(s)})
            T == {s \in SUBSET S : Unfolds(s)}
<1>1. ASSUME NEW s PROVE Sum(s) = Iter(s)[s]
    BY DEF SumFunctionOnSet, FoldFunctionOnSet, MapThenFoldSet, AnyOf
<1>2. \A s : s # {} => AnyOf(s) \in s /\ s \ {AnyOf(s)} # s
    BY DEF AnyOf
<1>. HIDE DEF Sum
<1>3. ASSUME NEW s \in SUBSET S, \A t \in SUBSET s : t # s => t \in T PROVE s \in T
    <2>1. \A t \in SUBSET s : t # s => Unfolds(t)
        BY <1>3
    <2>. DEFINE h == [t \in SUBSET s |->
                        IF t # s THEN Sum(t)
                        ELSE IF s = {} THEN 0 ELSE f[AnyOf(s)] + Sum(s \ {AnyOf(s)})]
                g == Iter(s)
    <2>2. h = [t \in SUBSET s |-> Step(h, t)]
        <3>1. ASSUME NEW t \in SUBSET s PROVE h[t] = Step(h, t)
            <4>1. t # {} => /\ t \ {AnyOf(t)} \in SUBSET s /\ t \ {AnyOf(t)} # s
                            /\ h[t \ {AnyOf(t)}] = Sum(t \ {AnyOf(t)})
                BY <1>2
            <4>2. h[t] = IF t = {} THEN 0 ELSE f[AnyOf(t)] + Sum(t \ {AnyOf(t)})
                <5>1. CASE t # s
                    <6>1. h[t] = Sum(t)
                        BY <5>1
                    <6>2. Unfolds(t)
                        BY ONLY <2>1, <5>1, t \in SUBSET s
                    <6>. HIDE DEF h
                    <6>. QED  BY <6>1, <6>2
                <5>2. CASE t = s
                    BY <5>2
                <5>. QED  BY <5>1, <5>2
            <4>. HIDE DEF h
            <4>. QED  BY <4>1, <4>2
        <3>2. h = [t \in SUBSET s |-> h[t]]
            OBVIOUS
        <3>. HIDE DEF h, Step
        <3>. QED  BY <3>1, <3>2
    <2>3. g = [t \in SUBSET s |-> Step(g, t)]
        <3>. HIDE DEF h, Step
        <3>. QED  BY <2>2
    <2>. HIDE DEF g
    <2>4. \A t \in SUBSET s : g[t] = Step(g, t)
        <3>. HIDE DEF Step
        <3>. QED  BY <2>3
    <2>5. ASSUME NEW u \in SUBSET s, u # s PROVE g[u] = Sum(u)
        <3>. DEFINE V == {t \in SUBSET u : g[t] = Sum(t)}
        <3>1. ASSUME NEW t \in SUBSET u, \A v \in SUBSET t : v # t => v \in V PROVE t \in V
            <4>1. t \in SUBSET s /\ t # s
                BY <2>5
            <4>2. Unfolds(t) /\ g[t] = Step(g, t)
                BY <2>1, <2>4, <4>1
            <4>3. t # {} => g[t \ {AnyOf(t)}] = Sum(t \ {AnyOf(t)})
                BY <1>2, <3>1
            <4>. QED  BY <4>2, <4>3
        <3>2. IsFiniteSet(u)
            BY FS_Subset
        <3>3. u \in V
            <4>. HIDE DEF V
            <4>. QED  BY <3>1, <3>2, SubsetsByDescent
        <3>. QED  BY <3>3
    <2>6. g[s] = Sum(s)
        BY <1>1 DEF g
    <2>7. s # {} => g[s \ {AnyOf(s)}] = Sum(s \ {AnyOf(s)})
        BY <1>2, <2>5
    <2>8. Unfolds(s)
        BY <2>4, <2>6, <2>7
    <2>. QED  BY <2>8
<1>4. S \in T
    <2>. HIDE DEF T
    <2>. QED  BY <1>3, SubsetsByDescent
<1>5. Unfolds(S)
    <2>. HIDE DEF Unfolds
    <2>. QED  BY <1>4
<1>. QED  BY <1>5 DEF Sum

\* A sum of natural numbers is one.
LEMMA SumIsNat ==
    ASSUME NEW S, IsFiniteSet(S), NEW f, \A x \in S : f[x] \in Nat
    PROVE  SumFunctionOnSet(f, S) \in Nat
<1>. DEFINE T == {s \in SUBSET S : SumFunctionOnSet(f, s) \in Nat}
<1>1. ASSUME NEW s \in SUBSET S, \A t \in SUBSET s : t # s => t \in T PROVE s \in T
    <2>1. IsFiniteSet(s)
        BY FS_Subset
    <2>2. s # {} => AnyOf(s) \in s /\ SumFunctionOnSet(f, s \ {AnyOf(s)}) \in Nat
        BY <1>1 DEF AnyOf
    <2>3. s # {} => f[AnyOf(s)] \in Nat
        BY <2>2
    <2>. QED  BY <2>1, <2>2, <2>3, SumUnfolds
<1>2. S \in T
    <2>. HIDE DEF T
    <2>. QED  BY <1>1, SubsetsByDescent
<1>. QED  BY <1>2

\* Functions that are the same on a set have the same sum.
LEMMA SumSame ==
    ASSUME NEW S, IsFiniteSet(S), NEW f, NEW g, \A x \in S : f[x] = g[x]
    PROVE  SumFunctionOnSet(f, S) = SumFunctionOnSet(g, S)
<1>. DEFINE T == {s \in SUBSET S : SumFunctionOnSet(f, s) = SumFunctionOnSet(g, s)}
<1>1. ASSUME NEW s \in SUBSET S, \A t \in SUBSET s : t # s => t \in T PROVE s \in T
    <2>1. IsFiniteSet(s)
        BY FS_Subset
    <2>2. s # {} => /\ AnyOf(s) \in s /\ f[AnyOf(s)] = g[AnyOf(s)]
                    /\ SumFunctionOnSet(f, s \ {AnyOf(s)}) = SumFunctionOnSet(g, s \ {AnyOf(s)})
        BY <1>1 DEF AnyOf
    <2>. QED  BY <2>1, <2>2, SumUnfolds
<1>2. S \in T
    <2>. HIDE DEF T
    <2>. QED  BY <1>1, SubsetsByDescent
<1>. QED  BY <1>2

\* The element taken out of a sum may be any one.
LEMMA SumTakesOut ==
    ASSUME NEW S, IsFiniteSet(S), NEW f, \A x \in S : f[x] \in Nat, NEW x \in S
    PROVE  SumFunctionOnSet(f, S) = f[x] + SumFunctionOnSet(f, S \ {x})
<1>. DEFINE Sum(s) == SumFunctionOnSet(f, s)
            T == {s \in SUBSET S : \A y \in s : Sum(s) = f[y] + Sum(s \ {y})}
<1>1. ASSUME NEW s \in SUBSET S PROVE IsFiniteSet(s) /\ Sum(s) \in Nat
    BY FS_Subset, SumIsNat
<1>2. ASSUME NEW s \in SUBSET S, s # {}
      PROVE  AnyOf(s) \in s /\ Sum(s) = f[AnyOf(s)] + Sum(s \ {AnyOf(s)})
    BY <1>1, <1>2, SumUnfolds DEF AnyOf
<1>. HIDE DEF Sum
<1>3. ASSUME NEW s \in SUBSET S, \A t \in SUBSET s : t # s => t \in T PROVE s \in T
    <2>. SUFFICES ASSUME NEW y \in s PROVE Sum(s) = f[y] + Sum(s \ {y})
        OBVIOUS
    <2>. DEFINE z == AnyOf(s)
    <2>1. z \in s /\ Sum(s) = f[z] + Sum(s \ {z})
        BY <1>2
    <2>2. CASE y = z
        BY <2>1, <2>2
    <2>3. CASE y # z
        <3>1. /\ s \ {y} \in T /\ z \in s \ {y}
              /\ s \ {z} \in T /\ y \in s \ {z}
            <4>. HIDE DEF T, z
            <4>. QED  BY <1>3, <2>1, <2>3
        <3>2. /\ Sum(s \ {y}) = f[z] + Sum((s \ {y}) \ {z})
              /\ Sum(s \ {z}) = f[y] + Sum((s \ {z}) \ {y})
            <4>. HIDE DEF z
            <4>. QED  BY <3>1
        <3>3. Sum((s \ {y}) \ {z}) = Sum((s \ {z}) \ {y})
            <4>1. (s \ {y}) \ {z} = (s \ {z}) \ {y}
                OBVIOUS
            <4>. QED  BY <4>1
        <3>4. f[y] \in Nat /\ f[z] \in Nat /\ Sum((s \ {z}) \ {y}) \in Nat
            <4>. HIDE DEF z
            <4>. QED  BY <1>1, <2>1
        <3>5. \A a, b, c \in Nat : a + (b + c) = b + (a + c)
            OBVIOUS
        <3>6. f[z] + (f[y] + Sum((s \ {z}) \ {y})) = f[y] + (f[z] + Sum((s \ {z}) \ {y}))
            BY ONLY <3>4, <3>5
        <3>. QED  BY ONLY <2>1, <3>2, <3>3, <3>6
    <2>. QED  BY <2>2, <2>3
<1>4. S \in T
    <2>. HIDE DEF T
    <2>. QED  BY <1>3, SubsetsByDescent
<1>. QED  BY <1>4 DEF Sum

\* A sum is the sum over a part and the sum over the rest.
LEMMA SumSplits ==
    ASSUME NEW S, IsFiniteSet(S), NEW f, \A x \in S : f[x] \in Nat, NEW D \in SUBSET S
    PROVE  SumFunctionOnSet(f, S) = SumFunctionOnSet(f, D) + SumFunctionOnSet(f, S \ D)
<1>. DEFINE Sum(s) == SumFunctionOnSet(f, s)
            T == {d \in SUBSET D : Sum(S) = Sum(d) + Sum(S \ d)}
<1>1. ASSUME NEW s \in SUBSET S
      PROVE  IsFiniteSet(s) /\ Sum(s) \in Nat /\ \A y \in s : Sum(s) = f[y] + Sum(s \ {y})
    BY FS_Subset, SumIsNat, SumTakesOut
<1>2. Sum({}) = 0
    BY SumUnfolds, FS_EmptySet
<1>. HIDE DEF Sum
<1>3. ASSUME NEW d \in SUBSET D, \A t \in SUBSET d : t # d => t \in T PROVE d \in T
    <2>1. CASE d = {}
        <3>1. Sum(S) \in Nat /\ S \ d = S
            BY <1>1, <2>1
        <3>. QED  BY <1>2, <2>1, <3>1
    <2>2. CASE d # {}
        <3>1. PICK y : y \in d
            BY <2>2
        <3>2. Sum(S) = Sum(d \ {y}) + Sum(S \ (d \ {y}))
            BY <1>3, <3>1
        <3>3. Sum(d) = f[y] + Sum(d \ {y})
            BY <1>1, <3>1
        <3>4. (S \ (d \ {y})) \ {y} = S \ d /\ y \in S \ (d \ {y})
            BY <3>1
        <3>5. Sum(S \ (d \ {y})) = f[y] + Sum(S \ d)
            BY <1>1, <3>4
        <3>6. f[y] \in Nat /\ Sum(d \ {y}) \in Nat /\ Sum(S \ d) \in Nat
            BY <1>1, <3>1
        <3>. QED  BY <3>2, <3>3, <3>5, <3>6
    <2>. QED  BY <2>1, <2>2
<1>4. D \in T
    <2>1. IsFiniteSet(D)
        BY FS_Subset
    <2>. HIDE DEF T
    <2>. QED  BY <1>3, <2>1, SubsetsByDescent
<1>. QED  BY <1>4 DEF Sum

-----------------------------------------------------------------------------
(* Subtrees.                                                               *)

\* A subtree has its root and the children of its members, and nothing else.
LEMMA SubtreeIs ==
    ASSUME NEW p, NEW n \in DOMAIN p
    PROVE  /\ n \in Subtree(p, n) /\ Subtree(p, n) \subseteq DOMAIN p
           /\ \A c \in DOMAIN p : p[c] \in Subtree(p, n) => c \in Subtree(p, n)
           /\ \A S \in SUBSET DOMAIN p :
                 n \in S /\ (\A c \in DOMAIN p : p[c] \in S => c \in S)
                    => Subtree(p, n) \subseteq S
<1>1. n \in Subtree(p, n) /\ Subtree(p, n) \subseteq DOMAIN p
    BY DEF Subtree
<1>2. ASSUME NEW S \in SUBSET DOMAIN p, n \in S, \A c \in DOMAIN p : p[c] \in S => c \in S
      PROVE  Subtree(p, n) \subseteq S
    BY <1>2 DEF Subtree
<1>3. ASSUME NEW c \in DOMAIN p, p[c] \in Subtree(p, n) PROVE c \in Subtree(p, n)
    <2>. SUFFICES ASSUME NEW S \in SUBSET DOMAIN p, n \in S,
                         \A d \in DOMAIN p : p[d] \in S => d \in S
                  PROVE  c \in S
        BY DEF Subtree
    <2>1. p[c] \in S
        BY <1>2, <1>3
    <2>. QED  BY <2>1
<1>. QED  BY <1>1, <1>2, <1>3

\* Every member but the root of a subtree has its parent there.
LEMMA SubtreeParents ==
    ASSUME NEW p, NEW n \in DOMAIN p, NEW m \in Subtree(p, n), m # n
    PROVE  p[m] \in Subtree(p, n)
<1>. DEFINE S == {c \in Subtree(p, n) : c = n \/ p[c] \in Subtree(p, n)}
<1>1. S \in SUBSET DOMAIN p /\ n \in S
    BY SubtreeIs
<1>2. \A c \in DOMAIN p : p[c] \in S => c \in S
    BY SubtreeIs
<1>3. Subtree(p, n) \subseteq S
    <2>. HIDE DEF S
    <2>. QED  BY <1>1, <1>2, SubtreeIs
<1>. QED  BY <1>3

\* A node without children is its subtree.
LEMMA SubtreeOfLeaf ==
    ASSUME NEW p, NEW n \in DOMAIN p, Children(p, n) = {}
    PROVE  Subtree(p, n) = {n}
<1>1. {n} \in SUBSET DOMAIN p /\ \A c \in DOMAIN p : p[c] \in {n} => c \in {n}
    BY DEF Children
<1>. QED  BY <1>1, SubtreeIs

\* A tree that has the same nodes below n has the same subtree of n.
LEMMA SubtreeSame ==
    ASSUME NEW p, NEW q, NEW n \in DOMAIN p,
           \A m \in Subtree(p, n) : m \in DOMAIN q /\ q[m] = p[m],
           \A c \in DOMAIN q : q[c] \in Subtree(p, n) => c \in DOMAIN p /\ p[c] = q[c]
    PROVE  Subtree(q, n) = Subtree(p, n)
<1>1. n \in DOMAIN q
    BY SubtreeIs
<1>2. Subtree(q, n) \subseteq Subtree(p, n)
    <2>1. Subtree(p, n) \in SUBSET DOMAIN q /\ n \in Subtree(p, n)
        BY SubtreeIs
    <2>2. \A c \in DOMAIN q : q[c] \in Subtree(p, n) => c \in Subtree(p, n)
        BY SubtreeIs
    <2>. QED  BY <1>1, <2>1, <2>2, SubtreeIs
<1>3. Subtree(p, n) \subseteq Subtree(q, n)
    <2>. DEFINE S == Subtree(p, n) \cap Subtree(q, n)
    <2>1. S \in SUBSET DOMAIN p /\ n \in S
        BY <1>1, SubtreeIs
    <2>2. ASSUME NEW c \in DOMAIN p, p[c] \in S PROVE c \in S
        <3>1. c \in Subtree(p, n)
            BY <2>2, SubtreeIs
        <3>2. c \in DOMAIN q /\ q[c] \in Subtree(q, n)
            BY <2>2, <3>1
        <3>. QED  BY <1>1, <3>1, <3>2, SubtreeIs
    <2>3. Subtree(p, n) \subseteq S
        <3>. HIDE DEF S
        <3>. QED  BY <2>1, <2>2, SubtreeIs
    <2>. QED  BY <2>3
<1>. QED  BY <1>2, <1>3

-----------------------------------------------------------------------------
(* Trees, and the domains in them.                                         *)

\* The live nodes are the root and children of live nodes with smaller ids.
IsTree(p) ==
    /\ \E N \in Nat : DOMAIN p \subseteq 1 .. N
    /\ RootId \in DOMAIN p /\ p[RootId] = NoNode
    /\ \A n \in DOMAIN p \ {RootId} : p[n] \in DOMAIN p /\ p[n] < n

\* The root is below nothing else.
LEMMA RootNotBelow ==
    ASSUME NEW p, IsTree(p), NEW n \in DOMAIN p, n # RootId
    PROVE  RootId \notin Subtree(p, n)
<1>1. NoNode \notin DOMAIN p
    BY DEF IsTree, NoNode
<1>2. Subtree(p, n) \subseteq DOMAIN p
    BY SubtreeIs
<1>. QED  BY <1>1, <1>2, SubtreeParents DEF IsTree

\* A subtree holds no id smaller than its root's.
LEMMA SubtreeIsYounger ==
    ASSUME NEW p, IsTree(p), NEW n \in DOMAIN p
    PROVE  \A m \in Subtree(p, n) : m >= n
<1>. DEFINE S == {m \in DOMAIN p : m >= n}
<1>1. n \in S /\ S \in SUBSET DOMAIN p /\ DOMAIN p \subseteq Nat /\ NoNode \notin DOMAIN p
    BY DEF IsTree, NoNode
<1>2. ASSUME NEW c \in DOMAIN p, p[c] \in S PROVE c \in S
    <2>1. p[c] \in DOMAIN p /\ p[c] >= n /\ p[c] < c
        BY <1>1, <1>2 DEF IsTree
    <2>2. p[c] \in Nat /\ c \in Nat /\ n \in Nat
        BY <1>1, <2>1
    <2>. QED  BY <2>1, <2>2
<1>3. Subtree(p, n) \subseteq S
    <2>. HIDE DEF S
    <2>. QED  BY <1>1, <1>2, SubtreeIs
<1>. QED  BY <1>3

\* Every node is below the root.
LEMMA AllBelowRoot ==
    ASSUME NEW p, IsTree(p)
    PROVE  Subtree(p, RootId) = DOMAIN p
<1>. DEFINE In(n) == n \in DOMAIN p => n \in Subtree(p, RootId)
            T == {n \in Nat : In(n)}
<1>1. /\ DOMAIN p \subseteq Nat /\ RootId \in DOMAIN p
      /\ \A n \in DOMAIN p \ {RootId} : p[n] \in DOMAIN p /\ p[n] < n
    BY DEF IsTree
<1>2. ASSUME NEW n \in Nat, \A m \in Nat : m < n => m \in T PROVE n \in T
    <2>. SUFFICES ASSUME n \in DOMAIN p PROVE n \in Subtree(p, RootId)
        OBVIOUS
    <2>1. CASE n = RootId
        BY <1>1, <2>1, SubtreeIs
    <2>2. CASE n # RootId
        <3>1. p[n] \in Nat /\ p[n] < n /\ p[n] \in DOMAIN p
            BY <1>1, <2>2
        <3>2. p[n] \in Subtree(p, RootId)
            BY <1>2, <3>1
        <3>. QED  BY <1>1, <3>2, SubtreeIs
    <2>. QED  BY <2>1, <2>2
<1>3. T = Nat
    <2>. HIDE DEF In
    <2>1. T \in SUBSET Nat
        OBVIOUS
    <2>. HIDE DEF T
    <2>. QED  BY <1>2, <2>1, NumbersByDescent
<1>4. \A n \in Nat : In(n)
    <2>. HIDE DEF In
    <2>. QED  BY <1>3
<1>. QED  BY <1>1, <1>4, SubtreeIs

\* A subtree is its root and the subtrees of the root's children, which share nothing.
LEMMA SubtreeSplits ==
    ASSUME NEW p, IsTree(p), NEW n \in DOMAIN p
    PROVE  /\ Subtree(p, n) = {n} \cup UNION {Subtree(p, c) : c \in Children(p, n)}
           /\ \A c \in Children(p, n) : c \in DOMAIN p /\ n \notin Subtree(p, c)
           /\ \A c, d \in Children(p, n) : c # d => Subtree(p, c) \cap Subtree(p, d) = {}
<1>. DEFINE U == {n} \cup UNION {Subtree(p, c) : c \in Children(p, n)}
<1>1. /\ DOMAIN p \subseteq Nat /\ NoNode \notin DOMAIN p
      /\ \A m \in DOMAIN p \ {RootId} : p[m] \in DOMAIN p /\ p[m] < m
      /\ \A c \in Children(p, n) : c \in DOMAIN p /\ p[c] = n /\ c # RootId
    BY DEF IsTree, NoNode, Children
<1>2. Subtree(p, n) \subseteq U
    <2>1. n \in U /\ U \in SUBSET DOMAIN p
        BY <1>1, SubtreeIs
    <2>2. ASSUME NEW c \in DOMAIN p, p[c] \in U PROVE c \in U
        <3>1. CASE p[c] = n
            <4>1. c \in Children(p, n)
                BY <3>1 DEF Children
            <4>. QED  BY <4>1, SubtreeIs
        <3>2. CASE p[c] # n
            <4>1. PICK d \in Children(p, n) : p[c] \in Subtree(p, d)
                BY <2>2, <3>2
            <4>2. c \in Subtree(p, d)
                BY <1>1, <4>1, SubtreeIs
            <4>. QED  BY <4>2
        <3>. QED  BY <3>1, <3>2
    <2>. HIDE DEF U
    <2>. QED  BY <2>1, <2>2, SubtreeIs
<1>3. ASSUME NEW c \in Children(p, n) PROVE Subtree(p, c) \subseteq Subtree(p, n)
    <2>1. c \in DOMAIN p /\ c \in Subtree(p, n) /\ Subtree(p, n) \in SUBSET DOMAIN p
        BY <1>1, <1>3, SubtreeIs
    <2>2. \A d \in DOMAIN p : p[d] \in Subtree(p, n) => d \in Subtree(p, n)
        BY SubtreeIs
    <2>. QED  BY <2>1, <2>2, SubtreeIs
<1>4. ASSUME NEW c \in Children(p, n) PROVE n \notin Subtree(p, c)
    <2>1. n \in Nat /\ c \in Nat /\ n < c
        BY <1>1
    <2>2. \A m \in Subtree(p, c) : m >= c
        BY <1>1, SubtreeIsYounger
    <2>. QED  BY <2>1, <2>2
<1>5. ASSUME NEW c \in Children(p, n), NEW d \in Children(p, n), c # d
      PROVE  Subtree(p, c) \cap Subtree(p, d) = {}
    <2>. DEFINE S == {m \in Subtree(p, c) : m \notin Subtree(p, d)}
    <2>1. c \in S
        <3>1. p[c] \notin Subtree(p, d)
            BY <1>1, <1>4
        <3>2. c \notin Subtree(p, d)
            BY <1>1, <1>5, <3>1, SubtreeParents
        <3>. QED  BY <1>1, <3>2, SubtreeIs
    <2>2. ASSUME NEW m \in DOMAIN p, p[m] \in S PROVE m \in S
        <3>1. m \in Subtree(p, c)
            BY <1>1, <2>2, SubtreeIs
        <3>2. m # d
            BY <1>1, <1>4, <2>2
        <3>3. m \notin Subtree(p, d)
            BY <1>1, <2>2, <3>2, SubtreeParents
        <3>. QED  BY <3>1, <3>3
    <2>3. S \in SUBSET DOMAIN p
        BY <1>1, SubtreeIs
    <2>4. Subtree(p, c) \subseteq S
        <3>. HIDE DEF S
        <3>. QED  BY <1>1, <2>1, <2>2, <2>3, SubtreeIs
    <2>. QED  BY <2>4
<1>6. U \subseteq Subtree(p, n)
    BY <1>3, SubtreeIs
<1>. QED  BY <1>1, <1>2, <1>4, <1>5, <1>6

\* A tree to which a leaf with a new id is added is a tree.
LEMMA GrownTree ==
    ASSUME NEW p, IsTree(p), NEW c \in Nat, \A m \in DOMAIN p : m < c,
           NEW q, DOMAIN q = DOMAIN p \cup {c}, q[c] \in DOMAIN p,
           \A m \in DOMAIN p : q[m] = p[m]
    PROVE  IsTree(q)
<1>1. DOMAIN q \subseteq 1 .. c
    <2>1. \A m \in DOMAIN p : m \in 1 .. c
        BY DEF IsTree
    <2>2. c \in 1 .. c
        BY <2>1
    <2>. QED  BY <2>1, <2>2
<1>2. RootId \in DOMAIN q /\ q[RootId] = NoNode
    BY DEF IsTree
<1>3. ASSUME NEW m \in DOMAIN q \ {RootId} PROVE q[m] \in DOMAIN q /\ q[m] < m
    BY <1>3 DEF IsTree
<1>. QED  BY <1>1, <1>2, <1>3 DEF IsTree

\* A tree without a subtree, which is not the root's, is a tree.
LEMMA PrunedTree ==
    ASSUME NEW p, IsTree(p), NEW n \in DOMAIN p \ {RootId},
           NEW q, DOMAIN q = DOMAIN p \ Subtree(p, n), \A m \in DOMAIN q : q[m] = p[m]
    PROVE  IsTree(q)
<1>1. PICK N \in Nat : DOMAIN p \subseteq 1 .. N
    BY DEF IsTree
<1>2. DOMAIN q \subseteq 1 .. N
    BY <1>1
<1>3. RootId \in DOMAIN q /\ q[RootId] = NoNode
    BY RootNotBelow DEF IsTree
<1>4. ASSUME NEW m \in DOMAIN q \ {RootId} PROVE q[m] \in DOMAIN q /\ q[m] < m
    <2>1. p[m] \notin Subtree(p, n)
        BY SubtreeIs
    <2>. QED  BY <2>1 DEF IsTree
<1>. QED  BY <1>1, <1>2, <1>3, <1>4 DEF IsTree

\* The nodes of a tree can be counted.
LEMMA TreeIsFinite == ASSUME NEW p, IsTree(p) PROVE IsFiniteSet(DOMAIN p)
<1>1. PICK N \in Nat : DOMAIN p \subseteq 1 .. N
    BY DEF IsTree
<1>2. IsFiniteSet(1 .. N)
    BY FS_Interval
<1>. QED  BY <1>1, <1>2, FS_Subset

\* One step of the walk that finds the domain of a node.
LEMMA DomainRootIs ==
    ASSUME NEW p, NEW k, IsTree(p), NEW n \in DOMAIN p \ {RootId}
    PROVE  /\ StartsDomains(k, p[n]) => DomainRoot(p, k, n) = n
           /\ ~ StartsDomains(k, p[n]) =>
                 p[n] # RootId /\ DomainRoot(p, k, n) = DomainRoot(p, k, p[n])
<1>. DEFINE Step(f, m) == IF m = RootId \/ StartsDomains(k, p[m]) THEN m ELSE f[p[m]]
            Body(f) == [m \in DOMAIN p |-> Step(f, m)]
            walk == CHOOSE f : f = Body(f)
            Below(m) == {i \in DOMAIN p : i < m}
            Upto(m) == \E f : DOMAIN f = Below(m) /\ \A i \in Below(m) : f[i] = Step(f, i)
            T == {m \in Nat : Upto(m)}
<1>1. DOMAIN p \subseteq Nat \ {0} /\ \A i \in DOMAIN p \ {RootId} : p[i] \in DOMAIN p /\ p[i] < i
    BY DEF IsTree
<1>2. ASSUME NEW m \in Nat, \A i \in Nat : i < m => i \in T PROVE m \in T
    <2>1. CASE m = 0
        <3>1. Below(m) = {}
            BY <1>1, <2>1
        <3>. DEFINE g == [i \in {} |-> 0]
        <3>2. DOMAIN g = Below(m)
            BY <3>1
        <3>3. Upto(m)
            BY <3>1, <3>2
        <3>. QED  BY <3>3
    <2>2. CASE m # 0
        <3>1. m - 1 \in Nat /\ m - 1 < m
            BY <2>2
        <3>2. Upto(m - 1)
            <4>. HIDE DEF Upto
            <4>. QED  BY <1>2, <3>1
        <3>3. PICK f : DOMAIN f = Below(m - 1) /\ \A i \in Below(m - 1) : f[i] = Step(f, i)
            BY <3>2
        <3>. DEFINE g == [i \in Below(m) |-> IF i \in Below(m - 1) THEN f[i] ELSE Step(f, i)]
        <3>4. ASSUME NEW i \in Below(m) PROVE g[i] = Step(g, i)
            <4>1. g[i] = Step(f, i)
                <5>1. CASE i \in Below(m - 1)
                    BY <3>3, <5>1
                <5>2. CASE i \notin Below(m - 1)
                    BY <5>2
                <5>. QED  BY <5>1, <5>2
            <4>2. i # RootId => p[i] \in Below(m - 1) /\ p[i] \in Below(m)
                BY <1>1
            <4>3. i # RootId => g[p[i]] = f[p[i]]
                BY <4>2
            <4>. HIDE DEF g, Below
            <4>. QED  BY <4>1, <4>3
        <3>5. DOMAIN g = Below(m)
            OBVIOUS
        <3>. HIDE DEF g, Below, Step
        <3>6. Upto(m)
            BY <3>4, <3>5
        <3>. QED  BY <3>6
    <2>. QED  BY <2>1, <2>2
<1>3. T = Nat
    <2>. HIDE DEF Upto
    <2>1. T \in SUBSET Nat
        OBVIOUS
    <2>. HIDE DEF T
    <2>. QED  BY <1>2, <2>1, NumbersByDescent
<1>4. \E f : f = Body(f)
    <2>1. PICK N \in Nat : DOMAIN p \subseteq 1 .. N
        BY DEF IsTree
    <2>2. Below(N + 1) = DOMAIN p
        BY <2>1
    <2>3. Upto(N + 1)
        <3>. HIDE DEF Upto
        <3>1. N + 1 \in Nat
            BY <2>1
        <3>. QED  BY <1>3, <3>1
    <2>4. PICK f : DOMAIN f = Below(N + 1) /\ \A i \in Below(N + 1) : f[i] = Step(f, i)
        BY <2>3
    <2>. DEFINE g == [m \in DOMAIN p |-> f[m]]
    <2>5. g = Body(g)
        <3>1. \A i \in DOMAIN p : g[i] = Step(g, i)
            <4>1. \A i \in DOMAIN p : g[i] = f[i]
                OBVIOUS
            <4>2. \A i \in DOMAIN p : f[i] = Step(f, i)
                BY <2>2, <2>4
            <4>. HIDE DEF g
            <4>. QED  BY <1>1, <4>1, <4>2
        <3>2. g = [i \in DOMAIN p |-> g[i]]
            OBVIOUS
        <3>. HIDE DEF g, Step
        <3>. QED  BY <3>1, <3>2
    <2>. HIDE DEF g, Body
    <2>. QED  BY <2>5
<1>5. walk = Body(walk)
    <2>. HIDE DEF Body
    <2>. QED  BY <1>4
<1>6. \A m \in DOMAIN p : walk[m] = Step(walk, m)
    <2>. HIDE DEF walk, Step
    <2>. QED  BY <1>5
<1>7. \A m \in DOMAIN p \ {RootId} : DomainRoot(p, k, m) = walk[m]
    BY DEF DomainRoot, walk, Body, Step
<1>8. ~ StartsDomains(k, p[n]) => p[n] \in DOMAIN p \ {RootId}
    BY <1>1 DEF StartsDomains
<1>. HIDE DEF walk
<1>. QED  BY <1>6, <1>7, <1>8

\* The domain of a node is the node or an older one, and not the root.
LEMMA DomainRootIn ==
    ASSUME NEW p, NEW k, IsTree(p)
    PROVE  \A n \in DOMAIN p \ {RootId} :
               DomainRoot(p, k, n) \in DOMAIN p \ {RootId} /\ DomainRoot(p, k, n) <= n
<1>. DEFINE In(n) == n \in DOMAIN p \ {RootId} =>
                       DomainRoot(p, k, n) \in DOMAIN p \ {RootId} /\ DomainRoot(p, k, n) <= n
            T == {n \in Nat : In(n)}
<1>1. DOMAIN p \subseteq Nat /\ \A n \in DOMAIN p \ {RootId} : p[n] \in DOMAIN p /\ p[n] < n
    BY DEF IsTree
<1>2. ASSUME NEW n \in Nat, \A m \in Nat : m < n => m \in T PROVE n \in T
    <2>. SUFFICES ASSUME n \in DOMAIN p \ {RootId}
                  PROVE  DomainRoot(p, k, n) \in DOMAIN p \ {RootId} /\ DomainRoot(p, k, n) <= n
        OBVIOUS
    <2>1. CASE StartsDomains(k, p[n])
        BY <2>1, DomainRootIs
    <2>2. CASE ~ StartsDomains(k, p[n])
        <3>1. p[n] # RootId /\ DomainRoot(p, k, n) = DomainRoot(p, k, p[n])
            BY <2>2, DomainRootIs
        <3>2. p[n] \in Nat /\ p[n] < n /\ p[n] \in DOMAIN p
            BY <1>1
        <3>3. In(p[n])
            <4>. HIDE DEF In
            <4>. QED  BY <1>2, <3>2
        <3>4. DomainRoot(p, k, n) \in DOMAIN p \ {RootId} /\ DomainRoot(p, k, n) <= p[n]
            BY <3>1, <3>2, <3>3
        <3>. QED  BY <1>1, <3>2, <3>4
    <2>. QED  BY <2>1, <2>2
<1>3. T = Nat
    <2>. HIDE DEF In
    <2>1. T \in SUBSET Nat
        OBVIOUS
    <2>. HIDE DEF T
    <2>. QED  BY <1>2, <2>1, NumbersByDescent
<1>4. \A n \in Nat : In(n)
    <2>. HIDE DEF In
    <2>. QED  BY <1>3
<1>. QED  BY <1>1, <1>4

\* A node that is in two trees is in the same domain of both, if both agree on what they
\* share.
LEMMA DomainRootSame ==
    ASSUME NEW p, NEW k, NEW q, NEW h, IsTree(p), IsTree(q),
           \A n \in DOMAIN p \cap DOMAIN q : p[n] = q[n] /\ k[n] = h[n]
    PROVE  \A n \in (DOMAIN p \cap DOMAIN q) \ {RootId} :
               DomainRoot(q, h, n) = DomainRoot(p, k, n)
<1>. DEFINE Shared == (DOMAIN p \cap DOMAIN q) \ {RootId}
            Same(n) == n \in Shared => DomainRoot(q, h, n) = DomainRoot(p, k, n)
            T == {n \in Nat : Same(n)}
<1>1. /\ DOMAIN p \subseteq Nat
      /\ \A n \in Shared : p[n] \in DOMAIN p \cap DOMAIN q /\ p[n] < n /\ q[n] = p[n]
    BY DEF IsTree
<1>2. ASSUME NEW n \in Nat, \A m \in Nat : m < n => m \in T PROVE n \in T
    <2>. SUFFICES ASSUME n \in Shared
                  PROVE  DomainRoot(q, h, n) = DomainRoot(p, k, n)
        OBVIOUS
    <2>1. StartsDomains(k, p[n]) <=> StartsDomains(h, q[n])
        BY <1>1 DEF StartsDomains
    <2>2. CASE StartsDomains(k, p[n])
        BY <2>1, <2>2, DomainRootIs
    <2>3. CASE ~ StartsDomains(k, p[n])
        <3>1. p[n] # RootId /\ DomainRoot(p, k, n) = DomainRoot(p, k, p[n])
            BY <2>3, DomainRootIs
        <3>2. DomainRoot(q, h, n) = DomainRoot(q, h, q[n])
            BY <2>1, <2>3, DomainRootIs
        <3>3. p[n] \in Nat /\ p[n] < n /\ p[n] \in Shared /\ q[n] = p[n]
            BY <1>1, <3>1
        <3>4. Same(p[n])
            <4>. HIDE DEF Same
            <4>. QED  BY <1>2, <3>3
        <3>. QED  BY <3>1, <3>2, <3>3, <3>4
    <2>. QED  BY <2>2, <2>3
<1>3. T = Nat
    <2>. HIDE DEF Same
    <2>1. T \in SUBSET Nat
        OBVIOUS
    <2>. HIDE DEF T
    <2>. QED  BY <1>2, <2>1, NumbersByDescent
<1>4. \A n \in Nat : Same(n)
    <2>. HIDE DEF Same
    <2>. QED  BY <1>3
<1>. QED  BY <1>1, <1>4

\* Without a split container in it, a subtree is in the domain of its root.
LEMMA DomainOfSubtree ==
    ASSUME NEW p, NEW k, IsTree(p), NEW n \in DOMAIN p \ {RootId},
           ~ ContainsSplit(p, k, n)
    PROVE  \A m \in Subtree(p, n) : DomainRoot(p, k, m) = DomainRoot(p, k, n)
<1>. DEFINE S == {m \in Subtree(p, n) : DomainRoot(p, k, m) = DomainRoot(p, k, n)}
<1>1. S \in SUBSET DOMAIN p /\ n \in S
    BY SubtreeIs
<1>2. ASSUME NEW c \in DOMAIN p, p[c] \in S PROVE c \in S
    <2>1. c \in Subtree(p, n) /\ c # RootId
        BY <1>2, SubtreeIs, RootNotBelow
    <2>2. p[c] # RootId /\ k[p[c]] # "split"
        BY <1>2, RootNotBelow DEF ContainsSplit
    <2>3. DomainRoot(p, k, c) = DomainRoot(p, k, p[c])
        BY <2>1, <2>2, DomainRootIs DEF StartsDomains
    <2>. QED  BY <1>2, <2>1, <2>3
<1>3. Subtree(p, n) \subseteq S
    <2>. HIDE DEF S
    <2>. QED  BY <1>1, <1>2, SubtreeIs
<1>. QED  BY <1>3

\* What the mode of a removal says of the tree.
LEMMA RemoveModeSays ==
    ASSUME NEW p, NEW k, NEW n
    PROVE  /\ RemoveMode(p, k, n) \in DomainSafeModes \cup CoordinatorModes
              => n \in DOMAIN p \ {RootId}
           /\ RemoveMode(p, k, n) \in DomainSafeModes
              => Children(p, n) = {} \/ ~ ContainsSplit(p, k, n)
           /\ RemoveMode(p, k, n) \in DomainSafeModes => ~ StartsDomains(k, p[n])
           /\ RemoveMode(p, k, n) \in (DomainSafeModes \cup CoordinatorModes) \ RecursiveModes
              => Children(p, n) = {}
BY DEF RemoveMode, DomainSafeModes, CoordinatorModes, RecursiveModes

\* Two trees that are the same below n, and on what they share, classify its removal the
\* same way.
LEMMA RemoveSame ==
    ASSUME NEW p, NEW k, NEW q, NEW h, IsTree(p), IsTree(q),
           \A m \in DOMAIN p \cap DOMAIN q : p[m] = q[m] /\ k[m] = h[m],
           NEW n \in DOMAIN p \ {RootId},
           \A m \in Subtree(p, n) : m \in DOMAIN q,
           \A c \in DOMAIN q : q[c] \in Subtree(p, n) => c \in DOMAIN p
    PROVE  /\ RemoveMode(q, h, n) = RemoveMode(p, k, n)
           /\ ParticipatingDomains(q, h, n) = ParticipatingDomains(p, k, n)
           /\ DomainRoot(q, h, n) = DomainRoot(p, k, n)
           /\ q[n] = p[n] /\ n \in DOMAIN q
<1>1. n \in Subtree(p, n) /\ Subtree(p, n) \subseteq (DOMAIN p \cap DOMAIN q) \ {RootId}
    BY SubtreeIs, RootNotBelow
<1>2. Subtree(q, n) = Subtree(p, n)
    <2>1. \A m \in Subtree(p, n) : m \in DOMAIN q /\ q[m] = p[m]
        BY <1>1
    <2>2. \A c \in DOMAIN q : q[c] \in Subtree(p, n) => c \in DOMAIN p /\ p[c] = q[c]
        OBVIOUS
    <2>. QED  BY <2>1, <2>2, SubtreeSame
<1>3. n \in DOMAIN q /\ q[n] = p[n] /\ p[n] \in DOMAIN p \cap DOMAIN q
    BY <1>1 DEF IsTree
<1>4. StartsDomains(h, q[n]) <=> StartsDomains(k, p[n])
    BY <1>3 DEF StartsDomains
<1>5. Children(q, n) = Children(p, n)
    <2>1. ASSUME NEW c \in Children(p, n) PROVE c \in Children(q, n)
        <3>1. c \in DOMAIN p /\ p[c] = n /\ c \in Subtree(p, n)
            BY <1>1, SubtreeIs DEF Children
        <3>. QED  BY <1>1, <3>1 DEF Children
    <2>2. ASSUME NEW c \in Children(q, n) PROVE c \in Children(p, n)
        <3>1. c \in DOMAIN q /\ q[c] = n /\ c \in DOMAIN p
            BY <1>1 DEF Children
        <3>. QED  BY <3>1 DEF Children
    <2>. QED  BY <2>1, <2>2
<1>6. ContainsSplit(q, h, n) <=> ContainsSplit(p, k, n)
    BY <1>1, <1>2 DEF ContainsSplit
<1>7. \A m \in Subtree(p, n) : DomainRoot(q, h, m) = DomainRoot(p, k, m)
    BY <1>1, DomainRootSame
<1>8. ParticipatingDomains(q, h, n) = ParticipatingDomains(p, k, n)
    BY <1>2, <1>7 DEF ParticipatingDomains
<1>9. DomainRoot(q, h, n) = DomainRoot(p, k, n)
    BY <1>1, <1>7
<1>10. RemoveMode(q, h, n) = RemoveMode(p, k, n)
    BY <1>3, <1>4, <1>5, <1>6, <1>9 DEF RemoveMode
<1>. QED  BY <1>3, <1>8, <1>9, <1>10
=============================================================================

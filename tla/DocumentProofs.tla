--------------------------- MODULE DocumentProofs ---------------------------
(***************************************************************************)
(* Proofs about Document for any titles and names, and any bounds.         *)
(***************************************************************************)
EXTENDS Document, DocumentTreeProofs, SequenceTheorems

-----------------------------------------------------------------------------
(* Lists.                                                                  *)

\* A set of the first numbers has a largest member, which is the one Max chooses.
LEMMA MaxIs ==
    ASSUME NEW n \in Nat, NEW t \in SUBSET (1 .. n), t # {}
    PROVE  Max(t) \in t /\ \A x \in t : Max(t) >= x
<1>. DEFINE Has(k) == \A s \in SUBSET (1 .. k) : s # {} => \E x \in s : \A y \in s : x >= y
            T == {k \in Nat : Has(k)}
<1>1. ASSUME NEW k \in Nat, \A j \in Nat : j < k => j \in T PROVE k \in T
    <2>. SUFFICES ASSUME NEW s \in SUBSET (1 .. k), s # {}
                  PROVE  \E x \in s : \A y \in s : x >= y
        OBVIOUS
    <2>1. CASE k \in s
        BY <2>1
    <2>2. CASE k \notin s
        <3>1. k - 1 \in Nat /\ k - 1 < k
            <4>1. PICK x \in s : x \in 1 .. k
                OBVIOUS
            <4>. QED  BY ONLY k \in Nat, <4>1
        <3>3. s \in SUBSET (1 .. k - 1)
            <4>1. \A x \in s : x \in 1 .. k /\ x # k
                BY <2>2
            <4>. QED  BY <3>1, <4>1
        <3>2. Has(k - 1)
            <4>. HIDE DEF Has
            <4>. QED  BY <1>1, <3>1
        <3>. QED  BY <3>2, <3>3
    <2>. QED  BY <2>1, <2>2
<1>2. T = Nat
    <2>. HIDE DEF Has
    <2>1. T \in SUBSET Nat
        OBVIOUS
    <2>. HIDE DEF T
    <2>. QED  BY <1>1, <2>1, NumbersByDescent
<1>3. Has(n)
    <2>. HIDE DEF Has
    <2>. QED  BY <1>2
<1>. QED  BY <1>3 DEF Max

\* The last of the first numbers.
LEMMA LastOf ==
    ASSUME NEW k \in Nat \ {0}
    PROVE  Max(1 .. k) = k /\ (1 .. k) \ {k} = 1 .. k - 1 /\ k - 1 \in Nat
<1>1. Max(1 .. k) \in 1 .. k /\ \A x \in 1 .. k : Max(1 .. k) >= x
    <2>1. 1 .. k # {} /\ k \in Nat /\ 1 .. k \in SUBSET (1 .. k)
        OBVIOUS
    <2>. QED  BY <2>1, MaxIs
<1>2. k \in 1 .. k
    OBVIOUS
<1>. QED  BY <1>1, <1>2

\* The table a fold over the first numbers fills.
FillsTable(n, base, step, h) ==
    \A t \in SUBSET (1 .. n) :
        h[t] = IF t = {} THEN base ELSE step[h[t \ {Max(t)}]][Max(t)]

\* There is one.
LEMMA FoldTable ==
    ASSUME NEW n \in Nat, NEW V, NEW base \in V, NEW step \in [V -> [1 .. n -> V]]
    PROVE  \E h \in [SUBSET (1 .. n) -> V] : FillsTable(n, base, step, h)
<1>. DEFINE D == SUBSET (1 .. n)
            mu == [t \in D |-> Cardinality(t)]
            Value(t, g) == IF t = {} THEN base ELSE step[g[t \ {Max(t)}]][Max(t)]
            F == [t \in D |-> [g \in [D -> V] |-> Value(t, g)]]
<1>1. \A t \in D : IsFiniteSet(t) /\ Cardinality(t) \in 0 .. n
    <2>1. IsFiniteSet(1 .. n) /\ Cardinality(1 .. n) = n
        BY FS_Interval
    <2>2. ASSUME NEW t \in D PROVE IsFiniteSet(t) /\ Cardinality(t) \in 0 .. n
        <3>1. IsFiniteSet(t) /\ Cardinality(t) <= Cardinality(1 .. n)
            BY <2>1, FS_Subset
        <3>2. Cardinality(t) \in Nat
            BY <3>1, FS_CardinalityType
        <3>. QED  BY <2>1, <3>1, <3>2
    <2>. HIDE DEF D
    <2>. QED  BY <2>2
<1>2. ASSUME NEW t \in D, t # {}
      PROVE  /\ Max(t) \in 1 .. n /\ t \ {Max(t)} \in D
             /\ Cardinality(t \ {Max(t)}) < Cardinality(t)
    <2>1. Max(t) \in t
        BY <1>2, MaxIs
    <2>2. Cardinality(t \ {Max(t)}) = Cardinality(t) - 1 /\ Cardinality(t) \in Nat
        BY <1>1, <2>1, FS_RemoveElement, FS_CardinalityType
    <2>3. t \ {Max(t)} \in D /\ Max(t) \in 1 .. n
        BY <2>1
    <2>4. Cardinality(t \ {Max(t)}) < Cardinality(t)
        BY ONLY <2>2
    <2>. QED  BY <2>3, <2>4
<1>3. ASSUME NEW t \in D, NEW g \in [D -> V]
      PROVE  F[t][g] = Value(t, g) /\ F[t][g] \in V
    <2>1. F[t][g] = Value(t, g)
        OBVIOUS
    <2>2. Value(t, g) \in V
        <3>1. CASE t = {}
            BY <3>1
        <3>2. CASE t # {}
            <4>1. g[t \ {Max(t)}] \in V /\ Max(t) \in 1 .. n
                BY <1>2, <3>2
            <4>2. step[g[t \ {Max(t)}]] \in [1 .. n -> V]
                BY <4>1
            <4>3. step[g[t \ {Max(t)}]][Max(t)] \in V
                BY <4>1, <4>2
            <4>. QED  BY <3>2, <4>3
        <3>. QED  BY <3>1, <3>2
    <2>. HIDE DEF F, Value
    <2>. QED  BY <2>1, <2>2
<1>4. LooksBelow(D, V, n, mu, F)
    <2>1. F \in [D -> [[D -> V] -> V]]
        <3>1. \A t \in D : F[t] = [g \in [D -> V] |-> F[t][g]]
            OBVIOUS
        <3>2. F = [t \in D |-> F[t]]
            OBVIOUS
        <3>. HIDE DEF F, D
        <3>. QED  BY <1>3, <3>1, <3>2
    <2>2. ASSUME NEW t \in D, NEW g \in [D -> V], NEW h \in [D -> V],
                 \A c \in D : mu[c] < mu[t] => g[c] = h[c]
          PROVE  F[t][g] = F[t][h]
        <3>1. t # {} => g[t \ {Max(t)}] = h[t \ {Max(t)}]
            <4>1. t # {} => mu[t \ {Max(t)}] < mu[t] /\ t \ {Max(t)} \in D
                <5>1. t # {} => t \ {Max(t)} \in D /\ Cardinality(t \ {Max(t)}) < Cardinality(t)
                    BY <1>2
                <5>. HIDE DEF D
                <5>. QED  BY <5>1
            <4>. HIDE DEF mu, D
            <4>. QED  BY <2>2, <4>1
        <3>2. Value(t, g) = Value(t, h)
            BY <3>1
        <3>. HIDE DEF F, D, Value
        <3>. QED  BY <1>3, <3>2
    <2>3. mu \in [D -> 0 .. n]
        BY <1>1
    <2>4. V # {} /\ n \in Nat
        OBVIOUS
    <2>. HIDE DEF F, D, mu
    <2>. QED  BY <2>1, <2>2, <2>3, <2>4 DEF LooksBelow
<1>5. PICK h \in [D -> V] : \A t \in D : h[t] = F[t][h]
    <2>. HIDE DEF F, D, mu
    <2>. QED  BY <1>4, RecursionByMeasure
<1>6. FillsTable(n, base, step, h)
    <2>. HIDE DEF F
    <2>. QED  BY <1>3, <1>5 DEF FillsTable
<1>. QED  BY <1>6

\* swapRemove takes an element out of a list that has it at most once.
LEMMA SwapRemoveIs ==
    ASSUME NEW X, NEW s \in Seq(X), NEW e
    PROVE  /\ SwapRemove(s, e) \in Seq(X)
           /\ IsInjective(s) => /\ IsInjective(SwapRemove(s, e))
                                /\ ToSet(SwapRemove(s, e)) = ToSet(s) \ {e}
<1>. DEFINE n == Len(s)
<1>1. n \in Nat /\ n = Len(s) /\ DOMAIN s = 1 .. n /\ \A i \in 1 .. n : s[i] \in X
    OBVIOUS
<1>. HIDE DEF n
<1>2. CASE ~ Contains(s, e)
    <2>1. SwapRemove(s, e) = s
        BY <1>2 DEF SwapRemove
    <2>2. e \notin ToSet(s)
        BY <1>1, <1>2 DEF Contains, ToSet
    <2>. QED  BY <2>1, <2>2
<1>3. CASE Contains(s, e)
    <2>. DEFINE i == CHOOSE i \in DOMAIN s : s[i] = e
                t == [s EXCEPT ![i] = Last(s)]
                r == Front(t)
    <2>1. i \in 1 .. n /\ s[i] = e /\ n >= 1 /\ n \in 1 .. n
        <3>1. \E j \in DOMAIN s : s[j] = e
            BY <1>1, <1>3 DEF Contains
        <3>2. i \in DOMAIN s /\ s[i] = e
            BY <3>1
        <3>. HIDE DEF i
        <3>. QED  BY <1>1, <3>2
    <2>2. SwapRemove(s, e) = r
        BY <1>3 DEF SwapRemove
    <2>. HIDE DEF i
    <2>3. /\ t \in Seq(X) /\ Len(t) = n
          /\ \A j \in 1 .. n : t[j] = IF j = i THEN s[n] ELSE s[j]
        BY <1>1, <2>1 DEF Last
    <2>. HIDE DEF t
    <2>4. r \in Seq(X) /\ Len(r) = n - 1 /\ \A j \in 1 .. n - 1 : r[j] = t[j]
        BY <1>1, <2>1, <2>3 DEF Front
    <2>. HIDE DEF r
    <2>5. DOMAIN r = 1 .. n - 1 /\ \A j \in 1 .. n - 1 : r[j] = IF j = i THEN s[n] ELSE s[j]
        <3>1. 1 .. n - 1 \subseteq 1 .. n
            BY <1>1
        <3>2. DOMAIN r = 1 .. n - 1
            BY <1>1, <2>4
        <3>. QED  BY <2>3, <2>4, <3>1, <3>2
    <2>6. ASSUME IsInjective(s) PROVE IsInjective(r)
        <3>. SUFFICES ASSUME NEW j \in 1 .. n - 1, NEW k \in 1 .. n - 1, r[j] = r[k] PROVE j = k
            BY <2>5 DEF IsInjective
        <3>1. j \in 1 .. n /\ k \in 1 .. n /\ j # n /\ k # n
            BY <1>1
        <3>2. \A a, b \in 1 .. n : s[a] = s[b] => a = b
            BY <1>1, <2>6 DEF IsInjective
        <3>. QED  BY <2>1, <2>5, <3>1, <3>2
    <2>7. ASSUME IsInjective(s) PROVE ToSet(r) = ToSet(s) \ {e}
        <3>1. \A a, b \in 1 .. n : s[a] = s[b] => a = b
            BY <1>1, <2>7 DEF IsInjective
        <3>2. ASSUME NEW j \in 1 .. n - 1 PROVE r[j] \in ToSet(s) \ {e}
            <4>1. j \in 1 .. n /\ j # n
                BY ONLY <1>1, j \in 1 .. n - 1
            <4>2. PICK k \in 1 .. n : r[j] = s[k] /\ k # i
                BY <2>1, <2>5, <4>1
            <4>3. s[k] # e
                BY <2>1, <3>1, <4>2
            <4>. QED  BY <1>1, <4>2, <4>3 DEF ToSet
        <3>3. ASSUME NEW j \in 1 .. n, s[j] # e PROVE \E k \in 1 .. n - 1 : r[k] = s[j]
            <4>1. CASE j = n
                <5>1. i \in 1 .. n - 1
                    BY <1>1, <2>1, <3>3, <4>1
                <5>. QED  BY <2>5, <4>1, <5>1
            <4>2. CASE j # n
                <5>1. j \in 1 .. n - 1 /\ j # i
                    BY <1>1, <2>1, <3>3, <4>2
                <5>. QED  BY <2>5, <5>1
            <4>. QED  BY <4>1, <4>2
        <3>4. ToSet(r) \subseteq ToSet(s) \ {e}
            BY <2>5, <3>2 DEF ToSet
        <3>5. ToSet(s) \ {e} \subseteq ToSet(r)
            <4>. SUFFICES ASSUME NEW x \in ToSet(s) \ {e} PROVE x \in ToSet(r)
                OBVIOUS
            <4>1. PICK j \in 1 .. n : x = s[j]
                BY <1>1 DEF ToSet
            <4>2. PICK k \in 1 .. n - 1 : r[k] = x
                BY <3>3, <4>1
            <4>. QED  BY <2>5, <4>2 DEF ToSet
        <3>. QED  BY <3>4, <3>5
    <2>. QED  BY <2>2, <2>4, <2>6, <2>7
<1>. QED  BY <1>2, <1>3

\* Its entries for the first numbers, which follow from one another.
Steps(n, base, step, g, h) ==
    h[0] = base /\ h[n] = g[1 .. n] /\ \A i \in 1 .. n : h[i] = step[h[i - 1]][i]

LEMMA TableSteps ==
    ASSUME NEW n \in Nat, NEW V, NEW base, NEW step,
           NEW g \in [SUBSET (1 .. n) -> V], FillsTable(n, base, step, g)
    PROVE  \E h \in [0 .. n -> V] : Steps(n, base, step, g, h)
<1>. DEFINE h == [k \in 0 .. n |-> g[1 .. k]]
<1>1. ASSUME NEW k \in 0 .. n PROVE 1 .. k \in SUBSET (1 .. n)
    OBVIOUS
<1>2. h \in [0 .. n -> V]
    BY <1>1
<1>3. h[0] = base
    <2>1. 1 .. 0 = {} /\ {} \in SUBSET (1 .. n) /\ 0 \in 0 .. n
        OBVIOUS
    <2>. QED  BY <2>1 DEF FillsTable
<1>4. ASSUME NEW i \in 1 .. n PROVE h[i] = step[h[i - 1]][i]
    <2>1. i \in 0 .. n /\ i - 1 \in 0 .. n /\ i \in Nat \ {0} /\ i \in 1 .. i
        OBVIOUS
    <2>2. Max(1 .. i) = i /\ (1 .. i) \ {i} = 1 .. i - 1
        BY <2>1, LastOf
    <2>3. g[1 .. i] = step[g[1 .. i - 1]][i]
        BY <1>1, <2>1, <2>2 DEF FillsTable
    <2>. QED  BY <2>1, <2>3
<1>5. h[n] = g[1 .. n]
    OBVIOUS
<1>6. Steps(n, base, step, g, h)
    <2>. HIDE DEF h
    <2>. QED  BY <1>3, <1>4, <1>5 DEF Steps
<1>. QED  BY <1>2, <1>6

\* A fold of swapRemove over a list of ids goes through them one by one.
RemovalSteps(s, order, h) ==
    /\ h[0] = s /\ FoldLeft(SwapRemove, s, order) = h[Len(order)]
    /\ \A i \in 1 .. Len(order) : h[i] = SwapRemove(h[i - 1], order[i])

LEMMA SwapRemoveSteps ==
    ASSUME NEW X, NEW s \in Seq(X), NEW Y, NEW order \in Seq(Y)
    PROVE  \E h \in [0 .. Len(order) -> Seq(X)] : RemovalSteps(s, order, h)
<1>. DEFINE n == Len(order)
            I == 1 .. n
            D == SUBSET I
            Body(f) == [t \in D |-> IF t = {} THEN s ELSE SwapRemove(f[t \ {Max(t)}], order[Max(t)])]
            iter == CHOOSE f : f = Body(f)
            step == [v \in Seq(X) |-> [i \in 1 .. n |-> SwapRemove(v, order[i])]]
<1>1. n \in Nat /\ DOMAIN order = 1 .. n
    OBVIOUS
<1>2. FoldLeft(SwapRemove, s, order) = iter[1 .. n]
    BY <1>1 DEF FoldLeft, MapThenFoldSet
<1>3. step \in [Seq(X) -> [1 .. n -> Seq(X)]]
    BY SwapRemoveIs
<1>4. PICK g \in [D -> Seq(X)] : FillsTable(n, s, step, g)
    <2>1. s \in Seq(X)
        OBVIOUS
    <2>. HIDE DEF n, step
    <2>. QED  BY <1>1, <1>3, <2>1, FoldTable
<1>5. ASSUME NEW t \in D
      PROVE  g[t] = IF t = {} THEN s ELSE SwapRemove(g[t \ {Max(t)}], order[Max(t)])
    <2>1. CASE t = {}
        BY <1>4, <2>1 DEF FillsTable
    <2>2. CASE t # {}
        <3>1. Max(t) \in 1 .. n /\ g[t \ {Max(t)}] \in Seq(X) /\ t \in SUBSET (1 .. n)
            BY <1>1, <2>2, MaxIs
        <3>. HIDE DEF n, D
        <3>2. step[g[t \ {Max(t)}]][Max(t)] = SwapRemove(g[t \ {Max(t)}], order[Max(t)])
            BY <3>1
        <3>. HIDE DEF step
        <3>. QED  BY <1>4, <2>2, <3>1, <3>2 DEF FillsTable
    <2>. QED  BY <2>1, <2>2
<1>6. g = Body(g)
    <2>1. g = [t \in D |-> g[t]]
        OBVIOUS
    <2>. HIDE DEF D
    <2>. QED  BY <1>5, <2>1
<1>7. iter = Body(iter)
    <2>. HIDE DEF Body
    <2>. QED  BY <1>6
<1>. DEFINE T == {t \in D : iter[t] = g[t]}
<1>. HIDE DEF iter
<1>8. ASSUME NEW t \in D, \A u \in SUBSET t : u # t => u \in T PROVE t \in T
    <2>1. iter[t] = IF t = {} THEN s ELSE SwapRemove(iter[t \ {Max(t)}], order[Max(t)])
        <3>. HIDE DEF D
        <3>. QED  BY <1>7
    <2>2. t # {} => t \ {Max(t)} \in SUBSET t /\ t \ {Max(t)} # t
        BY <1>1, MaxIs
    <2>3. t # {} => iter[t \ {Max(t)}] = g[t \ {Max(t)}]
        BY <1>8, <2>2
    <2>. HIDE DEF D
    <2>. QED  BY <1>5, <2>1, <2>3
<1>9. I \in T
    <2>1. IsFiniteSet(I)
        BY <1>1, FS_Interval
    <2>. HIDE DEF T, I
    <2>. QED  BY <1>8, <2>1, SubsetsByDescent
<1>10. PICK h \in [0 .. n -> Seq(X)] : Steps(n, s, step, g, h)
    <2>. HIDE DEF n, step
    <2>. QED  BY <1>1, <1>4, TableSteps
<1>11. \A i \in 1 .. n : step[h[i - 1]][i] = SwapRemove(h[i - 1], order[i])
    <2>. HIDE DEF n
    <2>1. \A i \in 1 .. n : i - 1 \in 0 .. n
        BY <1>1
    <2>. QED  BY <2>1
<1>12. FoldLeft(SwapRemove, s, order) = h[n]
    <2>. HIDE DEF n, step
    <2>. QED  BY <1>2, <1>9, <1>10 DEF Steps
<1>. HIDE DEF step
<1>. QED  BY <1>10, <1>11, <1>12 DEF Steps, RemovalSteps

\* Together they take every listed element out.
TakenOut(s, order) == FoldLeft(SwapRemove, s, order)

LEMMA SwapRemoveAll ==
    ASSUME NEW X, NEW s \in Seq(X), IsInjective(s), NEW Y, NEW order \in Seq(Y)
    PROVE  /\ TakenOut(s, order) \in Seq(X) /\ IsInjective(TakenOut(s, order))
           /\ ToSet(TakenOut(s, order)) = ToSet(s) \ ToSet(order)
<1>0. PICK h \in [0 .. Len(order) -> Seq(X)] : RemovalSteps(s, order, h)
    BY SwapRemoveSteps
<1>1. /\ h[0] = s /\ TakenOut(s, order) = h[Len(order)]
      /\ \A i \in 1 .. Len(order) : h[i] = SwapRemove(h[i - 1], order[i])
    BY <1>0 DEF RemovalSteps, TakenOut
<1>. DEFINE n == Len(order)
            Listed(k) == {order[i] : i \in 1 .. k}
            Done(k) == IsInjective(h[k]) /\ ToSet(h[k]) = ToSet(s) \ Listed(k)
            T == {k \in Nat : k <= n => Done(k)}
<1>2. n \in Nat /\ ToSet(order) = Listed(n)
    BY DEF ToSet
<1>3. ASSUME NEW k \in Nat, \A j \in Nat : j < k => j \in T PROVE k \in T
    <2>. SUFFICES ASSUME k <= n PROVE Done(k)
        OBVIOUS
    <2>1. CASE k = 0
        <3>1. Listed(0) = {}
            OBVIOUS
        <3>. QED  BY <1>1, <2>1, <3>1
    <2>2. CASE k # 0
        <3>1. k - 1 \in Nat /\ k - 1 < k /\ k - 1 <= n /\ k \in 1 .. n /\ k - 1 \in 0 .. n
            BY <1>2, <2>2
        <3>2. Done(k - 1)
            <4>. HIDE DEF Done
            <4>. QED  BY <1>3, <3>1
        <3>3. h[k - 1] \in Seq(X) /\ h[k] = SwapRemove(h[k - 1], order[k])
            BY <1>1, <3>1
        <3>4. Listed(k) = Listed(k - 1) \cup {order[k]}
            <4>1. 1 .. k = 1 .. (k - 1) \cup {k}
                BY <2>2
            <4>. QED  BY <4>1
        <3>5. IsInjective(h[k]) /\ ToSet(h[k]) = ToSet(h[k - 1]) \ {order[k]}
            <4>. HIDE DEF Listed
            <4>. QED  BY <3>2, <3>3, SwapRemoveIs
        <3>. HIDE DEF Listed
        <3>. QED  BY <3>2, <3>4, <3>5
    <2>. QED  BY <2>1, <2>2
<1>4. T = Nat
    <2>1. T \in SUBSET Nat
        OBVIOUS
    <2>. HIDE DEF T
    <2>. QED  BY <1>3, <2>1, NumbersByDescent
<1>5. Done(n)
    <2>. HIDE DEF Done
    <2>1. n \in T
        <3>. HIDE DEF T, n
        <3>. QED  BY <1>2, <1>4
    <2>. QED  BY <1>2, <2>1
<1>6. h[n] \in Seq(X)
    BY <1>2
<1>. HIDE DEF Listed
<1>. QED  BY <1>1, <1>2, <1>5, <1>6

\* What two lists hold when one follows the other.
LEMMA ConcatIs ==
    ASSUME NEW X, NEW s \in Seq(X), NEW t \in Seq(X)
    PROVE  /\ s \o t \in Seq(X) /\ ToSet(s \o t) = ToSet(s) \cup ToSet(t)
           /\ (IsInjective(s) /\ IsInjective(t) /\ ToSet(s) \cap ToSet(t) = {})
              => IsInjective(s \o t)
<1>. DEFINE a == Len(s)
            b == Len(t)
            r == s \o t
<1>1. a \in Nat /\ b \in Nat /\ DOMAIN s = 1 .. a /\ DOMAIN t = 1 .. b
    OBVIOUS
<1>2. r \in Seq(X) /\ Len(r) = a + b /\ DOMAIN r = 1 .. a + b
    OBVIOUS
<1>3. ASSUME NEW i \in 1 .. a PROVE i \in 1 .. a + b /\ r[i] = s[i]
    BY <1>1
<1>4. ASSUME NEW j \in 1 .. b PROVE a + j \in 1 .. a + b /\ r[a + j] = t[j]
    BY <1>1
<1>5. ASSUME NEW i \in 1 .. a + b, i \notin 1 .. a
      PROVE  i - a \in 1 .. b /\ i = a + (i - a)
    BY ONLY <1>1, <1>5, i \in 1 .. a + b
<1>. HIDE DEF a, b, r
<1>6. ToSet(r) = ToSet(s) \cup ToSet(t)
    <2>1. ASSUME NEW i \in 1 .. a + b PROVE r[i] \in ToSet(s) \cup ToSet(t)
        <3>1. CASE i \in 1 .. a
            BY <1>1, <1>3, <3>1 DEF ToSet
        <3>2. CASE i \notin 1 .. a
            <4>1. PICK j \in 1 .. b : i = a + j
                BY <1>5, <3>2
            <4>2. r[i] = t[j]
                BY <1>4, <4>1
            <4>. QED  BY <1>1, <4>2 DEF ToSet
        <3>. QED  BY <3>1, <3>2
    <2>2. ToSet(r) \subseteq ToSet(s) \cup ToSet(t)
        BY <1>2, <2>1 DEF ToSet
    <2>3. ToSet(s) \subseteq ToSet(r)
        BY <1>1, <1>2, <1>3 DEF ToSet
    <2>4. ToSet(t) \subseteq ToSet(r)
        BY <1>1, <1>2, <1>4 DEF ToSet
    <2>. QED  BY <2>2, <2>3, <2>4
<1>7. ASSUME IsInjective(s), IsInjective(t), ToSet(s) \cap ToSet(t) = {}
      PROVE  IsInjective(r)
    <2>. SUFFICES ASSUME NEW i \in 1 .. a + b, NEW j \in 1 .. a + b, r[i] = r[j]
                  PROVE  i = j
        BY <1>2 DEF IsInjective
    <2>1. ASSUME NEW k \in 1 .. a + b PROVE k \in 1 .. a <=> r[k] \in ToSet(s)
        <3>1. CASE k \in 1 .. a
            BY <1>1, <1>3, <3>1 DEF ToSet
        <3>2. CASE k \notin 1 .. a
            <4>1. PICK m \in 1 .. b : k = a + m
                BY <1>5, <3>2
            <4>2. r[k] \in ToSet(t)
                BY <1>1, <1>4, <4>1 DEF ToSet
            <4>. QED  BY <1>7, <3>2, <4>2
        <3>. QED  BY <3>1, <3>2
    <2>2. CASE i \in 1 .. a
        <3>1. j \in 1 .. a
            BY <2>1, <2>2
        <3>. QED  BY <1>1, <1>3, <1>7, <2>2, <3>1 DEF IsInjective
    <2>3. CASE i \notin 1 .. a
        <3>1. j \notin 1 .. a
            BY <2>1, <2>3
        <3>2. PICK k \in 1 .. b : i = a + k
            BY <1>5, <2>3
        <3>3. PICK m \in 1 .. b : j = a + m
            BY <1>5, <3>1
        <3>4. t[k] = t[m]
            BY <1>4, <3>2, <3>3
        <3>5. k = m
            BY <1>1, <1>7, <3>4 DEF IsInjective
        <3>. QED  BY <3>2, <3>3, <3>5
    <2>. QED  BY <2>2, <2>3
<1>. QED  BY <1>2, <1>6, <1>7 DEF r

\* The lists hung together up to each of them.
NonemptyPrefixes(ss, h) ==
    /\ FlattenSeq(ss) = h[Len(ss)]
    /\ \A i \in 1 .. Len(ss) : h[i] = IF i = 1 THEN ss[1] ELSE h[i - 1] \o ss[i]

LEMMA FlattenSteps ==
    ASSUME NEW X, NEW ss \in Seq(Seq(X)), ss # <<>>
    PROVE  \E h \in [1 .. Len(ss) -> Seq(X)] : NonemptyPrefixes(ss, h)
<1>. DEFINE n == Len(ss)
            D == 1 .. n
            V == Seq(X)
            mu == [i \in D |-> i]
            Body(f) == [i \in D |-> IF i = 1 THEN ss[i] ELSE f[i - 1] \o ss[i]]
            flatten == CHOOSE f : f = Body(f)
            Value(i, g) == IF i = 1 THEN ss[i] ELSE g[i - 1] \o ss[i]
            F == [i \in D |-> [g \in [D -> V] |-> Value(i, g)]]
<1>1. n \in Nat /\ n # 0 /\ n \in D /\ \A i \in D : ss[i] \in V
    OBVIOUS
<1>2. FlattenSeq(ss) = flatten[n]
    BY <1>1 DEF FlattenSeq
<1>3. ASSUME NEW i \in D, i # 1 PROVE i - 1 \in D /\ i - 1 < i
    BY <1>1, <1>3
<1>4. ASSUME NEW i \in D, NEW g \in [D -> V] PROVE F[i][g] = Value(i, g) /\ F[i][g] \in V
    <2>1. F[i][g] = Value(i, g)
        OBVIOUS
    <2>2. i # 1 => g[i - 1] \in V
        <3>. HIDE DEF D, V
        <3>. QED  BY <1>3
    <2>3. Value(i, g) \in V
        <3>1. CASE i = 1
            BY <1>1, <3>1
        <3>2. CASE i # 1
            <4>1. Value(i, g) = g[i - 1] \o ss[i]
                BY <3>2
            <4>2. g[i - 1] \in Seq(X) /\ ss[i] \in Seq(X)
                BY <1>1, <2>2, <3>2
            <4>3. g[i - 1] \o ss[i] \in Seq(X)
                BY ONLY <4>2
            <4>. QED  BY <4>1, <4>3
        <3>. QED  BY <3>1, <3>2
    <2>. HIDE DEF F, Value
    <2>. QED  BY <2>1, <2>3
<1>5. LooksBelow(D, V, n, mu, F)
    <2>1. F \in [D -> [[D -> V] -> V]]
        <3>1. \A i \in D : F[i] = [g \in [D -> V] |-> F[i][g]]
            OBVIOUS
        <3>2. F = [i \in D |-> F[i]]
            OBVIOUS
        <3>. HIDE DEF F, D, V
        <3>3. \A i \in D : F[i] \in [[D -> V] -> V]
            BY <1>4, <3>1
        <3>. QED  BY ONLY <3>2, <3>3
    <2>2. ASSUME NEW i \in D, NEW g \in [D -> V], NEW h \in [D -> V],
                 \A c \in D : mu[c] < mu[i] => g[c] = h[c]
          PROVE  F[i][g] = F[i][h]
        <3>1. i # 1 => g[i - 1] = h[i - 1]
            <4>1. i # 1 => i - 1 \in D /\ mu[i - 1] < mu[i]
                BY <1>3
            <4>. HIDE DEF mu, D
            <4>. QED  BY <2>2, <4>1
        <3>2. Value(i, g) = Value(i, h)
            BY <3>1
        <3>. HIDE DEF F, D, Value
        <3>. QED  BY <1>4, <3>2
    <2>3. mu \in [D -> 0 .. n]
        BY <1>1
    <2>4. V # {} /\ n \in Nat
        BY <1>1
    <2>. HIDE DEF F, D, mu, V
    <2>. QED  BY <2>1, <2>2, <2>3, <2>4 DEF LooksBelow
<1>6. PICK g \in [D -> V] : \A i \in D : g[i] = F[i][g]
    <2>. HIDE DEF F, D, mu, V
    <2>. QED  BY <1>5, RecursionByMeasure
<1>7. g = Body(g)
    <2>1. g = [i \in D |-> g[i]]
        OBVIOUS
    <2>2. \A i \in D : g[i] = Value(i, g)
        <3>. HIDE DEF F, D, V, Value
        <3>. QED  BY <1>4, <1>6
    <2>. HIDE DEF D
    <2>. QED  BY <2>1, <2>2
<1>8. flatten = Body(flatten)
    <2>. HIDE DEF Body
    <2>. QED  BY <1>7
<1>. HIDE DEF flatten
<1>. DEFINE T == {i \in Nat : i \in D => flatten[i] = g[i]}
<1>9. ASSUME NEW i \in Nat, \A j \in Nat : j < i => j \in T PROVE i \in T
    <2>. SUFFICES ASSUME i \in D PROVE flatten[i] = g[i]
        OBVIOUS
    <2>1. flatten[i] = Value(i, flatten) /\ g[i] = Value(i, g)
        <3>1. \A f : f = Body(f) => f[i] = Value(i, f)
            OBVIOUS
        <3>. HIDE DEF Body, Value
        <3>. QED  BY <1>7, <1>8, <3>1
    <2>2. i # 1 => i - 1 \in D /\ i - 1 \in Nat /\ i - 1 < i
        BY <1>3
    <2>3. i # 1 => flatten[i - 1] = g[i - 1]
        BY <1>9, <2>2
    <2>. HIDE DEF D
    <2>. QED  BY <2>1, <2>3
<1>10. T = Nat
    <2>1. T \in SUBSET Nat
        OBVIOUS
    <2>. HIDE DEF T
    <2>. QED  BY <1>9, <2>1, NumbersByDescent
<1>11. FlattenSeq(ss) = g[n]
    <2>1. n \in T
        <3>. HIDE DEF T, n
        <3>. QED  BY <1>1, <1>10
    <2>2. flatten[n] = g[n]
        BY <1>1, <2>1
    <2>. QED  BY <1>2, <2>2
<1>12. \A i \in 1 .. n : g[i] = IF i = 1 THEN ss[1] ELSE g[i - 1] \o ss[i]
    <2>1. \A i \in D : g[i] = Value(i, g)
        <3>. HIDE DEF F, D, V, Value
        <3>. QED  BY <1>4, <1>6
    <2>. QED  BY <2>1
<1>13. NonemptyPrefixes(ss, g)
    BY <1>11, <1>12 DEF NonemptyPrefixes
<1>. QED  BY <1>13

\* What a list of lists holds once they are hung together.
Disjoint(ss) ==
    /\ \A i \in DOMAIN ss : IsInjective(ss[i])
    /\ \A i, j \in DOMAIN ss : i # j => ToSet(ss[i]) \cap ToSet(ss[j]) = {}

LEMMA FlattenIs ==
    ASSUME NEW X, NEW ss \in Seq(Seq(X))
    PROVE  /\ FlattenSeq(ss) \in Seq(X)
           /\ ToSet(FlattenSeq(ss)) = UNION {ToSet(ss[i]) : i \in DOMAIN ss}
           /\ Disjoint(ss) => IsInjective(FlattenSeq(ss))
<1>1. CASE ss = <<>>
    <2>1. FlattenSeq(ss) = <<>> /\ DOMAIN ss = {}
        BY <1>1 DEF FlattenSeq
    <2>. QED  BY <2>1 DEF ToSet, IsInjective
<1>2. CASE ss # <<>>
    <2>. DEFINE n == Len(ss)
    <2>1. n \in Nat /\ n \in 1 .. n /\ DOMAIN ss = 1 .. n /\ \A i \in 1 .. n : ss[i] \in Seq(X)
        BY <1>2
    <2>2. PICK h \in [1 .. n -> Seq(X)] : NonemptyPrefixes(ss, h)
        BY <1>2, FlattenSteps
    <2>3. /\ FlattenSeq(ss) = h[n]
          /\ \A i \in 1 .. n : h[i] = IF i = 1 THEN ss[1] ELSE h[i - 1] \o ss[i]
        BY <2>2 DEF NonemptyPrefixes
    <2>. HIDE DEF n
    <2>. DEFINE Upto(k) == UNION {ToSet(ss[i]) : i \in 1 .. k}
                Good(k) == ToSet(h[k]) = Upto(k) /\ (Disjoint(ss) => IsInjective(h[k]))
                T == {k \in Nat : k \in 1 .. n => Good(k)}
    <2>4. ASSUME NEW k \in Nat, \A j \in Nat : j < k => j \in T PROVE k \in T
        <3>. SUFFICES ASSUME k \in 1 .. n PROVE Good(k)
            OBVIOUS
        <3>1. CASE k = 1
            <4>1. 1 .. 1 = {1} /\ h[k] = ss[1] /\ 1 \in DOMAIN ss
                BY <2>1, <2>3, <3>1
            <4>. QED  BY <3>1, <4>1 DEF Disjoint
        <3>2. CASE k # 1
            <4>1. k - 1 \in 1 .. n /\ k - 1 \in Nat /\ k - 1 < k
                BY <3>2, <2>1
            <4>2. Good(k - 1)
                <5>. HIDE DEF Good
                <5>. QED  BY <2>4, <4>1
            <4>3. h[k - 1] \in Seq(X) /\ ss[k] \in Seq(X) /\ h[k] = h[k - 1] \o ss[k]
                BY <2>1, <2>3, <3>2, <4>1
            <4>4. Upto(k) = Upto(k - 1) \cup ToSet(ss[k])
                <5>1. 1 .. k = 1 .. (k - 1) \cup {k}
                    BY <4>1
                <5>. QED  BY <5>1
            <4>5. Disjoint(ss) => Upto(k - 1) \cap ToSet(ss[k]) = {}
                <5>1. \A i \in 1 .. k - 1 : i \in 1 .. n /\ i # k
                    BY <2>1, <4>1
                <5>. QED  BY <2>1, <5>1 DEF Disjoint
            <4>6. Disjoint(ss) => IsInjective(ss[k])
                BY <2>1 DEF Disjoint
            <4>. HIDE DEF Upto
            <4>. QED  BY <4>2, <4>3, <4>4, <4>5, <4>6, ConcatIs
        <3>. QED  BY <3>1, <3>2
    <2>5. T = Nat
        <3>1. T \in SUBSET Nat
            OBVIOUS
        <3>. HIDE DEF T
        <3>. QED  BY <2>4, <3>1, NumbersByDescent
    <2>6. Good(n)
        <3>1. n \in T
            <4>. HIDE DEF T
            <4>. QED  BY <2>1, <2>5
        <3>. HIDE DEF Good
        <3>. QED  BY <2>1, <3>1
    <2>7. h[n] \in Seq(X)
        BY <2>1
    <2>. QED  BY <2>1, <2>3, <2>6, <2>7
<1>. QED  BY <1>1, <1>2

\* A count and a sum over a list that names nothing twice are those over the set it names.
LEMMA ListSums ==
    ASSUME NEW S, IsFiniteSet(S), NEW f, \A x \in S : f[x] \in Nat,
           NEW s \in Seq(S), IsInjective(s)
    PROVE  /\ Cardinality(ToSet(s)) = Len(s)
           /\ SumFunction([i \in DOMAIN s |-> f[s[i]]]) = SumFunctionOnSet(f, ToSet(s))
<1>. DEFINE n == Len(s)
            g == [i \in 1 .. n |-> f[s[i]]]
            Listed(k) == {s[i] : i \in 1 .. k}
            Same(k) == /\ Cardinality(Listed(k)) = k
                       /\ SumFunctionOnSet(g, 1 .. k) = SumFunctionOnSet(f, Listed(k))
            T == {k \in Nat : k <= n => Same(k)}
<1>1. /\ n \in Nat /\ DOMAIN s = 1 .. n /\ ToSet(s) = Listed(n)
      /\ \A i \in 1 .. n : s[i] \in S
    BY DEF ToSet
<1>2. /\ [i \in DOMAIN s |-> f[s[i]]] = g /\ DOMAIN g = 1 .. n
      /\ \A i \in 1 .. n : g[i] = f[s[i]] /\ g[i] \in Nat
    BY <1>1
<1>. HIDE DEF n, g
<1>3. ASSUME NEW k \in Nat, k <= n
      PROVE  /\ 1 .. k \subseteq 1 .. n /\ Listed(k) \subseteq S
             /\ IsFiniteSet(1 .. k) /\ IsFiniteSet(Listed(k))
    <2>1. 1 .. k \subseteq 1 .. n
        BY <1>1, <1>3
    <2>2. Listed(k) \subseteq S
        BY <1>1, <2>1
    <2>. HIDE DEF Listed
    <2>. QED  BY <2>1, <2>2, FS_Interval, FS_Subset
<1>4. ASSUME NEW k \in Nat, \A j \in Nat : j < k => j \in T PROVE k \in T
    <2>. SUFFICES ASSUME k <= n PROVE Same(k)
        OBVIOUS
    <2>1. CASE k = 0
        <3>1. 1 .. k = {} /\ Listed(k) = {}
            BY <2>1
        <3>2. SumFunctionOnSet(g, {}) = SumFunctionOnSet(f, {})
            BY FS_EmptySet, SumUnfolds
        <3>. HIDE DEF Listed
        <3>. QED  BY <2>1, <3>1, <3>2, FS_EmptySet
    <2>2. CASE k # 0
        <3>1. k - 1 \in Nat /\ k - 1 < k /\ k - 1 <= n /\ k \in 1 .. k /\ k \in 1 .. n
            BY <1>1, <2>2
        <3>2. Same(k - 1)
            <4>. HIDE DEF Same
            <4>. QED  BY <1>4, <3>1
        <3>3. (1 .. k) \ {k} = 1 .. k - 1
            BY <2>2, LastOf
        <3>4. Listed(k) \ {s[k]} = Listed(k - 1) /\ s[k] \in Listed(k) /\ s[k] \notin Listed(k - 1)
            <4>1. \A i \in 1 .. k : s[i] = s[k] => i = k
                BY <1>1, <1>3, <3>1 DEF IsInjective
            <4>. QED  BY <3>1, <3>3, <4>1
        <3>5. Cardinality(Listed(k - 1)) = Cardinality(Listed(k)) - 1
            <4>1. IsFiniteSet(Listed(k))
                BY <1>3
            <4>. HIDE DEF Listed
            <4>. QED  BY <3>4, <4>1, FS_RemoveElement
        <3>6. SumFunctionOnSet(g, 1 .. k) = g[k] + SumFunctionOnSet(g, 1 .. k - 1)
            <4>1. IsFiniteSet(1 .. k) /\ \A i \in 1 .. k : g[i] \in Nat
                BY <1>2, <1>3
            <4>. HIDE DEF g
            <4>. QED  BY ONLY <3>1, <3>3, <4>1, SumTakesOut
        <3>7. SumFunctionOnSet(f, Listed(k)) = f[s[k]] + SumFunctionOnSet(f, Listed(k - 1))
            <4>1. IsFiniteSet(Listed(k)) /\ \A x \in Listed(k) : f[x] \in Nat
                BY <1>3
            <4>. HIDE DEF Listed
            <4>. QED  BY ONLY <3>4, <4>1, SumTakesOut
        <3>8. Cardinality(Listed(k)) = k
            <4>1. Cardinality(Listed(k)) \in Nat
                BY <1>3, FS_CardinalityType
            <4>. HIDE DEF Listed
            <4>. QED  BY <3>2, <3>5, <4>1
        <3>9. g[k] = f[s[k]]
            BY <1>2, <3>1
        <3>. HIDE DEF Listed
        <3>. QED  BY <3>2, <3>6, <3>7, <3>8, <3>9
    <2>. QED  BY <2>1, <2>2
<1>5. T = Nat
    <2>1. T \in SUBSET Nat
        OBVIOUS
    <2>. HIDE DEF T
    <2>. QED  BY <1>4, <2>1, NumbersByDescent
<1>6. Same(n)
    <2>. HIDE DEF Same
    <2>1. n \in T
        <3>. HIDE DEF T
        <3>. QED  BY <1>1, <1>5
    <2>. QED  BY <1>1, <2>1
<1>. HIDE DEF Listed
<1>. QED  BY <1>1, <1>2, <1>6 DEF SumFunction, n

-----------------------------------------------------------------------------
(* Walks over a document whose parents and children agree.                 *)

\* Every child is in its parent's list once, and a list holds nothing else.
Linked(p, ch) ==
    /\ IsTree(p) /\ ch \in [DOMAIN p -> Seq(DOMAIN p)]
    /\ \A n \in DOMAIN p : IsInjective(ch[n]) /\ ToSet(ch[n]) = Children(p, n)

\* The subtrees of a node's children, one list after the other.
BelowChildren(ch, n, g) == FlattenSeq([i \in DOMAIN ch[n] |-> g[ch[n][i]]])

LEMMA ChildIs ==
    ASSUME NEW p, NEW ch, Linked(p, ch), NEW n \in DOMAIN p, NEW i \in DOMAIN ch[n]
    PROVE  ch[n][i] \in DOMAIN p /\ p[ch[n][i]] = n /\ n < ch[n][i]
<1>1. ch[n][i] \in Children(p, n)
    BY DEF Linked, ToSet
<1>2. ch[n][i] \in DOMAIN p /\ p[ch[n][i]] = n
    BY <1>1 DEF Children
<1>3. NoNode \notin DOMAIN p
    BY DEF Linked, IsTree, NoNode
<1>. QED  BY <1>2, <1>3 DEF Linked, IsTree

\* A walk below every node, as collectSubtreePostorder makes it, is well defined.
WalksBelow(p, ch, h) == \A n \in DOMAIN p : h[n] = BelowChildren(ch, n, h) \o <<n>>

LEMMA WalkTable ==
    ASSUME NEW p, NEW ch, Linked(p, ch)
    PROVE  \E h \in [DOMAIN p -> Seq(DOMAIN p)] : WalksBelow(p, ch, h)
<1>1. PICK N \in Nat : DOMAIN p \subseteq 1 .. N
    BY DEF Linked, IsTree
<1>. DEFINE D == DOMAIN p
            V == Seq(D)
            mu == [n \in D |-> N - n]
            Value(n, g) == BelowChildren(ch, n, g) \o <<n>>
            F == [n \in D |-> [g \in [D -> V] |-> Value(n, g)]]
<1>2. \A n \in D : n \in 1 .. N
    BY <1>1
<1>3. ASSUME NEW n \in D
      PROVE  /\ ch[n] \in Seq(D)
             /\ \A i \in DOMAIN ch[n] : ch[n][i] \in D /\ n < ch[n][i]
    BY ChildIs DEF Linked
<1>. HIDE DEF D
<1>4. ASSUME NEW n \in D, NEW g \in [D -> V] PROVE F[n][g] = Value(n, g) /\ F[n][g] \in V
    <2>1. F[n][g] = Value(n, g)
        OBVIOUS
    <2>2. [i \in DOMAIN ch[n] |-> g[ch[n][i]]] \in Seq(V)
        <3>1. \A i \in DOMAIN ch[n] : g[ch[n][i]] \in V
            <4>. HIDE DEF V
            <4>. QED  BY <1>3
        <3>2. DOMAIN ch[n] = 1 .. Len(ch[n]) /\ Len(ch[n]) \in Nat
            BY <1>3
        <3>. HIDE DEF V
        <3>. QED  BY <3>1, <3>2, IsASeq
    <2>3. BelowChildren(ch, n, g) \in V
        BY <2>2, FlattenIs DEF BelowChildren
    <2>4. Value(n, g) \in V
        BY <2>3
    <2>. HIDE DEF F, Value
    <2>. QED  BY <2>1, <2>4
<1>5. LooksBelow(D, V, N, mu, F)
    <2>1. F \in [D -> [[D -> V] -> V]]
        <3>1. \A n \in D : F[n] = [g \in [D -> V] |-> F[n][g]]
            OBVIOUS
        <3>2. F = [n \in D |-> F[n]]
            OBVIOUS
        <3>. HIDE DEF F, V
        <3>. QED  BY <1>4, <3>1, <3>2
    <2>2. ASSUME NEW n \in D, NEW g \in [D -> V], NEW h \in [D -> V],
                 \A c \in D : mu[c] < mu[n] => g[c] = h[c]
          PROVE  F[n][g] = F[n][h]
        <3>1. ASSUME NEW i \in DOMAIN ch[n] PROVE g[ch[n][i]] = h[ch[n][i]]
            <4>1. ch[n][i] \in D /\ n < ch[n][i]
                BY <1>3
            <4>2. ch[n][i] \in 1 .. N /\ n \in 1 .. N
                BY <1>2, <4>1
            <4>3. N - ch[n][i] < N - n
                BY ONLY N \in Nat, <4>1, <4>2
            <4>4. mu[ch[n][i]] < mu[n]
                BY <4>1, <4>3
            <4>. HIDE DEF mu
            <4>. QED  BY <2>2, <4>1, <4>4
        <3>2. [i \in DOMAIN ch[n] |-> g[ch[n][i]]] = [i \in DOMAIN ch[n] |-> h[ch[n][i]]]
            BY <3>1
        <3>3. Value(n, g) = Value(n, h)
            BY <3>2 DEF BelowChildren
        <3>. HIDE DEF F, Value
        <3>. QED  BY <1>4, <3>3
    <2>3. mu \in [D -> 0 .. N]
        BY <1>2
    <2>4. V # {} /\ N \in Nat
        <3>1. <<>> \in V
            OBVIOUS
        <3>. HIDE DEF V
        <3>. QED  BY <3>1
    <2>. HIDE DEF F, mu, V
    <2>. QED  BY <2>1, <2>2, <2>3, <2>4 DEF LooksBelow
<1>6. PICK h \in [D -> V] : \A n \in D : h[n] = F[n][h]
    <2>. HIDE DEF F, mu, V
    <2>. QED  BY <1>5, RecursionByMeasure
<1>7. \A n \in D : h[n] = Value(n, h)
    <2>. HIDE DEF F, V, Value
    <2>. QED  BY <1>4, <1>6
<1>. QED  BY <1>7 DEF D, WalksBelow

\* The state's links are those of a tree.
Links == Linked(parent, children)

\* A removal's list names every node of the subtree once.
LEMMA PostorderIs ==
    ASSUME Links, NEW n \in Live
    PROVE  /\ Postorder(n) \in Seq(Live) /\ IsInjective(Postorder(n))
           /\ ToSet(Postorder(n)) = Subtree(parent, n)
<1>1. PICK N \in Nat : Live \subseteq 1 .. N
    BY DEF Links, Linked, IsTree, Live
<1>. DEFINE Value(m, f) ==
                FlattenSeq([i \in DOMAIN children[m] |-> f[children[m][i]]]) \o <<m>>
            Body(f) == [m \in Live |-> Value(m, f)]
            order == CHOOSE f : f = Body(f)
            Good(m) == /\ order[m] \in Seq(Live) /\ IsInjective(order[m])
                       /\ ToSet(order[m]) = Subtree(parent, m)
            T == {k \in Nat : \A m \in Live : N - m = k => Good(m)}
<1>2. Postorder(n) = order[n]
    BY DEF Postorder
<1>3. order = Body(order)
    <2>1. PICK h \in [Live -> Seq(Live)] : WalksBelow(parent, children, h)
        BY WalkTable DEF Links, Live
    <2>2. h = [m \in Live |-> h[m]]
        OBVIOUS
    <2>3. h = Body(h)
        BY <2>1, <2>2 DEF WalksBelow, BelowChildren, Live
    <2>. HIDE DEF Body
    <2>. QED  BY <2>3
<1>. HIDE DEF order
<1>4. ASSUME NEW m \in Live PROVE order[m] = Value(m, order)
    <2>. HIDE DEF Value
    <2>. QED  BY <1>3
<1>5. ASSUME NEW k \in Nat, \A j \in Nat : j < k => j \in T PROVE k \in T
    <2>. SUFFICES ASSUME NEW m \in Live, N - m = k PROVE Good(m)
        OBVIOUS
    <2>. DEFINE c == children[m]
                ss == [i \in DOMAIN c |-> order[c[i]]]
    <2>1. /\ c \in Seq(Live) /\ IsInjective(c) /\ ToSet(c) = Children(parent, m)
          /\ DOMAIN c = 1 .. Len(c) /\ Len(c) \in Nat
        BY DEF Links, Linked, Live
    <2>. HIDE DEF c
    <2>2. ASSUME NEW i \in DOMAIN c PROVE c[i] \in Live /\ Good(c[i])
        <3>1. c[i] \in Live /\ m < c[i]
            BY ChildIs DEF Links, Live, c
        <3>2. c[i] \in 1 .. N /\ m \in 1 .. N
            BY <1>1, <3>1
        <3>3. N - c[i] \in Nat /\ N - c[i] < k
            BY ONLY N \in Nat, <3>1, <3>2, N - m = k
        <3>. HIDE DEF Good
        <3>. QED  BY <1>5, <3>1, <3>3
    <2>3. ss \in Seq(Seq(Live)) /\ DOMAIN ss = DOMAIN c
        <3>1. \A i \in DOMAIN c : order[c[i]] \in Seq(Live)
            BY <2>2
        <3>. QED  BY <2>1, <3>1, IsASeq
    <2>4. \A i \in DOMAIN c : /\ c[i] \in Children(parent, m) /\ IsInjective(ss[i])
                              /\ ToSet(ss[i]) = Subtree(parent, c[i])
        <3>1. \A i \in DOMAIN c : c[i] \in ToSet(c)
            BY DEF ToSet
        <3>. QED  BY <2>1, <2>2, <3>1
    <2>5. /\ Subtree(parent, m) = {m} \cup UNION {Subtree(parent, d) : d \in Children(parent, m)}
          /\ \A d \in Children(parent, m) : m \notin Subtree(parent, d)
          /\ \A d, e \in Children(parent, m) : d # e => Subtree(parent, d) \cap Subtree(parent, e) = {}
        BY SubtreeSplits DEF Links, Linked, Live
    <2>. HIDE DEF ss
    <2>6. Disjoint(ss)
        <3>1. \A i, j \in DOMAIN c : i # j => c[i] # c[j]
            BY <2>1 DEF IsInjective
        <3>. QED  BY <2>3, <2>4, <2>5, <3>1 DEF Disjoint
    <2>7. UNION {ToSet(ss[i]) : i \in DOMAIN ss} = Subtree(parent, m) \ {m}
        <3>1. UNION {ToSet(ss[i]) : i \in DOMAIN ss} = UNION {Subtree(parent, c[i]) : i \in DOMAIN c}
            BY <2>3, <2>4
        <3>2. Children(parent, m) = {c[i] : i \in DOMAIN c}
            BY <2>1 DEF ToSet
        <3>3. UNION {Subtree(parent, c[i]) : i \in DOMAIN c}
                = UNION {Subtree(parent, d) : d \in Children(parent, m)}
            BY <3>2
        <3>. QED  BY <2>5, <3>1, <3>3
    <2>8. /\ FlattenSeq(ss) \in Seq(Live) /\ IsInjective(FlattenSeq(ss))
          /\ ToSet(FlattenSeq(ss)) = Subtree(parent, m) \ {m}
        BY <2>3, <2>6, <2>7, FlattenIs
    <2>9. <<m>> \in Seq(Live) /\ IsInjective(<<m>>) /\ ToSet(<<m>>) = {m}
        BY DEF IsInjective, ToSet
    <2>10. order[m] = FlattenSeq(ss) \o <<m>>
        BY <1>4 DEF ss, c
    <2>11. m \in Subtree(parent, m)
        BY SubtreeIs DEF Live
    <2>. DEFINE a == FlattenSeq(ss)
                b == <<m>>
    <2>12. /\ a \in Seq(Live) /\ b \in Seq(Live) /\ IsInjective(a) /\ IsInjective(b)
           /\ ToSet(a) \cap ToSet(b) = {}
        BY <2>8, <2>9
    <2>13. /\ a \o b \in Seq(Live) /\ IsInjective(a \o b)
           /\ ToSet(a \o b) = ToSet(a) \cup ToSet(b)
        <3>. HIDE DEF a, b
        <3>. QED  BY <2>12, ConcatIs
    <2>. QED  BY <2>8, <2>9, <2>10, <2>11, <2>13
<1>6. T = Nat
    <2>1. T \in SUBSET Nat
        OBVIOUS
    <2>. HIDE DEF T
    <2>. QED  BY <1>5, <2>1, NumbersByDescent
<1>7. Good(n)
    <2>1. n \in 1 .. N
        BY <1>1
    <2>2. N - n \in Nat
        BY <2>1
    <2>. HIDE DEF Good
    <2>. QED  BY <1>6, <2>2
<1>. QED  BY <1>2, <1>7

\* A list holds only what another set has: it is a list over that set.
LEMMA ListOver ==
    ASSUME NEW X, NEW s \in Seq(X), NEW Y, ToSet(s) \subseteq Y
    PROVE  s \in Seq(Y)
<1>1. \A i \in DOMAIN s : s[i] \in ToSet(s)
    BY DEF ToSet
<1>. QED  BY <1>1

\* What a list holds once an element is appended.
LEMMA AppendIs ==
    ASSUME NEW X, NEW s \in Seq(X), NEW x \in X
    PROVE  /\ Append(s, x) \in Seq(X) /\ ToSet(Append(s, x)) = ToSet(s) \cup {x}
           /\ IsInjective(s) /\ x \notin ToSet(s) => IsInjective(Append(s, x))
<1>. DEFINE t == <<x>>
<1>1. t \in Seq(X) /\ IsInjective(t) /\ ToSet(t) = {x}
    BY DEF IsInjective, ToSet
<1>2. Append(s, x) = s \o t
    OBVIOUS
<1>. HIDE DEF t
<1>3. x \notin ToSet(s) => ToSet(s) \cap ToSet(t) = {}
    BY <1>1
<1>. QED  BY <1>1, <1>2, <1>3, ConcatIs

-----------------------------------------------------------------------------
(* What one operation does to the links and to the sums.                   *)

\* appendNode: a new node, the last child of its parent.
LEMMA GrownLinks ==
    ASSUME NEW p, NEW ch, Linked(p, ch), NEW n \in DOMAIN p,
           NEW c \in Nat, \A m \in DOMAIN p : m < c
    PROVE  Linked(With(p, c, n), With([ch EXCEPT ![n] = Append(@, c)], c, <<>>))
<1>. DEFINE q == With(p, c, n)
            dh == With([ch EXCEPT ![n] = Append(@, c)], c, <<>>)
            D == DOMAIN p
<1>1. c \notin D /\ DOMAIN ch = D /\ \A m \in D : p[m] # c
    <2>1. D \subseteq Nat /\ NoNode \notin D /\ \A m \in D \ {RootId} : p[m] \in D
        BY DEF Linked, IsTree, NoNode
    <2>2. \A m \in D : m # c
        BY <2>1
    <2>3. c # NoNode
        <3>1. RootId \in D
            BY DEF Linked, IsTree
        <3>. QED  BY <2>1, <3>1 DEF RootId, NoNode
    <2>. QED  BY <2>2, <2>3 DEF Linked, IsTree
<1>2. /\ DOMAIN q = D \cup {c} /\ q[c] = n /\ \A m \in D : q[m] = p[m]
      /\ dh = [m \in D \cup {c} |-> IF m = c THEN <<>> ELSE IF m = n THEN Append(ch[m], c) ELSE ch[m]]
    BY <1>1 DEF With
<1>3. IsTree(q)
    <2>. HIDE DEF q
    <2>. QED  BY <1>2, GrownTree DEF Linked
<1>. HIDE DEF q, dh
<1>4. ASSUME NEW m \in D \cup {c}
      PROVE  dh[m] \in Seq(D \cup {c}) /\ IsInjective(dh[m]) /\ ToSet(dh[m]) = Children(q, m)
    <2>1. CASE m = c
        <3>1. Children(q, m) = {}
            BY <1>1, <1>2, <2>1 DEF Children
        <3>2. dh[m] = <<>>
            BY <1>2, <2>1
        <3>. QED  BY <3>1, <3>2 DEF IsInjective, ToSet
    <2>2. CASE m # c
        <3>1. m \in D /\ ch[m] \in Seq(D) /\ IsInjective(ch[m]) /\ ToSet(ch[m]) = Children(p, m)
            BY <2>2 DEF Linked
        <3>2. ToSet(ch[m]) \subseteq D
            BY <3>1 DEF Children
        <3>3. ch[m] \in Seq(D \cup {c}) /\ c \notin ToSet(ch[m])
            BY <1>1, <3>1, <3>2, ListOver
        <3>4. Children(q, m) = IF m = n THEN Children(p, m) \cup {c} ELSE Children(p, m)
            BY <1>1, <1>2 DEF Children
        <3>5. dh[m] = IF m = n THEN Append(ch[m], c) ELSE ch[m]
            BY <1>2, <2>2
        <3>6. /\ Append(ch[m], c) \in Seq(D \cup {c}) /\ IsInjective(Append(ch[m], c))
              /\ ToSet(Append(ch[m], c)) = ToSet(ch[m]) \cup {c}
            BY <3>1, <3>3, AppendIs
        <3>. QED  BY <3>1, <3>3, <3>4, <3>5, <3>6
    <2>. QED  BY <2>1, <2>2
<1>5. dh \in [D \cup {c} -> Seq(D \cup {c})]
    BY <1>2, <1>4
<1>6. Linked(q, dh)
    BY <1>2, <1>3, <1>4, <1>5 DEF Linked
<1>. QED  BY <1>6 DEF q, dh

\* detachChildFromParent and removeNodeRegistryOnly: a subtree is gone.
LEMMA PrunedLinks ==
    ASSUME NEW p, NEW ch, Linked(p, ch), NEW n \in DOMAIN p \ {RootId}
    PROVE  Linked(Without(p, Subtree(p, n)),
                  Without([ch EXCEPT ![p[n]] = SwapRemove(@, n)], Subtree(p, n)))
<1>. DEFINE D == DOMAIN p
            S == Subtree(p, n)
            q == Without(p, S)
            dh == Without([ch EXCEPT ![p[n]] = SwapRemove(@, n)], S)
<1>1. DOMAIN ch = D /\ n \in S /\ S \subseteq D /\ p[n] \in D
    BY SubtreeIs DEF Linked, IsTree
<1>2. /\ DOMAIN q = D \ S /\ \A m \in D \ S : q[m] = p[m]
      /\ dh = [m \in D \ S |-> IF m = p[n] THEN SwapRemove(ch[m], n) ELSE ch[m]]
    BY <1>1 DEF Without
<1>3. IsTree(q)
    <2>1. IsTree(p) /\ DOMAIN q = DOMAIN p \ Subtree(p, n) /\ \A m \in DOMAIN q : q[m] = p[m]
        BY <1>2 DEF Linked
    <2>. HIDE DEF q
    <2>. QED  BY <2>1, PrunedTree
<1>4. \A c \in D : p[c] \notin S => (c \in S <=> c = n)
    BY <1>1, SubtreeParents
<1>. HIDE DEF q, dh, S
<1>5. ASSUME NEW m \in D \ S
      PROVE  dh[m] \in Seq(D \ S) /\ IsInjective(dh[m]) /\ ToSet(dh[m]) = Children(q, m)
    <2>1. ch[m] \in Seq(D) /\ IsInjective(ch[m]) /\ ToSet(ch[m]) = Children(p, m)
        BY DEF Linked
    <2>2. Children(q, m) = IF m = p[n] THEN Children(p, m) \ {n} ELSE Children(p, m)
        BY <1>1, <1>2, <1>4 DEF Children
    <2>3. dh[m] = IF m = p[n] THEN SwapRemove(ch[m], n) ELSE ch[m]
        BY <1>2
    <2>4. /\ SwapRemove(ch[m], n) \in Seq(D) /\ IsInjective(SwapRemove(ch[m], n))
          /\ ToSet(SwapRemove(ch[m], n)) = ToSet(ch[m]) \ {n}
        BY <2>1, SwapRemoveIs
    <2>5. dh[m] \in Seq(D) /\ IsInjective(dh[m]) /\ ToSet(dh[m]) = Children(q, m)
        BY <2>1, <2>2, <2>3, <2>4
    <2>6. Children(q, m) \subseteq D \ S
        BY <1>2 DEF Children
    <2>. QED  BY <2>5, <2>6, ListOver
<1>6. dh \in [D \ S -> Seq(D \ S)]
    BY <1>2, <1>5
<1>7. Linked(q, dh)
    BY <1>2, <1>3, <1>5, <1>6 DEF Linked
<1>. QED  BY <1>7 DEF q, dh, S

\* A new node has no content.
LEMMA SumGrown ==
    ASSUME NEW S, IsFiniteSet(S), NEW f \in [S -> Nat], NEW c, c \notin S
    PROVE  SumFunction(With(f, c, 0)) = SumFunction(f)
<1>. DEFINE g == With(f, c, 0)
<1>1. /\ DOMAIN g = S \cup {c} /\ g[c] = 0 /\ \A x \in S : g[x] = f[x]
      /\ (S \cup {c}) \ {c} = S
    BY DEF With
<1>. HIDE DEF g
<1>2. IsFiniteSet(S \cup {c}) /\ \A x \in S \cup {c} : g[x] \in Nat
    BY <1>1, FS_AddElement
<1>3. SumFunctionOnSet(g, S \cup {c}) = g[c] + SumFunctionOnSet(g, S)
    <2>1. c \in S \cup {c}
        OBVIOUS
    <2>. QED  BY <1>1, <1>2, <2>1, SumTakesOut
<1>4. SumFunctionOnSet(g, S) = SumFunctionOnSet(f, S)
    BY <1>1, SumSame
<1>5. SumFunctionOnSet(f, S) \in Nat
    BY SumIsNat
<1>6. SumFunctionOnSet(g, S \cup {c}) = SumFunctionOnSet(f, S)
    BY <1>1, <1>3, <1>4, <1>5
<1>. QED  BY <1>1, <1>6 DEF SumFunction, g

\* One node's content changes.
LEMMA SumUpdated ==
    ASSUME NEW S, IsFiniteSet(S), NEW f \in [S -> Nat], NEW x \in S, NEW v \in Nat
    PROVE  /\ f[x] <= SumFunction(f)
           /\ SumFunction([f EXCEPT ![x] = v]) = SumFunction(f) - f[x] + v
<1>. DEFINE g == [f EXCEPT ![x] = v]
            R == S \ {x}
<1>1. g \in [S -> Nat] /\ g[x] = v /\ \A y \in R : g[y] = f[y]
    OBVIOUS
<1>. HIDE DEF g
<1>2. IsFiniteSet(R)
    BY FS_Subset
<1>3. SumFunctionOnSet(f, S) = f[x] + SumFunctionOnSet(f, R)
    BY SumTakesOut
<1>4. SumFunctionOnSet(g, S) = g[x] + SumFunctionOnSet(g, R)
    BY <1>1, SumTakesOut
<1>. HIDE DEF R
<1>5. SumFunctionOnSet(g, R) = SumFunctionOnSet(f, R)
    BY <1>1, <1>2, SumSame
<1>6. SumFunctionOnSet(f, R) \in Nat
    BY <1>2, SumIsNat DEF R
<1>7. f[x] \in Nat
    OBVIOUS
<1>8. /\ f[x] <= SumFunctionOnSet(f, S)
      /\ SumFunctionOnSet(g, S) = SumFunctionOnSet(f, S) - f[x] + v
    BY ONLY <1>1, <1>3, <1>4, <1>5, <1>6, <1>7, v \in Nat
<1>. QED  BY <1>1, <1>8 DEF SumFunction, g

\* The content of the nodes of a removal is taken off.
LEMMA SumWithout ==
    ASSUME NEW S, IsFiniteSet(S), NEW f \in [S -> Nat], NEW R \in SUBSET S
    PROVE  /\ SumFunctionOnSet(f, R) \in Nat
           /\ SumFunction(Without(f, R)) \in Nat
           /\ SumFunction(f) = SumFunctionOnSet(f, R) + SumFunction(Without(f, R))
<1>. DEFINE g == Without(f, R)
<1>1. DOMAIN g = S \ R /\ \A x \in S \ R : g[x] = f[x]
    BY DEF Without
<1>. HIDE DEF g
<1>2. IsFiniteSet(R) /\ IsFiniteSet(S \ R)
    BY FS_Subset
<1>3. SumFunctionOnSet(f, S) = SumFunctionOnSet(f, R) + SumFunctionOnSet(f, S \ R)
    BY SumSplits
<1>4. SumFunctionOnSet(g, S \ R) = SumFunctionOnSet(f, S \ R)
    BY <1>1, <1>2, SumSame
<1>5. SumFunctionOnSet(f, R) \in Nat /\ SumFunctionOnSet(f, S \ R) \in Nat
    <2>1. \A x \in S : f[x] \in Nat
        OBVIOUS
    <2>. QED  BY <1>2, <2>1, SumIsNat
<1>. QED  BY <1>1, <1>3, <1>4, <1>5 DEF SumFunction, g

-----------------------------------------------------------------------------
(* Names.                                                                  *)

LEMMA LeastIs ==
    ASSUME NEW T \in SUBSET Nat, T # {}
    PROVE  \E k \in T : \A j \in T : k <= j
<1>. SUFFICES ASSUME \A k \in T : \E j \in T : ~(k <= j) PROVE FALSE
    OBVIOUS
<1>. DEFINE U == Nat \ T
<1>1. ASSUME NEW n \in Nat, \A m \in Nat : m < n => m \in U PROVE n \in U
    <2>. SUFFICES ASSUME n \in T PROVE FALSE
        OBVIOUS
    <2>1. PICK j \in T : ~(n <= j)
        OBVIOUS
    <2>2. j \in Nat /\ j < n
        BY <2>1
    <2>. QED  BY <1>1, <2>2
<1>2. U = Nat
    <2>1. U \in SUBSET Nat
        OBVIOUS
    <2>. HIDE DEF U
    <2>. QED  BY <1>1, <2>1, NumbersByDescent
<1>. QED  BY <1>2

\* A title, or its form that reads like no reference, is a name.
LEMMA DefaultNameIs ==
    ASSUME NEW title \in Titles
    PROVE  DefaultNodeName(title) \in Name
<1>1. title \in [slug : Slugs, tail : Seq(Nat)]
    BY NamesAssumption DEF Name
<1>2. "n-node" \in Slugs
    BY DEF Slugs
<1>3. [title EXCEPT !.slug = "n-node"] \in [slug : Slugs, tail : Seq(Nat)]
    BY <1>1, <1>2
<1>. QED  BY <1>1, <1>3 DEF DefaultNodeName, Name

\* The name of a new child is one no sibling has, or the empty one: among one
\* more number than there are children one is free.
LEMMA ChildNameIs ==
    ASSUME Links, NEW p \in Live, NEW title \in Titles
    PROVE  /\ DefaultChildName(p, title) \in Name
           /\ \/ DefaultChildName(p, title) = NoName
              \/ ~ SiblingNameInUse(p, NoNode, DefaultChildName(p, title))
<1>. DEFINE base == DefaultNodeName(title)
            numbered(k) == [base EXCEPT !.tail = Append(@, k)]
            L == Len(children[p])
            K == 2 .. L + 2
            free == {k \in K : ~ SiblingNameInUse(p, NoNode, numbered(k))}
<1>1. base \in Name
    BY DefaultNameIs
<1>2. L \in Nat /\ DOMAIN children[p] = 1 .. L
    BY DEF Links, Linked, Live
<1>3. ASSUME NEW k \in Nat PROVE numbered(k) \in Name /\ numbered(k).tail = Append(base.tail, k)
    <2>1. base \in [slug : Slugs, tail : Seq(Nat)]
        BY <1>1 DEF Name
    <2>2. base.tail \in Seq(Nat) /\ Append(base.tail, k) \in Seq(Nat)
        BY <2>1
    <2>3. numbered(k) \in [slug : Slugs, tail : Seq(Nat)] /\ numbered(k).tail = Append(base.tail, k)
        <3>. HIDE DEF base
        <3>. QED  BY ONLY <2>1, <2>2
    <2>. QED  BY <2>3 DEF Name
<1>4. base.tail \in Seq(Nat)
    BY <1>1 DEF Name
<1>. HIDE DEF base, L, numbered
<1>5. ASSUME NEW j \in K, NEW k \in K, numbered(j) = numbered(k) PROVE j = k
    <2>1. j \in Nat /\ k \in Nat
        BY <1>2
    <2>2. Append(base.tail, j) = Append(base.tail, k)
        BY <1>3, <1>5, <2>1
    <2>. QED  BY <1>4, <2>1, <2>2
<1>6. free # {}
    <2>. SUFFICES ASSUME free = {} PROVE FALSE
        OBVIOUS
    <2>1. \A k \in K : \E i \in 1 .. L : name[children[p][i]] = numbered(k)
        BY <1>2 DEF SiblingNameInUse, ToSet
    <2>. DEFINE f == [k \in K |-> CHOOSE i \in 1 .. L : name[children[p][i]] = numbered(k)]
    <2>2. f \in [K -> 1 .. L] /\ \A k \in K : name[children[p][f[k]]] = numbered(k)
        BY <2>1
    <2>3. /\ IsFiniteSet(K) /\ IsFiniteSet(1 .. L)
          /\ Cardinality(1 .. L) < Cardinality(K)
        <3>1. L \in Int /\ 1 \in Int /\ 2 \in Int /\ L + 2 \in Int
            BY <1>2
        <3>2. /\ IsFiniteSet(1 .. L) /\ Cardinality(1 .. L) = IF 1 > L THEN 0 ELSE L - 1 + 1
              /\ IsFiniteSet(2 .. L + 2) /\ Cardinality(2 .. L + 2) = IF 2 > L + 2 THEN 0 ELSE L + 2 - 2 + 1
            BY <3>1, FS_Interval
        <3>3. Cardinality(1 .. L) = L /\ Cardinality(2 .. L + 2) = L + 1
            BY ONLY <1>2, <3>2
        <3>. QED  BY <1>2, <3>2, <3>3
    <2>. DEFINE I == 1 .. L
    <2>4. f \in [K -> I] /\ IsFiniteSet(K) /\ IsFiniteSet(I) /\ Cardinality(I) < Cardinality(K)
        BY <2>2, <2>3
    <2>. HIDE DEF f, K, I
    <2>6. PICK j, k \in K : j # k /\ f[j] = f[k]
        BY <2>4, FS_PigeonHole
    <2>5. numbered(j) = numbered(k)
        BY <2>2, <2>6
    <2>. QED  BY <1>5, <2>5, <2>6
<1>. DEFINE k == CHOOSE k \in free : \A j \in free : k <= j
<1>7. k \in free
    <2>1. free \in SUBSET Nat
        BY <1>2
    <2>2. \E i \in free : \A j \in free : i <= j
        <3>. HIDE DEF free
        <3>. QED  BY <1>6, <2>1, LeastIs
    <2>. HIDE DEF free
    <2>. QED  BY <2>2
<1>8. k \in Nat /\ ~ SiblingNameInUse(p, NoNode, numbered(k))
    <2>. HIDE DEF k
    <2>. QED  BY <1>2, <1>7
<1>9. DefaultChildName(p, title) = IF base = NoName \/ ~ SiblingNameInUse(p, NoNode, base)
                                   THEN base ELSE numbered(k)
    BY DEF DefaultChildName, base, numbered, L
<1>. HIDE DEF k
<1>10. numbered(k) \in Name
    BY <1>3, <1>8
<1>. QED  BY <1>1, <1>8, <1>9, <1>10


-----------------------------------------------------------------------------
(* Selectors.                                                              *)

\* A step of a selector leads to a live node or nowhere.
LEMMA SegmentIs ==
    ASSUME Links, NEW p \in Live \cup {NoNode}, NEW m
    PROVE  ResolveSegment(p, m) \in Live \cup {NoNode}
<1>. DEFINE matches == {c \in ToSet(children[p]) : name[c] = m}
<1>1. CASE p \in Live
    <2>1. matches \subseteq Live
        BY <1>1 DEF Links, Linked, Live, Children
    <2>2. Cardinality(matches) = 1 => (CHOOSE c \in matches : TRUE) \in Live
        <3>1. IsFiniteSet(matches)
            BY <2>1, TreeIsFinite, FS_Subset DEF Links, Linked, Live
        <3>. HIDE DEF matches
        <3>2. Cardinality(matches) = 1 => \E x : matches = {x}
            BY <3>1, FS_Singleton
        <3>. QED  BY <2>1, <3>2
    <2>. QED  BY <2>2 DEF ResolveSegment, ResolveChild
<1>2. CASE p = NoNode
    BY <1>2 DEF ResolveSegment
<1>. QED  BY <1>1, <1>2

\* A selector is followed segment by segment.
ResolvesAlong(path, h) ==
    /\ h[0] = RootId /\ FoldLeft(ResolveSegment, RootId, path) = h[Len(path)]
    /\ \A i \in 1 .. Len(path) : h[i] = ResolveSegment(h[i - 1], path[i])

LEMMA ResolveSteps ==
    ASSUME Links, NEW Y, NEW path \in Seq(Y)
    PROVE  \E h \in [0 .. Len(path) -> Live \cup {NoNode}] : ResolvesAlong(path, h)
<1>. DEFINE n == Len(path)
            V == Live \cup {NoNode}
            I == 1 .. n
            D == SUBSET I
            Body(f) == [t \in D |-> IF t = {} THEN RootId ELSE ResolveSegment(f[t \ {Max(t)}], path[Max(t)])]
            iter == CHOOSE f : f = Body(f)
            step == [v \in V |-> [i \in 1 .. n |-> ResolveSegment(v, path[i])]]
<1>1. n \in Nat /\ DOMAIN path = 1 .. n
    OBVIOUS
<1>2. FoldLeft(ResolveSegment, RootId, path) = iter[1 .. n]
    BY <1>1 DEF FoldLeft, MapThenFoldSet
<1>3. step \in [V -> [1 .. n -> V]]
    BY SegmentIs
<1>4. PICK g \in [D -> V] : FillsTable(n, RootId, step, g)
    <2>1. RootId \in V
        BY DEF Links, Linked, IsTree, Live
    <2>. HIDE DEF n, step
    <2>. QED  BY <1>1, <1>3, <2>1, FoldTable
<1>5. ASSUME NEW t \in D
      PROVE  g[t] = IF t = {} THEN RootId ELSE ResolveSegment(g[t \ {Max(t)}], path[Max(t)])
    <2>1. CASE t = {}
        BY <1>4, <2>1 DEF FillsTable
    <2>2. CASE t # {}
        <3>1. Max(t) \in 1 .. n /\ g[t \ {Max(t)}] \in V /\ t \in SUBSET (1 .. n)
            BY <1>1, <2>2, MaxIs
        <3>. HIDE DEF n, D
        <3>2. step[g[t \ {Max(t)}]][Max(t)] = ResolveSegment(g[t \ {Max(t)}], path[Max(t)])
            BY <3>1
        <3>. HIDE DEF step
        <3>. QED  BY <1>4, <2>2, <3>1, <3>2 DEF FillsTable
    <2>. QED  BY <2>1, <2>2
<1>6. g = Body(g)
    <2>1. g = [t \in D |-> g[t]]
        OBVIOUS
    <2>. HIDE DEF D
    <2>. QED  BY <1>5, <2>1
<1>7. iter = Body(iter)
    <2>. HIDE DEF Body
    <2>. QED  BY <1>6
<1>. DEFINE T == {t \in D : iter[t] = g[t]}
<1>. HIDE DEF iter
<1>8. ASSUME NEW t \in D, \A u \in SUBSET t : u # t => u \in T PROVE t \in T
    <2>1. iter[t] = IF t = {} THEN RootId ELSE ResolveSegment(iter[t \ {Max(t)}], path[Max(t)])
        <3>. HIDE DEF D
        <3>. QED  BY <1>7
    <2>2. t # {} => t \ {Max(t)} \in SUBSET t /\ t \ {Max(t)} # t
        BY <1>1, MaxIs
    <2>3. t # {} => iter[t \ {Max(t)}] = g[t \ {Max(t)}]
        BY <1>8, <2>2
    <2>. HIDE DEF D
    <2>. QED  BY <1>5, <2>1, <2>3
<1>9. I \in T
    <2>1. IsFiniteSet(I)
        BY <1>1, FS_Interval
    <2>. HIDE DEF T, I
    <2>. QED  BY <1>8, <2>1, SubsetsByDescent
<1>10. PICK h \in [0 .. n -> V] : Steps(n, RootId, step, g, h)
    <2>. HIDE DEF n, step
    <2>. QED  BY <1>1, <1>4, TableSteps
<1>11. \A i \in 1 .. n : step[h[i - 1]][i] = ResolveSegment(h[i - 1], path[i])
    <2>. HIDE DEF n
    <2>1. \A i \in 1 .. n : i - 1 \in 0 .. n
        BY <1>1
    <2>. QED  BY <2>1
<1>12. FoldLeft(ResolveSegment, RootId, path) = h[n]
    <2>. HIDE DEF n, step
    <2>. QED  BY <1>2, <1>9, <1>10 DEF Steps
<1>. HIDE DEF step
<1>. QED  BY <1>10, <1>11, <1>12 DEF Steps, ResolvesAlong

LEMMA SelectorGrows ==
    ASSUME Links, NEW Y, NEW path \in Seq(Y), NEW m \in Y
    PROVE  ResolveSelector(Append(path, m)) = ResolveSegment(ResolveSelector(path), m)
<1>. DEFINE n == Len(path)
            long == Append(path, m)
<1>1. /\ n \in Nat /\ long \in Seq(Y) /\ Len(long) = n + 1 /\ long[n + 1] = m
      /\ \A i \in 1 .. n : long[i] = path[i]
    OBVIOUS
<1>. HIDE DEF long, n
<1>2. PICK h \in [0 .. n -> Live \cup {NoNode}] : ResolvesAlong(path, h)
    BY ResolveSteps DEF n
<1>3. PICK g \in [0 .. Len(long) -> Live \cup {NoNode}] : ResolvesAlong(long, g)
    BY <1>1, ResolveSteps
<1>4. /\ h[0] = RootId /\ ResolveSelector(path) = h[n]
      /\ \A i \in 1 .. n : h[i] = ResolveSegment(h[i - 1], path[i])
    BY <1>2 DEF ResolvesAlong, ResolveSelector, n
<1>5. /\ g[0] = RootId /\ ResolveSelector(long) = g[n + 1]
      /\ \A i \in 1 .. n + 1 : g[i] = ResolveSegment(g[i - 1], long[i])
    BY <1>1, <1>3 DEF ResolvesAlong, ResolveSelector
<1>. DEFINE T == {k \in Nat : k <= n => g[k] = h[k]}
<1>6. ASSUME NEW k \in Nat, \A j \in Nat : j < k => j \in T PROVE k \in T
    <2>. SUFFICES ASSUME k <= n PROVE g[k] = h[k]
        OBVIOUS
    <2>1. CASE k = 0
        BY <1>4, <1>5, <2>1
    <2>2. CASE k # 0
        <3>1. k \in 1 .. n /\ k \in 1 .. n + 1 /\ k - 1 \in Nat /\ k - 1 < k /\ k - 1 <= n
            BY <1>1, <2>2
        <3>2. g[k - 1] = h[k - 1]
            BY <1>6, <3>1
        <3>3. h[k] = ResolveSegment(h[k - 1], path[k]) /\ g[k] = ResolveSegment(g[k - 1], long[k])
            BY <1>4, <1>5, <3>1
        <3>. QED  BY <1>1, <3>1, <3>2, <3>3
    <2>. QED  BY <2>1, <2>2
<1>7. T = Nat
    <2>1. T \in SUBSET Nat
        OBVIOUS
    <2>. HIDE DEF T
    <2>. QED  BY <1>6, <2>1, NumbersByDescent
<1>8. g[n] = h[n]
    <2>1. n \in T
        <3>. HIDE DEF T
        <3>. QED  BY <1>1, <1>7
    <2>. QED  BY <1>1, <2>1
<1>9. g[n + 1] = ResolveSegment(g[n], m)
    <2>. DEFINE k == n + 1
    <2>1. k \in 1 .. k /\ k - 1 = n /\ long[k] = m
        BY <1>1
    <2>2. \A i \in 1 .. k : g[i] = ResolveSegment(g[i - 1], long[i])
        BY <1>5
    <2>3. g[k] = ResolveSegment(g[k - 1], long[k])
        <3>. HIDE DEF k
        <3>. QED  BY <2>1, <2>2
    <2>. QED  BY <2>1, <2>3
<1>. QED  BY <1>4, <1>5, <1>8, <1>9 DEF long

LEMMA EmptySelector == ASSUME Links PROVE ResolveSelector(<<>>) = RootId
<1>1. <<>> \in Seq({}) /\ Len(<<>>) = 0
    OBVIOUS
<1>2. PICK h \in [0 .. Len(<<>>) -> Live \cup {NoNode}] : ResolvesAlong(<<>>, h)
    BY <1>1, ResolveSteps
<1>. QED  BY <1>1, <1>2 DEF ResolvesAlong, ResolveSelector

\* The path to a node is the path to its parent and the node's own name.
LongerBy(n, h) ==
    h[n] = IF n = RootId THEN <<>> ELSE Append(h[parent[n]], name[n])

LEMMA PathTable ==
    ASSUME Links, name \in [Live -> Name]
    PROVE  \E h \in [Live -> Seq(Name)] : \A n \in Live : LongerBy(n, h)
<1>. DEFINE D == Live
            V == Seq(Name)
            mu == [n \in D |-> n]
            Value(n, g) == IF n = RootId THEN <<>> ELSE Append(g[parent[n]], name[n])
            F == [n \in D |-> [g \in [D -> V] |-> Value(n, g)]]
<1>1. PICK N \in Nat : D \subseteq 1 .. N
    BY DEF Links, Linked, IsTree, Live
<1>2. \A n \in D : name[n] \in Name /\ (n # RootId => parent[n] \in D /\ parent[n] < n)
    BY DEF Links, Linked, IsTree, Live
<1>. HIDE DEF D
<1>3. ASSUME NEW n \in D, NEW g \in [D -> V] PROVE F[n][g] = Value(n, g) /\ F[n][g] \in V
    <2>1. F[n][g] = Value(n, g)
        OBVIOUS
    <2>2. Value(n, g) \in V
        <3>1. CASE n = RootId
            BY <3>1
        <3>2. CASE n # RootId
            <4>1. g[parent[n]] \in Seq(Name) /\ name[n] \in Name
                BY <1>2, <3>2
            <4>2. Value(n, g) = Append(g[parent[n]], name[n])
                BY <3>2
            <4>. QED  BY <4>1, <4>2
        <3>. QED  BY <3>1, <3>2
    <2>. HIDE DEF F, Value
    <2>. QED  BY <2>1, <2>2
<1>4. LooksBelow(D, V, N, mu, F)
    <2>1. F \in [D -> [[D -> V] -> V]]
        <3>1. \A n \in D : F[n] = [g \in [D -> V] |-> F[n][g]]
            OBVIOUS
        <3>2. F = [n \in D |-> F[n]]
            OBVIOUS
        <3>. HIDE DEF F, V
        <3>. QED  BY <1>3, <3>1, <3>2
    <2>2. ASSUME NEW n \in D, NEW g \in [D -> V], NEW h \in [D -> V],
                 \A c \in D : mu[c] < mu[n] => g[c] = h[c]
          PROVE  F[n][g] = F[n][h]
        <3>1. n # RootId => g[parent[n]] = h[parent[n]]
            <4>1. n # RootId => parent[n] \in D /\ mu[parent[n]] < mu[n]
                BY <1>2
            <4>. HIDE DEF mu
            <4>. QED  BY <2>2, <4>1
        <3>2. Value(n, g) = Value(n, h)
            BY <3>1
        <3>. HIDE DEF F, Value
        <3>. QED  BY <1>3, <3>2
    <2>3. mu \in [D -> 0 .. N]
        BY <1>1
    <2>4. V # {} /\ N \in Nat
        <3>1. <<>> \in V
            OBVIOUS
        <3>. HIDE DEF V
        <3>. QED  BY <3>1
    <2>. HIDE DEF F, mu, V
    <2>. QED  BY <2>1, <2>2, <2>3, <2>4 DEF LooksBelow
<1>5. PICK h \in [D -> V] : \A n \in D : h[n] = F[n][h]
    <2>. HIDE DEF F, mu, V
    <2>. QED  BY <1>4, RecursionByMeasure
<1>6. \A n \in D : h[n] = Value(n, h)
    <2>. HIDE DEF F, V, Value
    <2>. QED  BY <1>3, <1>5
<1>. QED  BY <1>6 DEF D, LongerBy

LEMMA PathIs ==
    ASSUME Links, name \in [Live -> Name]
    PROVE  /\ PathTo(RootId) = <<>>
           /\ \A n \in Live : PathTo(n) \in Seq(Name)
           /\ \A n \in Live \ {RootId} : PathTo(n) = Append(PathTo(parent[n]), name[n])
<1>. DEFINE Value(n, f) == IF n = RootId THEN <<>> ELSE Append(f[parent[n]], name[n])
            Body(f) == [n \in Live |-> Value(n, f)]
            path == CHOOSE f : f = Body(f)
            T == {k \in Nat : k \in Live => path[k] \in Seq(Name)}
<1>1. /\ \A n \in Live : n \in Nat /\ name[n] \in Name
      /\ \A n \in Live \ {RootId} : parent[n] \in Live /\ parent[n] < n
      /\ RootId \in Live
    BY DEF Links, Linked, IsTree, Live
<1>2. \A n : PathTo(n) = path[n]
    BY DEF PathTo
<1>3. path = Body(path)
    <2>1. PICK h \in [Live -> Seq(Name)] : \A n \in Live : LongerBy(n, h)
        BY PathTable
    <2>2. h = [n \in Live |-> h[n]]
        OBVIOUS
    <2>3. h = Body(h)
        BY <2>1, <2>2 DEF LongerBy
    <2>. HIDE DEF Body
    <2>. QED  BY <2>3
<1>. HIDE DEF path
<1>4. /\ path[RootId] = <<>>
      /\ \A n \in Live \ {RootId} : path[n] = Append(path[parent[n]], name[n])
    <2>1. \A n \in Live : path[n] = Value(n, path)
        <3>. HIDE DEF Value
        <3>. QED  BY <1>3
    <2>. QED  BY <1>1, <2>1
<1>5. ASSUME NEW k \in Nat, \A j \in Nat : j < k => j \in T PROVE k \in T
    <2>. SUFFICES ASSUME k \in Live PROVE path[k] \in Seq(Name)
        OBVIOUS
    <2>1. CASE k = RootId
        <3>1. <<>> \in Seq(Name)
            OBVIOUS
        <3>. QED  BY <1>4, <2>1, <3>1
    <2>2. CASE k # RootId
        <3>1. parent[k] \in Live /\ parent[k] \in Nat /\ parent[k] < k
            BY <1>1, <2>2
        <3>2. path[parent[k]] \in Seq(Name) /\ name[k] \in Name
            BY <1>1, <1>5, <3>1
        <3>3. Append(path[parent[k]], name[k]) \in Seq(Name)
            BY ONLY <3>2
        <3>. QED  BY <1>4, <2>2, <3>3
    <2>. QED  BY <2>1, <2>2
<1>6. T = Nat
    <2>1. T \in SUBSET Nat
        OBVIOUS
    <2>. HIDE DEF T
    <2>. QED  BY <1>5, <2>1, NumbersByDescent
<1>7. \A n \in Live : path[n] \in Seq(Name)
    <2>1. \A n \in Live : n \in T
        <3>. HIDE DEF T
        <3>. QED  BY <1>1, <1>6
    <2>. QED  BY <2>1
<1>. QED  BY <1>1, <1>2, <1>4, <1>7

-----------------------------------------------------------------------------
(* The invariant.                                                          *)

\* No id was handed out yet that is not smaller than the next one.
Fresh == \A n \in Live : n < nextId

\* Two children of a node have the same name only when it is the empty one.
SiblingNames ==
    \A c, d \in Live \ {RootId} :
        c # d /\ parent[c] = parent[d] /\ name[c] = name[d] => name[c] = NoName

\* The counters agree with what they count.
Counts == liveCount = Cardinality(Live) /\ contentBytes = SumFunction(len)

\* The view names live nodes, and a node is elided at most once.
Views == viewRoot \in Live \cup {NoNode} /\ elided \in Seq(Live) /\ IsInjective(elided)

DocumentInv == TypeOK /\ Links /\ Fresh /\ SiblingNames /\ Counts /\ Views


LEMMA InitInv == Init => DocumentInv
<1>. SUFFICES ASSUME Init PROVE DocumentInv
    OBVIOUS
<1>. USE DEF Live, RootId, NoNode
<1>1. PICK m \in Titles : name = [n \in {RootId} |-> DefaultNodeName(m)]
    BY DEF Init
<1>2. DefaultNodeName(m) \in Name
    BY DefaultNameIs
<1>3. name \in [{1} -> Name]
    BY <1>1, <1>2
<1>4. MaxId \in Nat /\ MaxId >= 1 /\ MaxContentBytes \in Nat
    BY BoundsAssumption
<1>5. /\ parent = [n \in {1} |-> 0] /\ children = [n \in {1} |-> <<>>] /\ len = [n \in {1} |-> 0]
      /\ source = [n \in {1} |-> "none"] /\ lifecycle = [n \in {1} |-> "live"]
      /\ docLifecycle = "live" /\ viewRoot = 0 /\ elided = <<>> /\ contentBytes = 0
      /\ liveCount = 1 /\ nextId = 2
    BY DEF Init
<1>6. TypeOK
    <2>1. 1 \in 1 .. MaxId /\ 0 \in 0 .. MaxId /\ 0 \in 0 .. MaxContentBytes /\ 2 \in 2 .. MaxId + 1
        BY <1>4
    <2>2. "none" \in Sources /\ "live" \in Lifecycles
        BY DEF Sources, Lifecycles
    <2>. QED  BY <1>3, <1>5, <2>1, <2>2 DEF TypeOK
<1>7. Links
    <2>1. DOMAIN parent = {1} /\ {1} \subseteq 1 .. 1
        BY <1>5
    <2>2. IsTree(parent)
        BY <1>5, <2>1 DEF IsTree
    <2>3. Children(parent, 1) = {}
        BY <1>5 DEF Children
    <2>4. children \in [{1} -> Seq({1})]
        BY <1>5
    <2>5. IsInjective(<<>>) /\ ToSet(<<>>) = {} /\ children[1] = <<>>
        BY <1>5 DEF IsInjective, ToSet
    <2>. QED  BY <2>1, <2>2, <2>3, <2>4, <2>5 DEF Links, Linked
<1>8. Fresh /\ SiblingNames
    BY <1>5 DEF Fresh, SiblingNames
<1>9. Counts
    <2>1. Cardinality({1}) = 1 /\ IsFiniteSet({1}) /\ 1 \in {1} /\ {1} \ {1} = {}
        BY FS_Singleton
    <2>2. \A x \in {1} : len[x] \in Nat
        BY <1>5
    <2>3. SumFunctionOnSet(len, {1}) = len[1] + SumFunctionOnSet(len, {1} \ {1})
        BY <2>1, <2>2, SumTakesOut
    <2>4. SumFunctionOnSet(len, {}) = 0
        BY FS_EmptySet, SumUnfolds
    <2>5. DOMAIN parent = {1} /\ DOMAIN len = {1} /\ len[1] = 0
        BY <1>5
    <2>6. SumFunctionOnSet(len, {1}) = 0
        <3>1. SumFunctionOnSet(len, {1} \ {1}) = 0
            BY <2>1, <2>4, Zenon
        <3>. QED  BY ONLY <2>3, <2>5, <3>1
    <2>7. liveCount = Cardinality(DOMAIN parent) /\ contentBytes = SumFunctionOnSet(len, DOMAIN len)
        <3>1. liveCount = 1 /\ contentBytes = 0
            BY <1>5
        <3>. QED  BY ONLY <2>1, <2>5, <2>6, <3>1
    <2>. QED  BY <2>7 DEF Counts, SumFunction
<1>10. Views
    BY <1>5 DEF Views, IsInjective
<1>. QED  BY <1>6, <1>7, <1>8, <1>9, <1>10 DEF DocumentInv

\* The live nodes can be counted, and nothing is there of the other ids.
LEMMA LiveIs ==
    ASSUME DocumentInv
    PROVE  /\ IsFiniteSet(Live) /\ Live \subseteq Nat /\ NoNode \notin Live /\ RootId \in Live
           /\ nextId \notin Live /\ nextId \in Nat
           /\ \A n \in Live \ {RootId} : parent[n] \in Live
           /\ \A n \in Live : parent[n] # n
<1>1. IsTree(parent)
    BY DEF DocumentInv, Links, Linked
<1>2. Live \subseteq Nat /\ NoNode \notin Live /\ nextId \in Nat /\ nextId \notin Live
    BY DEF DocumentInv, TypeOK, Fresh, NoNode
<1>. QED  BY <1>1, <1>2, TreeIsFinite DEF IsTree, Live, RootId, NoNode

-----------------------------------------------------------------------------
(* Every operation keeps the invariant.                                    *)

\* What a table holds once an entry is added or some are taken out.
LEMMA WithIs ==
    ASSUME NEW D, NEW V, NEW f \in [D -> V], NEW c, NEW v \in V
    PROVE  With(f, c, v) \in [D \cup {c} -> V]
BY DEF With

LEMMA WithoutIs ==
    ASSUME NEW D, NEW V, NEW f \in [D -> V], NEW S
    PROVE  Without(f, S) \in [D \ S -> V]
BY DEF Without

\* A list over a set is one over a larger set.
LEMMA WiderList == ASSUME NEW S, NEW T, S \subseteq T PROVE \A s \in Seq(S) : s \in Seq(T)
OBVIOUS

LEMMA AppendKeeps ==
    ASSUME DocumentInv, NEW p, NEW title \in Titles, NEW from \in NewSources,
           AppendNode(p, title, from)
    PROVE  DocumentInv'
<1>. DEFINE id == nextId
<1>1. /\ IsFiniteSet(Live) /\ Live \subseteq Nat /\ NoNode \notin Live /\ RootId \in Live
      /\ id \notin Live /\ id \in Nat
      /\ \A n \in Live \ {RootId} : parent[n] \in Live
    BY LiveIs
<1>2. /\ id <= MaxId /\ nextId' = id + 1
      /\ UNCHANGED <<docLifecycle, viewRoot, elided, contentBytes>>
    BY DEF AppendNode, view
<1>3. id \in 1 .. MaxId /\ nextId' \in 2 .. MaxId + 1
    BY <1>2, BoundsAssumption DEF DocumentInv, TypeOK
<1>4. CASE p \notin Live
    <2>1. UNCHANGED <<parent, children, name, len, source, lifecycle, liveCount>>
        BY <1>4 DEF AppendNode, nodes
    <2>2. TypeOK'
        BY <1>2, <1>3, <2>1 DEF DocumentInv, TypeOK, Live
    <2>3. Fresh'
        BY <1>1, <1>2, <2>1 DEF DocumentInv, Fresh, Live
    <2>. QED  BY <1>2, <2>1, <2>2, <2>3 DEF DocumentInv, Links, SiblingNames, Counts, Views, Live
<1>5. CASE p \in Live
    <2>. DEFINE m == DefaultChildName(p, title)
    <2>1. /\ parent' = With(parent, id, p)
          /\ children' = With([children EXCEPT ![p] = Append(@, id)], id, <<>>)
          /\ name' = With(name, id, m)
          /\ len' = With(len, id, 0)
          /\ source' = With(source, id, from)
          /\ lifecycle' = With(lifecycle, id, "live")
          /\ liveCount' = liveCount + 1
        BY <1>5 DEF AppendNode, NextNodeId
    <2>2. m \in Name /\ (m = NoName \/ ~ SiblingNameInUse(p, NoNode, m))
        BY <1>5, ChildNameIs DEF DocumentInv
    <2>. HIDE DEF m
    <2>3. /\ Live' = Live \cup {id} /\ parent'[id] = p /\ \A n \in Live : parent'[n] = parent[n]
        BY <1>1, <2>1 DEF With, Live
    <2>4. Links'
        <3>1. \A n \in DOMAIN parent : n < id
            BY DEF DocumentInv, Fresh, Live
        <3>. HIDE DEF id
        <3>. QED  BY <1>1, <1>5, <2>1, <3>1, GrownLinks DEF DocumentInv, Links, Live
    <2>5. /\ name' \in [Live' -> Name] /\ len' \in [Live' -> Nat]
          /\ source' \in [Live' -> Sources] /\ lifecycle' \in [Live' -> Lifecycles]
        <3>1. 0 \in Nat /\ from \in Sources /\ "live" \in Lifecycles
            BY SourcesAssumption DEF Sources, Lifecycles
        <3>2. /\ name \in [Live -> Name] /\ len \in [Live -> Nat]
              /\ source \in [Live -> Sources] /\ lifecycle \in [Live -> Lifecycles]
            BY DEF DocumentInv, TypeOK
        <3>3. /\ With(name, id, m) \in [Live \cup {id} -> Name]
              /\ With(len, id, 0) \in [Live \cup {id} -> Nat]
              /\ With(source, id, from) \in [Live \cup {id} -> Sources]
              /\ With(lifecycle, id, "live") \in [Live \cup {id} -> Lifecycles]
            <4>. HIDE DEF id
            <4>. QED  BY <2>2, <3>1, <3>2, WithIs
        <3>. QED  BY <2>1, <2>3, <3>3
    <2>6. TypeOK'
        <3>1. Live' \subseteq 1 .. MaxId
            BY <1>3, <2>3 DEF DocumentInv, TypeOK
        <3>2. parent' \in [Live' -> 0 .. MaxId]
            <4>1. p \in 0 .. MaxId /\ parent \in [Live -> 0 .. MaxId]
                BY <1>5 DEF DocumentInv, TypeOK
            <4>2. With(parent, id, p) \in [Live \cup {id} -> 0 .. MaxId]
                BY <4>1, WithIs
            <4>. QED  BY <2>1, <2>3, <4>2
        <3>3. children' \in [Live' -> Seq(1 .. MaxId)]
            <4>1. children' \in [Live' -> Seq(Live')]
                BY <2>4 DEF Links, Linked, Live
            <4>2. \A s \in Seq(Live') : s \in Seq(1 .. MaxId)
                BY <3>1, WiderList
            <4>. QED  BY <4>1, <4>2
        <3>4. liveCount' \in Nat
            BY <2>1 DEF DocumentInv, TypeOK
        <3>. QED  BY <1>2, <1>3, <2>5, <3>1, <3>2, <3>3, <3>4 DEF DocumentInv, TypeOK
    <2>7. Fresh'
        BY <1>1, <1>2, <2>3 DEF DocumentInv, Fresh
    <2>8. SiblingNames'
        <3>1. name'[id] = m /\ \A n \in Live : name'[n] = name[n]
            <4>1. DOMAIN name = Live
                BY DEF DocumentInv, TypeOK
            <4>. QED  BY <1>1, <2>1, <4>1 DEF With
        <3>2. \A c \in Live \ {RootId} : parent[c] = p /\ name[c] = m => m = NoName
            <4>1. \A c \in Live : parent[c] = p => c \in ToSet(children[p]) \ {NoNode}
                BY <1>1, <1>5 DEF DocumentInv, Links, Linked, Children, Live
            <4>. QED  BY <1>5, <2>2, <4>1 DEF SiblingNameInUse
        <3>. QED  BY <2>3, <3>1, <3>2 DEF DocumentInv, SiblingNames
    <2>9. Counts'
        <3>1. Cardinality(Live \cup {id}) = Cardinality(Live) + 1
            BY <1>1, FS_AddElement
        <3>2. SumFunction(With(len, id, 0)) = SumFunction(len)
            <4>1. len \in [Live -> Nat]
                BY DEF DocumentInv, TypeOK
            <4>. HIDE DEF id
            <4>. QED  BY <1>1, <4>1, SumGrown
        <3>. QED  BY <1>2, <2>1, <2>3, <3>1, <3>2 DEF DocumentInv, Counts
    <2>10. Views'
        BY <1>2, <2>3 DEF DocumentInv, Views
    <2>. QED  BY <2>4, <2>6, <2>7, <2>8, <2>9, <2>10 DEF DocumentInv
<1>. QED  BY <1>4, <1>5

\* A node's content may change as far as the count of all bytes follows it.
LEMMA ContentKeeps ==
    ASSUME DocumentInv, NEW n \in Live, NEW bytes \in Nat,
           len' = [len EXCEPT ![n] = bytes],
           contentBytes' = contentBytes - len[n] + bytes, contentBytes' <= MaxContentBytes,
           source' \in [Live -> Sources], lifecycle' \in [Live -> Lifecycles],
           UNCHANGED <<parent, children, name, docLifecycle, view, liveCount, nextId>>
    PROVE  DocumentInv'
<1>1. Live' = Live /\ len \in [Live -> Nat] /\ IsFiniteSet(Live)
    BY LiveIs DEF DocumentInv, TypeOK, Live
<1>2. len[n] <= SumFunction(len) /\ SumFunction(len') = SumFunction(len) - len[n] + bytes
    BY <1>1, SumUpdated
<1>3. Counts'
    BY <1>1, <1>2 DEF DocumentInv, Counts
<1>4. contentBytes' \in 0 .. MaxContentBytes
    <2>1. contentBytes \in Nat /\ len[n] \in Nat /\ contentBytes = SumFunction(len)
        BY <1>1 DEF DocumentInv, TypeOK, Counts
    <2>. QED  BY <1>2, <2>1
<1>5. len' \in [Live -> Nat]
    BY <1>1
<1>6. TypeOK'
    BY <1>1, <1>4, <1>5 DEF DocumentInv, TypeOK, view
<1>7. Links' /\ Fresh' /\ SiblingNames' /\ Views'
    BY <1>1 DEF DocumentInv, Links, Fresh, SiblingNames, Views, view
<1>. QED  BY <1>3, <1>6, <1>7 DEF DocumentInv

LEMMA WriteKeeps ==
    ASSUME DocumentInv, NEW n, NEW bytes \in 0 .. MaxChunk,
           \/ AppendTextToNode(n, bytes) \/ SetNodeContent(n, bytes)
           \/ FreezeTerminalNode(n, bytes)
    PROVE  DocumentInv'
<1>1. /\ len \in [Live -> Nat] /\ contentBytes \in Nat /\ bytes \in Nat /\ MaxContentBytes \in Nat
      /\ source \in [Live -> Sources] /\ lifecycle \in [Live -> Lifecycles]
    BY BoundsAssumption DEF DocumentInv, TypeOK
<1>2. CASE AppendTextToNode(n, bytes)
    <2>1. n \in Live /\ len[n] \in Nat /\ len' = [len EXCEPT ![n] = len[n] + bytes]
        BY <1>1, <1>2 DEF AppendTextToNode
    <2>2. len[n] + bytes \in Nat
        BY <1>1, <2>1
    <2>3. /\ contentBytes' = contentBytes - len[n] + (len[n] + bytes)
          /\ contentBytes' <= MaxContentBytes
        BY <1>1, <1>2, <2>1 DEF AppendTextToNode
    <2>4. UNCHANGED <<parent, children, name, source, lifecycle, docLifecycle, view, liveCount, nextId>>
        BY <1>2 DEF AppendTextToNode
    <2>. QED  BY <1>1, <2>1, <2>2, <2>3, <2>4, ContentKeeps
<1>3. CASE SetNodeContent(n, bytes) \/ FreezeTerminalNode(n, bytes)
    <2>1. n \in Live /\ ReplaceContent(n, bytes)
        BY <1>3 DEF SetNodeContent, FreezeTerminalNode
    <2>2. /\ len' = [len EXCEPT ![n] = bytes] /\ len[n] \in Nat
          /\ contentBytes' = contentBytes - len[n] + bytes /\ contentBytes' <= MaxContentBytes
        <3>1. len[n] \in Nat
            BY <1>1, <2>1
        <3>. QED  BY <1>1, <2>1, <3>1 DEF ReplaceContent, ReplacementFits
    <2>3. source' \in [Live -> Sources] /\ lifecycle' \in [Live -> Lifecycles]
        <3>1. "terminal_artifact" \in Sources /\ "frozen" \in Lifecycles
            BY DEF Sources, Lifecycles
        <3>. QED  BY <1>1, <1>3, <2>1, <3>1 DEF SetNodeContent, FreezeTerminalNode
    <2>4. UNCHANGED <<parent, children, name, docLifecycle, view, liveCount, nextId>>
        BY <1>3 DEF SetNodeContent, FreezeTerminalNode
    <2>. QED  BY <1>1, <2>1, <2>2, <2>3, <2>4, ContentKeeps
<1>. QED  BY <1>2, <1>3

LEMMA RenameKeeps ==
    ASSUME DocumentInv, NEW n, NEW m \in NewNames, SetNodeName(n, m)
    PROVE  DocumentInv'
<1>1. /\ n \in Live /\ (m = NoName \/ ~ SiblingNameInUse(parent[n], n, m))
      /\ name' = [name EXCEPT ![n] = m]
      /\ UNCHANGED <<parent, children, len, source, lifecycle, docLifecycle, view,
                     contentBytes, liveCount, nextId>>
    BY DEF SetNodeName
<1>2. name \in [Live -> Name] /\ m \in Name /\ Live' = Live
    BY <1>1, NamesAssumption DEF DocumentInv, TypeOK, Live
<1>3. name' \in [Live -> Name] /\ name'[n] = m /\ \A c \in Live : c # n => name'[c] = name[c]
    BY <1>1, <1>2
<1>4. TypeOK'
    BY <1>1, <1>2, <1>3 DEF DocumentInv, TypeOK, view
<1>5. SiblingNames'
    <2>1. \A c \in Live \ {RootId} :
            c # n /\ n # RootId /\ parent[c] = parent[n] /\ name[c] = m => m = NoName
        <3>1. \A c \in Live \ {RootId} : parent[c] \in Live /\ c \in ToSet(children[parent[c]])
            BY LiveIs DEF DocumentInv, Links, Linked, Children, Live
        <3>. QED  BY <1>1, <3>1 DEF SiblingNameInUse
    <2>. QED  BY <1>1, <1>2, <1>3, <2>1 DEF DocumentInv, SiblingNames
<1>6. Links' /\ Fresh' /\ Counts' /\ Views'
    BY <1>1, <1>2 DEF DocumentInv, Links, Fresh, Counts, Views, view
<1>. QED  BY <1>4, <1>5, <1>6 DEF DocumentInv

\* The view shows a live node or none, and hides live nodes.
LEMMA ViewKeeps ==
    ASSUME DocumentInv, viewRoot' \in Live \cup {NoNode}, elided' \in Seq(Live), IsInjective(elided'),
           UNCHANGED <<nodes, docLifecycle, contentBytes, liveCount, nextId>>
    PROVE  DocumentInv'
<1>1. /\ UNCHANGED <<parent, children, name, len, source, lifecycle, docLifecycle, contentBytes,
                     liveCount, nextId>>
      /\ Live' = Live
    BY DEF nodes, Live
<1>2. viewRoot' \in 0 .. MaxId /\ elided' \in Seq(1 .. MaxId)
    <2>1. Live \subseteq 1 .. MaxId /\ MaxId \in Nat
        BY BoundsAssumption DEF DocumentInv, TypeOK
    <2>2. \A s \in Seq(Live) : s \in Seq(1 .. MaxId)
        BY <2>1, WiderList
    <2>. QED  BY <2>1, <2>2 DEF NoNode
<1>3. TypeOK'
    BY <1>1, <1>2 DEF DocumentInv, TypeOK
<1>4. Links' /\ Fresh' /\ SiblingNames' /\ Counts'
    BY <1>1 DEF DocumentInv, Links, Fresh, SiblingNames, Counts
<1>5. Views'
    BY <1>1 DEF Views
<1>. QED  BY <1>3, <1>4, <1>5 DEF DocumentInv

LEMMA ElideKeeps ==
    ASSUME DocumentInv, NEW n, NEW enabled \in BOOLEAN, SetElided(n, enabled)
    PROVE  DocumentInv'
<1>1. /\ n \in Live /\ viewRoot \in Live \cup {NoNode} /\ elided \in Seq(Live) /\ IsInjective(elided)
      /\ elided' = IF ~ enabled THEN SwapRemove(elided, n)
                   ELSE IF Contains(elided, n) THEN elided ELSE Append(elided, n)
      /\ UNCHANGED <<nodes, docLifecycle, viewRoot, contentBytes, liveCount, nextId>>
    BY DEF DocumentInv, Views, SetElided
<1>2. SwapRemove(elided, n) \in Seq(Live) /\ IsInjective(SwapRemove(elided, n))
    BY <1>1, SwapRemoveIs
<1>3. Append(elided, n) \in Seq(Live)
      /\ (~ Contains(elided, n) => IsInjective(Append(elided, n)))
    <2>1. ~ Contains(elided, n) => n \notin ToSet(elided)
        BY <1>1 DEF Contains, ToSet
    <2>. QED  BY <1>1, <2>1, AppendIs
<1>4. elided' \in Seq(Live) /\ IsInjective(elided')
    <2>1. CASE ~ enabled
        BY <1>1, <1>2, <2>1
    <2>2. CASE enabled /\ Contains(elided, n)
        BY <1>1, <2>2
    <2>3. CASE enabled /\ ~ Contains(elided, n)
        BY <1>1, <1>3, <2>3
    <2>. QED  BY <2>1, <2>2, <2>3
<1>. QED  BY <1>1, <1>4, ViewKeeps

\* What both removals do, with the list of nodes they go through.
Removes(n) ==
    \E order \in Seq(Live) :
        /\ IsInjective(order) /\ ToSet(order) = Subtree(parent, n)
        /\ RemoveDetached(n, order, Detach(n))
        /\ UNCHANGED <<docLifecycle, nextId>>

LEMMA RemovalKeeps ==
    ASSUME DocumentInv, NEW n \in Live \ {RootId}, Removes(n)
    PROVE  DocumentInv'
<1>1. PICK order \in Seq(Live) :
        /\ IsInjective(order) /\ ToSet(order) = Subtree(parent, n)
        /\ RemoveDetached(n, order, Detach(n))
        /\ UNCHANGED <<docLifecycle, nextId>>
    BY DEF Removes
<1>. DEFINE S == Subtree(parent, n)
<1>2. /\ parent' = Without(parent, S) /\ children' = Without(Detach(n), S)
      /\ name' = Without(name, S) /\ len' = Without(len, S)
      /\ source' = Without(source, S) /\ lifecycle' = Without(lifecycle, S)
      /\ liveCount' = liveCount - Len(order)
      /\ viewRoot' = IF viewRoot \in S THEN NoNode ELSE viewRoot
      /\ elided' = TakenOut(elided, order)
      /\ contentBytes' = contentBytes - TotalContentBytes(order)
      /\ UNCHANGED <<docLifecycle, nextId>>
    BY <1>1 DEF RemoveDetached, CountWithout, TakenOut
<1>3. /\ IsFiniteSet(Live) /\ n \in S /\ S \subseteq Live /\ DOMAIN parent = Live
      /\ len \in [Live -> Nat] /\ name \in [Live -> Name] /\ source \in [Live -> Sources]
      /\ lifecycle \in [Live -> Lifecycles]
    <2>1. S \subseteq DOMAIN parent /\ n \in S
        BY SubtreeIs DEF Live
    <2>. QED  BY <2>1, LiveIs DEF DocumentInv, TypeOK, Live
<1>4. Links'
    <2>1. Linked(parent, children) /\ n \in DOMAIN parent \ {RootId}
        BY DEF DocumentInv, Links, Live
    <2>2. Linked(Without(parent, Subtree(parent, n)),
                 Without([children EXCEPT ![parent[n]] = SwapRemove(@, n)], Subtree(parent, n)))
        BY <2>1, PrunedLinks
    <2>. QED  BY <1>2, <2>2 DEF Links, Detach
<1>. HIDE DEF S
<1>5. Live' = Live \ S /\ \A m \in Live \ S : parent'[m] = parent[m] /\ name'[m] = name[m]
    BY <1>2, <1>3 DEF Without, Live
<1>6. /\ name' \in [Live' -> Name] /\ len' \in [Live' -> Nat]
      /\ source' \in [Live' -> Sources] /\ lifecycle' \in [Live' -> Lifecycles]
    BY <1>2, <1>3, <1>5, WithoutIs
<1>7. Counts' /\ liveCount' \in Nat /\ contentBytes' \in 0 .. MaxContentBytes
    <2>1. \A x \in Live : len[x] \in Nat
        BY <1>3
    <2>2. /\ Cardinality(S) = Len(order)
          /\ SumFunction([i \in DOMAIN order |-> len[order[i]]]) = SumFunctionOnSet(len, S)
        BY <1>1, <1>3, <2>1, ListSums DEF S
    <2>3. /\ SumFunctionOnSet(len, S) \in Nat /\ SumFunction(len') \in Nat
          /\ SumFunction(len) = SumFunctionOnSet(len, S) + SumFunction(len')
        <3>1. /\ SumFunctionOnSet(len, S) \in Nat /\ SumFunction(Without(len, S)) \in Nat
              /\ SumFunction(len) = SumFunctionOnSet(len, S) + SumFunction(Without(len, S))
            <4>1. S \in SUBSET Live
                BY <1>3
            <4>. QED  BY <1>3, <4>1, SumWithout
        <3>. QED  BY <1>2, <3>1
    <2>4. Cardinality(Live \ S) = Cardinality(Live) - Cardinality(S) /\ Cardinality(Live \ S) \in Nat
        <3>1. Live \cap S = S
            BY <1>3
        <3>2. Cardinality(Live \ S) = Cardinality(Live) - Cardinality(Live \cap S) /\ IsFiniteSet(Live \ S)
            BY <1>3, FS_Difference
        <3>3. Cardinality(Live \ S) \in Nat
            BY <3>2, FS_CardinalityType
        <3>. QED  BY <3>1, <3>2, <3>3
    <2>5. liveCount' = Cardinality(Live')
        BY <1>2, <1>5, <2>2, <2>4 DEF DocumentInv, Counts
    <2>6. contentBytes' = SumFunction(len')
        BY <1>2, <2>2, <2>3 DEF DocumentInv, Counts, TotalContentBytes
    <2>7. contentBytes' \in 0 .. MaxContentBytes
        <3>1. SumFunction(len) <= MaxContentBytes /\ MaxContentBytes \in Nat
            BY BoundsAssumption DEF DocumentInv, TypeOK, Counts
        <3>. QED  BY <2>3, <2>6, <3>1
    <2>. QED  BY <1>5, <2>4, <2>5, <2>6, <2>7 DEF Counts
<1>8. Views' /\ elided' \in Seq(1 .. MaxId) /\ viewRoot' \in 0 .. MaxId
    <2>1. elided \in Seq(Live) /\ IsInjective(elided) /\ viewRoot \in Live \cup {NoNode}
        BY DEF DocumentInv, Views
    <2>2. elided' \in Seq(Live) /\ IsInjective(elided') /\ ToSet(elided') = ToSet(elided) \ S
        <3>1. /\ TakenOut(elided, order) \in Seq(Live) /\ IsInjective(TakenOut(elided, order))
              /\ ToSet(TakenOut(elided, order)) = ToSet(elided) \ ToSet(order)
            BY <2>1, SwapRemoveAll
        <3>2. ToSet(order) = S
            BY <1>1 DEF S
        <3>. QED  BY <1>2, <3>1, <3>2
    <2>3. ToSet(elided') \subseteq Live'
        <3>1. ToSet(elided) \subseteq Live
            BY <2>1 DEF ToSet
        <3>. QED  BY <1>5, <2>2, <3>1
    <2>4. elided' \in Seq(Live')
        BY <2>2, <2>3, ListOver
    <2>5. viewRoot' \in Live' \cup {NoNode}
        BY <1>2, <1>5, <2>1
    <2>6. Live' \subseteq 1 .. MaxId /\ MaxId \in Nat
        BY <1>5, BoundsAssumption DEF DocumentInv, TypeOK
    <2>7. \A s \in Seq(Live') : s \in Seq(1 .. MaxId)
        BY <2>6, WiderList
    <2>. QED  BY <2>2, <2>4, <2>5, <2>6, <2>7 DEF Views, NoNode
<1>9. TypeOK'
    <2>1. Live' \subseteq 1 .. MaxId
        BY <1>5 DEF DocumentInv, TypeOK
    <2>2. parent' \in [Live' -> 0 .. MaxId]
        <3>1. parent \in [Live -> 0 .. MaxId]
            BY DEF DocumentInv, TypeOK
        <3>. QED  BY <1>2, <1>5, <3>1, WithoutIs
    <2>3. children' \in [Live' -> Seq(1 .. MaxId)]
        <3>1. children' \in [Live' -> Seq(Live')]
            BY <1>4 DEF Links, Linked, Live
        <3>2. \A s \in Seq(Live') : s \in Seq(1 .. MaxId)
            BY <2>1, WiderList
        <3>. QED  BY <3>1, <3>2
    <2>. QED  BY <1>2, <1>6, <1>7, <1>8, <2>1, <2>2, <2>3 DEF DocumentInv, TypeOK
<1>10. Fresh' /\ SiblingNames'
    BY <1>2, <1>5 DEF DocumentInv, Fresh, SiblingNames
<1>. QED  BY <1>4, <1>7, <1>8, <1>9, <1>10 DEF DocumentInv

LEMMA RemoveNodeRemoves ==
    ASSUME DocumentInv, NEW n, RemoveNode(n) \/ RemoveSubtree(n)
    PROVE  n \in Live \ {RootId} /\ Removes(n)
<1>1. n \in Live \ {RootId} /\ UNCHANGED <<docLifecycle, nextId>>
    BY DEF RemoveNode, RemoveSubtree
<1>2. CASE RemoveNode(n)
    <2>. DEFINE order == <<n>>
    <2>1. children[n] = <<>> /\ RemoveDetached(n, order, Detach(n))
        BY <1>2 DEF RemoveNode
    <2>2. order \in Seq(Live) /\ IsInjective(order) /\ ToSet(order) = {n}
        BY <1>1 DEF IsInjective, ToSet
    <2>3. Children(parent, n) = {}
        <3>1. ToSet(children[n]) = {}
            BY <2>1 DEF ToSet
        <3>. QED  BY <1>1, <3>1 DEF DocumentInv, Links, Linked, Live
    <2>4. Subtree(parent, n) = {n}
        BY <1>1, <2>3, SubtreeOfLeaf DEF Live
    <2>. HIDE DEF order
    <2>. QED  BY <1>1, <2>1, <2>2, <2>4 DEF Removes
<1>3. CASE RemoveSubtree(n)
    <2>1. RemoveDetached(n, Postorder(n), Detach(n))
        BY <1>3 DEF RemoveSubtree
    <2>2. /\ Postorder(n) \in Seq(Live) /\ IsInjective(Postorder(n))
          /\ ToSet(Postorder(n)) = Subtree(parent, n)
        BY <1>1, PostorderIs DEF DocumentInv
    <2>. QED  BY <1>1, <2>1, <2>2 DEF Removes
<1>. QED  BY <1>1, <1>2, <1>3

LEMMA StepInv == DocumentInv /\ [Next]_vars => DocumentInv'
<1>. SUFFICES ASSUME DocumentInv, [Next]_vars PROVE DocumentInv'
    OBVIOUS
<1>1. ASSUME NEW p \in Ids, NEW title \in Titles, NEW from \in NewSources,
             AppendNode(p, title, from)
      PROVE  DocumentInv'
    BY <1>1, AppendKeeps
<1>2. ASSUME NEW n \in Ids, NEW bytes \in 0 .. MaxChunk,
             \/ AppendTextToNode(n, bytes) \/ SetNodeContent(n, bytes)
             \/ FreezeTerminalNode(n, bytes)
      PROVE  DocumentInv'
    BY <1>2, WriteKeeps
<1>3. ASSUME NEW n \in Ids, NEW m \in NewNames, SetNodeName(n, m) PROVE DocumentInv'
    BY <1>3, RenameKeeps
<1>4. ASSUME NEW n \in Ids, RemoveNode(n) \/ RemoveSubtree(n) PROVE DocumentInv'
    BY <1>4, RemoveNodeRemoves, RemovalKeeps
<1>5. ASSUME \/ \E n \in Ids : SetViewRoot(n)
             \/ ClearViewRoot \/ ResetView
      PROVE  DocumentInv'
    <2>1. /\ viewRoot' \in Live \cup {NoNode}
          /\ elided' \in Seq(Live) /\ IsInjective(elided')
        <3>1. elided \in Seq(Live) /\ IsInjective(elided) /\ <<>> \in Seq(Live) /\ IsInjective(<<>>)
            BY DEF DocumentInv, Views, IsInjective
        <3>2. viewRoot' \in Live \cup {NoNode} /\ (elided' = elided \/ elided' = <<>>)
            BY <1>5 DEF SetViewRoot, ClearViewRoot, ShowFrom, ResetView
        <3>. QED  BY <3>1, <3>2
    <2>2. UNCHANGED <<nodes, docLifecycle, contentBytes, liveCount, nextId>>
        BY <1>5 DEF SetViewRoot, ClearViewRoot, ShowFrom, ResetView
    <2>. QED  BY <2>1, <2>2, ViewKeeps
<1>6. ASSUME NEW n \in Ids, ToggleElided(n) \/ \E enabled \in BOOLEAN : SetElided(n, enabled)
      PROVE  DocumentInv'
    BY <1>6, ElideKeeps DEF ToggleElided
<1>7. CASE Freeze
    <2>1. UNCHANGED <<parent, children, name, len, source, lifecycle, viewRoot, elided,
                      contentBytes, liveCount, nextId>> /\ docLifecycle' \in Lifecycles
        BY <1>7 DEF Freeze, nodes, view, Lifecycles
    <2>. QED  BY <2>1 DEF DocumentInv, TypeOK, Links, Fresh, SiblingNames, Counts, Views, Live
<1>8. CASE UNCHANGED vars
    <2>1. UNCHANGED <<parent, children, name, len, source, lifecycle, docLifecycle, viewRoot, elided,
                      contentBytes, liveCount, nextId>>
        BY <1>8 DEF vars, nodes, view
    <2>. QED  BY <2>1 DEF DocumentInv, TypeOK, Links, Fresh, SiblingNames, Counts, Views, Live
<1>. QED  BY <1>1, <1>2, <1>3, <1>4, <1>5, <1>6, <1>7, <1>8 DEF Next

LEMMA DocumentInvariant == Spec => []DocumentInv
BY InitInv, StepInv, PTL DEF Spec

-----------------------------------------------------------------------------
(* What follows from it.                                                   *)

LEMMA InvValidates == DocumentInv => Validates
<1>. SUFFICES ASSUME DocumentInv PROVE Validates
    OBVIOUS
<1>1. /\ RootId \in Live /\ parent[RootId] = NoNode
      /\ \A n \in Live \ {RootId} : parent[n] \in Live
    BY LiveIs DEF DocumentInv, Links, Linked, IsTree, Live
<1>2. ASSUME NEW n \in Live
      PROVE  /\ IsInjective(children[n])
             /\ \A c \in ToSet(children[n]) : c \in Live /\ parent[c] = n
             /\ n # RootId => parent[n] \in Live /\ n \in ToSet(children[parent[n]])
    <2>1. \A m \in Live : IsInjective(children[m]) /\ ToSet(children[m]) = Children(parent, m)
        BY DEF DocumentInv, Links, Linked, Live
    <2>. QED  BY <1>1, <2>1 DEF Children, Live
<1>3. Subtree(parent, RootId) = Live
    BY AllBelowRoot DEF DocumentInv, Links, Linked, Live
<1>4. liveCount = Cardinality(Live) /\ contentBytes = SumFunction(len)
    BY DEF DocumentInv, Counts
<1>5. viewRoot \in Live \cup {NoNode} /\ ToSet(elided) \subseteq Live
    BY DEF DocumentInv, Views, ToSet
<1>. QED  BY <1>1, <1>2, <1>3, <1>4, <1>5 DEF Validates

\* A name that reads like no reference leads from a parent to the child that has it.
LEMMA NameLeads ==
    ASSUME DocumentInv, NEW n \in Live \ {RootId}, name[n] # NoName, ~ IsReference(name[n])
    PROVE  ResolveSegment(parent[n], name[n]) = n
<1>. DEFINE p == parent[n]
            matches == {c \in ToSet(children[p]) : name[c] = name[n]}
<1>1. p \in Live /\ p # NoNode /\ NoNode \notin Live
    BY LiveIs
<1>2. ToSet(children[p]) = Children(parent, p)
    BY <1>1 DEF DocumentInv, Links, Linked, Live
<1>3. matches = {n}
    <2>1. n \in matches
        BY <1>2 DEF Children, Live
    <2>2. ASSUME NEW c \in matches PROVE c = n
        <3>1. c \in Live /\ parent[c] = p /\ name[c] = name[n]
            BY <1>2 DEF Children, Live
        <3>2. c # RootId
            BY <1>1, <3>1 DEF DocumentInv, Links, Linked, IsTree
        <3>. QED  BY <3>1, <3>2 DEF DocumentInv, SiblingNames
    <2>. QED  BY <2>1, <2>2
<1>4. ResolveChild(p, name[n]) = n
    <2>1. Cardinality({n}) = 1 /\ (CHOOSE c \in {n} : TRUE) = n
        BY FS_Singleton
    <2>. QED  BY <1>3, <2>1 DEF ResolveChild
<1>. QED  BY <1>1, <1>4 DEF ResolveSegment

LEMMA InvPathsResolve == DocumentInv => NamedPathsResolve
<1>. SUFFICES ASSUME DocumentInv PROVE NamedPathsResolve
    OBVIOUS
<1>. DEFINE Plain(path) == \A i \in DOMAIN path : path[i] # NoName /\ ~ IsReference(path[i])
            Found(n) == Plain(PathTo(n)) => ResolveSelector(PathTo(n)) = n
            T == {k \in Nat : k \in Live => Found(k)}
<1>1. Links /\ name \in [Live -> Name]
    BY DEF DocumentInv, TypeOK
<1>2. /\ PathTo(RootId) = <<>>
      /\ \A n \in Live : PathTo(n) \in Seq(Name)
      /\ \A n \in Live \ {RootId} : PathTo(n) = Append(PathTo(parent[n]), name[n])
    BY <1>1, PathIs
<1>3. ASSUME NEW k \in Nat, \A j \in Nat : j < k => j \in T PROVE k \in T
    <2>. SUFFICES ASSUME k \in Live, Plain(PathTo(k)) PROVE ResolveSelector(PathTo(k)) = k
        OBVIOUS
    <2>1. CASE k = RootId
        BY <1>1, <1>2, <2>1, EmptySelector
    <2>2. CASE k # RootId
        <3>. DEFINE p == parent[k]
                    above == PathTo(p)
        <3>1. p \in Live /\ p \in Nat /\ p < k /\ name[k] \in Name
            BY <1>1, <2>2, LiveIs DEF Links, Linked, IsTree, Live
        <3>2. above \in Seq(Name) /\ PathTo(k) = Append(above, name[k])
            BY <1>2, <2>2, <3>1
        <3>. HIDE DEF above
        <3>3. /\ Len(above) + 1 \in DOMAIN PathTo(k) /\ PathTo(k)[Len(above) + 1] = name[k]
              /\ \A i \in DOMAIN above : i \in DOMAIN PathTo(k) /\ PathTo(k)[i] = above[i]
            BY <3>1, <3>2
        <3>4. Plain(above) /\ name[k] # NoName /\ ~ IsReference(name[k])
            BY <3>3
        <3>5. ResolveSelector(above) = p
            <4>1. Found(p)
                <5>. HIDE DEF Found, p
                <5>. QED  BY <1>3, <3>1
            <4>. HIDE DEF Plain
            <4>. QED  BY <3>4, <4>1 DEF above
        <3>6. ResolveSelector(PathTo(k)) = ResolveSegment(p, name[k])
            BY <1>1, <3>1, <3>2, <3>5, SelectorGrows
        <3>. QED  BY <2>2, <3>4, <3>6, NameLeads
    <2>. QED  BY <2>1, <2>2
<1>4. T = Nat
    <2>1. T \in SUBSET Nat
        OBVIOUS
    <2>. HIDE DEF T
    <2>. QED  BY <1>3, <2>1, NumbersByDescent
<1>5. ASSUME NEW n \in Live PROVE Found(n)
    <2>1. n \in Nat
        BY LiveIs
    <2>. HIDE DEF Found
    <2>. QED  BY <1>4, <2>1
<1>. QED  BY <1>5 DEF NamedPathsResolve

-----------------------------------------------------------------------------

\* Document's variables keep their types: ids stay within those handed out,
\* and content within the cap reserveAdditionalContentBytes enforces.
THEOREM DocumentTypes == Spec => []TypeOK
<1>1. DocumentInv => TypeOK
    BY DEF DocumentInv
<1>. QED  BY <1>1, DocumentInvariant, PTL

\* Document.validate passes after any calls: parents and children agree, the
\* nodes and bytes are those counted, and the view names live nodes.
THEOREM DocumentValidates == Spec => []Validates
BY InvValidates, DocumentInvariant, PTL

\* A selector made of the names on the way to a node finds the node, however
\* its siblings were named, renamed and removed.
THEOREM PathsResolve == Spec => []NamedPathsResolve
BY InvPathsResolve, DocumentInvariant, PTL
=============================================================================

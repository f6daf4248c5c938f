--------------------------- MODULE TtyStreamProofs ---------------------------
(***************************************************************************)
(* Proofs about TtyStream for any size of the queue and any chunks.        *)
(*                                                                         *)
(* ThreadInv says where the two threads can be, and BytesInv what the      *)
(* count of queued bytes is; LossInv follows the data and the markers on   *)
(* their way to the client, also while a chunk is being queued.            *)
(***************************************************************************)
EXTENDS TtyStream, SequenceTheorems, WellFoundedInduction, TLAPS

-----------------------------------------------------------------------------
(* Induction over the numbers, with a set in the place of a predicate.     *)

\* Every set of numbers has a least one.
LEMMA LeastNumber ==
    ASSUME NEW T \in SUBSET Nat, T # {}
    PROVE  \E m \in T : \A n \in T : m <= n
<1>. DEFINE R == OpToRel(<, Nat)
<1>1. IsWellFoundedOn(R, Nat)
    BY NatLessThanWellFounded
<1>2. PICK m \in T : \A n \in T : <<n, m>> \notin R
    <2>. HIDE DEF R
    <2>. QED  BY <1>1, WFMin
<1>3. ASSUME NEW n \in T PROVE m <= n
    <2>1. ~ n < m
        BY <1>2 DEF OpToRel
    <2>. QED  BY <2>1
<1>. QED  BY <1>3

\* A set with 0 and the successors of its members has all numbers.
LEMMA NumbersByInduction ==
    ASSUME NEW T \in SUBSET Nat, 0 \in T, \A n \in T : n + 1 \in T
    PROVE  T = Nat
<1>. SUFFICES ASSUME Nat \ T # {} PROVE FALSE
    OBVIOUS
<1>1. PICK m \in Nat \ T : \A n \in Nat \ T : m <= n
    BY LeastNumber
<1>2. m - 1 \in T
    BY <1>1
<1>. QED  BY <1>1, <1>2

-----------------------------------------------------------------------------
(* The bytes of a queue.                                                   *)

\* f has the sums of the sizes up to each place of q.
IsSum(f, q) == f[0] = 0 /\ \A k \in 1 .. Len(q) : f[k] = f[k - 1] + q[k].size

LEMMA ItemSizes ==
    /\ Overflow \in Item /\ Overflow.size = 0 /\ Overflow.id = 0
    /\ \A i \in Item : i.size \in 0 .. MaxQueueBytes /\ i.id \in 0 .. MaxChunks
    /\ \A i \in Item : IsData(i) => i.id \in 1 .. MaxChunks /\ i.size \in ChunkSizes
    /\ \A i \in Item : ~ IsData(i) => i.id = 0 /\ i.size = 0
<1>1. Overflow \in Item /\ Overflow.size = 0 /\ Overflow.id = 0
    BY DEF Item, Overflow
<1>2. ASSUME NEW i \in Item, IsData(i)
      PROVE  i.id \in 1 .. MaxChunks /\ i.size \in ChunkSizes
    BY <1>2 DEF Item, IsData
<1>3. ChunkSizes \subseteq 0 .. MaxQueueBytes /\ 1 .. MaxChunks \subseteq 0 .. MaxChunks
      /\ 0 \in 0 .. MaxQueueBytes /\ 0 \in 0 .. MaxChunks
    BY SizesAssumption
<1>. QED  BY <1>1, <1>2, <1>3 DEF IsData

\* Every queue has such sums.
LEMMA SumExists ==
    ASSUME NEW q \in Seq(Item)
    PROVE  \E f \in [0 .. Len(q) -> Nat] : IsSum(f, q)
<1>. DEFINE Upto(m) == \E f \in [0 .. m -> Nat] :
                           f[0] = 0 /\ \A k \in 1 .. m : f[k] = f[k - 1] + q[k].size
            T == {m \in Nat : m <= Len(q) => Upto(m)}
<1>1. 0 \in T
    <2>. DEFINE g == [k \in 0 .. 0 |-> 0]
    <2>1. g \in [0 .. 0 -> Nat] /\ g[0] = 0 /\ \A k \in 1 .. 0 : FALSE
        OBVIOUS
    <2>. HIDE DEF g
    <2>2. Upto(0)
        BY <2>1
    <2>. HIDE DEF Upto
    <2>. QED  BY <2>2
<1>2. ASSUME NEW m \in T PROVE m + 1 \in T
    <2>1. SUFFICES ASSUME m + 1 <= Len(q) PROVE Upto(m + 1)
        <3>. HIDE DEF Upto
        <3>. QED  BY <1>2
    <2>2. m \in Nat /\ Len(q) \in Nat
        <3>. HIDE DEF Upto
        <3>. QED  BY <1>2
    <2>3. PICK f \in [0 .. m -> Nat] : f[0] = 0 /\ \A k \in 1 .. m : f[k] = f[k - 1] + q[k].size
        BY <2>1, <2>2
    <2>4. q[m + 1].size \in Nat
        BY <2>1, <2>2, ItemSizes
    <2>. DEFINE g == [k \in 0 .. m + 1 |-> IF k = m + 1 THEN f[m] + q[m + 1].size ELSE f[k]]
    <2>5. g \in [0 .. m + 1 -> Nat]
        BY <2>2, <2>3, <2>4
    <2>6. g[0] = 0
        BY <2>2, <2>3
    <2>7. ASSUME NEW k \in 1 .. m + 1 PROVE g[k] = g[k - 1] + q[k].size
        <3>1. CASE k = m + 1
            <4>1. g[k] = f[m] + q[k].size /\ g[k - 1] = f[m]
                BY <2>2, <3>1
            <4>. QED  BY <4>1
        <3>2. CASE k \in 1 .. m
            <4>1. g[k] = f[k] /\ g[k - 1] = f[k - 1]
                BY <2>2, <3>2
            <4>. QED  BY <2>3, <3>2, <4>1
        <3>. QED  BY <2>2, <3>1, <3>2
    <2>. HIDE DEF g
    <2>. QED  BY <2>5, <2>6, <2>7
<1>3. T = Nat
    <2>. HIDE DEF T
    <2>1. T \in SUBSET Nat
        BY DEF T
    <2>. QED  BY <1>1, <1>2, <2>1, NumbersByInduction
<1>4. Upto(Len(q))
    <2>. HIDE DEF Upto
    <2>1. Len(q) \in Nat
        OBVIOUS
    <2>. QED  BY <1>3, <2>1
<1>. QED  BY <1>4 DEF IsSum

\* Whatever has the sums of q ends with its bytes.
LEMMA BytesIs ==
    ASSUME NEW q \in Seq(Item), NEW f \in [0 .. Len(q) -> Int], IsSum(f, q)
    PROVE  Bytes(q) = f[Len(q)]
<1>. DEFINE Body(g) == [k \in 0 .. Len(q) |-> IF k = 0 THEN 0 ELSE g[k - 1] + q[k].size]
            sum == CHOOSE g : g = Body(g)
            T == {m \in Nat : m <= Len(q) => sum[m] = f[m]}
<1>1. Len(q) \in Nat
    OBVIOUS
<1>2. f = Body(f)
    <2>1. \A k \in 0 .. Len(q) : f[k] = Body(f)[k]
        BY <1>1 DEF IsSum
    <2>. QED  BY <2>1
<1>3. sum = Body(sum)
    <2>. HIDE DEF Body
    <2>. QED  BY <1>2
<1>4. \A k \in 0 .. Len(q) : sum[k] = IF k = 0 THEN 0 ELSE sum[k - 1] + q[k].size
    <2>. HIDE DEF sum
    <2>. QED  BY <1>3
<1>. HIDE DEF sum
<1>5. 0 \in T
    BY <1>1, <1>4 DEF IsSum
<1>6. ASSUME NEW m \in T PROVE m + 1 \in T
    <2>1. SUFFICES ASSUME m + 1 <= Len(q) PROVE sum[m + 1] = f[m + 1]
        OBVIOUS
    <2>2. m \in Nat /\ sum[m] = f[m] /\ m + 1 \in 1 .. Len(q) /\ (m + 1) - 1 = m
        BY <1>1, <2>1
    <2>3. sum[m + 1] = sum[m] + q[m + 1].size
        BY <1>1, <1>4, <2>2
    <2>4. f[m + 1] = f[m] + q[m + 1].size
        BY <2>2 DEF IsSum
    <2>. QED  BY <2>2, <2>3, <2>4
<1>7. T = Nat
    <2>. HIDE DEF T
    <2>1. T \in SUBSET Nat
        BY DEF T
    <2>. QED  BY <1>5, <1>6, <2>1, NumbersByInduction
<1>8. sum[Len(q)] = f[Len(q)]
    BY <1>1, <1>7
<1>9. Bytes(q) = sum[Len(q)]
    BY DEF Bytes, sum
<1>. QED  BY <1>8, <1>9

\* A place in the second of two sequences joined.
LEMMA Behind ==
    ASSUME NEW S, NEW s \in Seq(S), NEW t \in Seq(S), NEW k \in 1 .. Len(t)
    PROVE  (s \o t)[Len(s) + k] = t[k]
<1>1. Len(s) \in Nat /\ Len(t) \in Nat
    OBVIOUS
<1>. QED  BY <1>1

\* A sequence without one of its items: those behind it move up.
LEMMA RemoveAtIs ==
    ASSUME NEW S, NEW s \in Seq(S), NEW i \in DOMAIN s
    PROVE  /\ RemoveAt(s, i) \in Seq(S) /\ Len(RemoveAt(s, i)) = Len(s) - 1
           /\ \A j \in 1 .. Len(s) - 1 :
                 RemoveAt(s, i)[j] = IF j < i THEN s[j] ELSE s[j + 1]
<1>. DEFINE front == SubSeq(s, 1, i - 1)
            back == SubSeq(s, i + 1, Len(s))
<1>1. i \in 1 .. Len(s) /\ Len(s) \in Nat
    OBVIOUS
<1>2. /\ front \in Seq(S) /\ Len(front) = i - 1
      /\ \A j \in 1 .. i - 1 : front[j] = s[j]
    BY <1>1
<1>3. /\ back \in Seq(S) /\ Len(back) = Len(s) - i
      /\ \A j \in 1 .. Len(s) - i : back[j] = s[i + j]
    BY <1>1
<1>4. RemoveAt(s, i) = front \o back
    BY DEF RemoveAt
<1>. HIDE DEF front, back
<1>5. /\ front \o back \in Seq(S) /\ Len(front \o back) = Len(s) - 1
      /\ \A j \in 1 .. i - 1 : (front \o back)[j] = front[j]
      /\ \A k \in 1 .. Len(s) - i : (front \o back)[(i - 1) + k] = back[k]
    <2>1. front \o back \in Seq(S) /\ Len(front \o back) = Len(s) - 1
        BY <1>1, <1>2, <1>3
    <2>2. ASSUME NEW j \in 1 .. i - 1 PROVE (front \o back)[j] = front[j]
        BY <1>1, <1>2, <1>3
    <2>3. ASSUME NEW k \in 1 .. Len(s) - i PROVE (front \o back)[(i - 1) + k] = back[k]
        <3>1. (front \o back)[Len(front) + k] = back[k]
            <4>1. front \in Seq(S) /\ back \in Seq(S) /\ k \in 1 .. Len(back)
                BY <1>2, <1>3
            <4>. QED  BY ONLY <4>1, Behind
        <3>. QED  BY <1>2, <3>1
    <2>. QED  BY <2>1, <2>2, <2>3
<1>6. ASSUME NEW j \in 1 .. Len(s) - 1
      PROVE  (front \o back)[j] = IF j < i THEN s[j] ELSE s[j + 1]
    <2>1. CASE j < i
        BY <1>1, <1>2, <1>5, <2>1
    <2>2. CASE ~ (j < i)
        <3>1. PICK k \in 1 .. Len(s) - i : (i - 1) + k = j
            <4>1. j - (i - 1) \in 1 .. Len(s) - i /\ (i - 1) + (j - (i - 1)) = j
                BY <1>1, <2>2
            <4>. QED  BY <4>1
        <3>2. (front \o back)[j] = back[k]
            BY <1>5, <3>1
        <3>3. back[k] = s[i + k] /\ i + k = j + 1
            BY <1>1, <1>3, <3>1
        <3>. QED  BY <2>2, <3>2, <3>3
    <2>. QED  BY <2>1, <2>2
<1>. QED  BY <1>4, <1>5, <1>6

\* The bytes of a queue are a number, of an empty one 0.
LEMMA BytesNat == \A q \in Seq(Item) : Bytes(q) \in Nat
<1>. SUFFICES ASSUME NEW q \in Seq(Item) PROVE Bytes(q) \in Nat
    OBVIOUS
<1>1. PICK f \in [0 .. Len(q) -> Nat] : IsSum(f, q)
    BY SumExists
<1>2. f \in [0 .. Len(q) -> Int] /\ f[Len(q)] \in Nat
    BY <1>1
<1>. QED  BY <1>1, <1>2, BytesIs

\* Markers have no bytes.
LEMMA BytesNothing ==
    ASSUME NEW q \in Seq(Item), \A i \in DOMAIN q : ~ IsData(q[i])
    PROVE  Bytes(q) = 0
<1>. DEFINE f == [k \in 0 .. Len(q) |-> 0]
<1>1. \A i \in 1 .. Len(q) : q[i].size = 0
    BY ItemSizes
<1>2. Len(q) \in Nat
    OBVIOUS
<1>3. f \in [0 .. Len(q) -> Int] /\ \A k \in 0 .. Len(q) : f[k] = 0
    OBVIOUS
<1>. HIDE DEF f
<1>4. IsSum(f, q) /\ f[Len(q)] = 0
    BY <1>1, <1>2, <1>3 DEF IsSum
<1>. QED  BY <1>3, <1>4, BytesIs

LEMMA BytesAppend ==
    ASSUME NEW q \in Seq(Item), NEW x \in Item
    PROVE  Bytes(Append(q, x)) = Bytes(q) + x.size
<1>1. PICK f \in [0 .. Len(q) -> Nat] : IsSum(f, q)
    BY SumExists
<1>2. Len(q) \in Nat /\ x.size \in Nat
    BY ItemSizes
<1>3. Bytes(q) = f[Len(q)]
    <2>1. f \in [0 .. Len(q) -> Int]
        BY <1>1
    <2>. QED  BY <1>1, <2>1, BytesIs
<1>. DEFINE r == Append(q, x)
            g == [k \in 0 .. Len(q) + 1 |-> IF k = Len(q) + 1 THEN f[Len(q)] + x.size ELSE f[k]]
<1>4. /\ r \in Seq(Item) /\ Len(r) = Len(q) + 1
      /\ r[Len(q) + 1] = x /\ \A k \in 1 .. Len(q) : r[k] = q[k]
    BY <1>2
<1>5. /\ g \in [0 .. Len(q) + 1 -> Int] /\ g[Len(q) + 1] = f[Len(q)] + x.size
      /\ \A k \in 0 .. Len(q) : g[k] = f[k]
    BY <1>1, <1>2
<1>. HIDE DEF r, g
<1>6. ASSUME NEW k \in 1 .. Len(r) PROVE g[k] = g[k - 1] + r[k].size
    <2>1. CASE k = Len(q) + 1
        BY <1>2, <1>4, <1>5, <2>1
    <2>2. CASE k \in 1 .. Len(q)
        <3>1. k \in 0 .. Len(q) /\ k - 1 \in 0 .. Len(q)
            BY <1>2, <2>2
        <3>2. g[k] = f[k] /\ g[k - 1] = f[k - 1] /\ r[k] = q[k]
            BY <1>4, <1>5, <2>2, <3>1
        <3>. QED  BY <1>1, <2>2, <3>2 DEF IsSum
    <2>. QED  BY <1>2, <1>4, <2>1, <2>2
<1>7. g[0] = 0
    BY <1>1, <1>2, <1>5 DEF IsSum
<1>8. Bytes(r) = g[Len(r)]
    BY <1>4, <1>5, <1>6, <1>7, BytesIs DEF IsSum
<1>. QED  BY <1>3, <1>4, <1>5, <1>8 DEF r

LEMMA BytesRemoved ==
    ASSUME NEW q \in Seq(Item), NEW i \in DOMAIN q
    PROVE  Bytes(RemoveAt(q, i)) = Bytes(q) - q[i].size
<1>1. PICK f \in [0 .. Len(q) -> Nat] : IsSum(f, q)
    BY SumExists
<1>2. Len(q) \in Nat /\ i \in 1 .. Len(q) /\ q[i].size \in Nat
    BY ItemSizes
<1>3. Bytes(q) = f[Len(q)]
    <2>1. f \in [0 .. Len(q) -> Int]
        BY <1>1
    <2>. QED  BY <1>1, <2>1, BytesIs
<1>. DEFINE r == RemoveAt(q, i)
            g == [k \in 0 .. Len(q) - 1 |-> IF k < i THEN f[k] ELSE f[k + 1] - q[i].size]
<1>4. /\ r \in Seq(Item) /\ Len(r) = Len(q) - 1
      /\ \A k \in 1 .. Len(q) - 1 : r[k] = IF k < i THEN q[k] ELSE q[k + 1]
    BY RemoveAtIs
<1>5. /\ g \in [0 .. Len(q) - 1 -> Int]
      /\ \A k \in 0 .. Len(q) - 1 : g[k] = IF k < i THEN f[k] ELSE f[k + 1] - q[i].size
    BY <1>1, <1>2
<1>. HIDE DEF r, g
<1>6. \A k \in 1 .. Len(q) : f[k] = f[k - 1] + q[k].size
    BY <1>1 DEF IsSum
<1>7. \A k \in 0 .. Len(q) : f[k] \in Nat
    BY <1>1
<1>8. \A k \in 1 .. Len(q) : q[k].size \in Nat
    BY ItemSizes
<1>9. ASSUME NEW k \in 1 .. Len(r) PROVE g[k] = g[k - 1] + r[k].size
    <2>1. k \in 1 .. Len(q) - 1 /\ k - 1 \in 0 .. Len(q) - 1 /\ k \in 0 .. Len(q) - 1
          /\ k + 1 \in 1 .. Len(q) /\ (k + 1) - 1 = k /\ (k - 1) + 1 = k
        BY <1>2, <1>4
    <2>2. g[k] = IF k < i THEN f[k] ELSE f[k + 1] - q[i].size
        BY <1>5, <2>1
    <2>3. g[k - 1] = IF k - 1 < i THEN f[k - 1] ELSE f[k] - q[i].size
        BY <1>5, <2>1
    <2>4. r[k] = IF k < i THEN q[k] ELSE q[k + 1]
        BY <1>4, <2>1
    <2>5. f[k] = f[k - 1] + q[k].size /\ f[k + 1] = f[k] + q[k + 1].size
        <3>1. k \in 1 .. Len(q)
            BY <1>2, <2>1
        <3>2. f[k] = f[k - 1] + q[k].size
            BY <1>6, <3>1
        <3>3. f[k + 1] = f[(k + 1) - 1] + q[k + 1].size
            BY <1>6, <2>1
        <3>. QED  BY <2>1, <3>2, <3>3
    <2>6. f[k] \in Nat /\ f[k - 1] \in Nat
        <3>1. k \in 0 .. Len(q) /\ k - 1 \in 0 .. Len(q)
            BY <1>2, <2>1
        <3>. QED  BY <1>7, <3>1
    <2>7. q[k].size \in Nat /\ q[k + 1].size \in Nat
        <3>1. k \in 1 .. Len(q)
            BY <1>2, <2>1
        <3>. QED  BY <1>8, <2>1, <3>1
    <2>8. k \in Int /\ i \in Int
        BY <1>2, <2>1
    <2>9. CASE k < i
        <3>1. g[k] = f[k] /\ g[k - 1] = f[k - 1] /\ r[k] = q[k]
            BY ONLY <2>2, <2>3, <2>4, <2>8, <2>9
        <3>. QED  BY ONLY <2>5, <3>1
    <2>10. CASE k = i
        <3>1. g[k] = f[k + 1] - q[k].size /\ g[k - 1] = f[k - 1] /\ r[k] = q[k + 1]
            BY ONLY <2>2, <2>3, <2>4, <2>8, <2>10
        <3>2. ((f[k - 1] + q[k].size) + q[k + 1].size) - q[k].size = f[k - 1] + q[k + 1].size
            <4>1. \A a, b, c \in Nat : ((a + b) + c) - b = a + c
                OBVIOUS
            <4>. QED  BY <2>6, <2>7, <4>1, Zenon
        <3>. QED  BY <2>5, <3>1, <3>2, Zenon
    <2>11. CASE k > i
        <3>1. g[k] = f[k + 1] - q[i].size /\ g[k - 1] = f[k] - q[i].size /\ r[k] = q[k + 1]
            BY ONLY <2>2, <2>3, <2>4, <2>8, <2>11
        <3>2. q[i].size \in Nat
            BY <1>2
        <3>3. (f[k] + q[k + 1].size) - q[i].size = (f[k] - q[i].size) + q[k + 1].size
            <4>1. \A a, b, c \in Nat : (a + b) - c = (a - c) + b
                OBVIOUS
            <4>. QED  BY <2>6, <2>7, <3>2, <4>1, Zenon
        <3>. QED  BY <2>5, <3>1, <3>3, Zenon
    <2>. QED  BY <2>8, <2>9, <2>10, <2>11
<1>10. g[0] = 0
    BY <1>1, <1>2, <1>5 DEF IsSum
<1>11. Bytes(r) = g[Len(r)]
    BY <1>4, <1>5, <1>9, <1>10, BytesIs DEF IsSum
<1>12. g[Len(q) - 1] = f[Len(q)] - q[i].size
    <2>1. CASE i = Len(q)
        <3>1. g[Len(q) - 1] = f[Len(q) - 1] /\ f[Len(q)] = f[Len(q) - 1] + q[Len(q)].size
            BY <1>2, <1>5, <1>6, <2>1
        <3>. QED  BY <1>2, <1>7, <2>1, <3>1
    <2>2. CASE i < Len(q)
        <3>1. ~ (Len(q) - 1 < i) /\ (Len(q) - 1) + 1 = Len(q) /\ Len(q) - 1 \in 0 .. Len(q) - 1
            BY <1>2, <2>2
        <3>. QED  BY <1>5, <3>1
    <2>. QED  BY <1>2, <2>1, <2>2
<1>. QED  BY <1>3, <1>4, <1>11, <1>12 DEF r

-----------------------------------------------------------------------------
(* The threads, the mutex and the queue.                                   *)

Before == {"idle", "ack", "abort"}
After == {"unregister", "unregisterAborted", "freeAgain", "left", "crashed"}
Handlers == Before \cup {"wait", "blocked", "send", "sendClosed", "join"} \cup After

Types ==
    /\ queue \in Seq(Item) /\ queuedBytes \in Int
    /\ overflowPending \in BOOLEAN /\ closing \in BOOLEAN /\ readerDone \in BOOLEAN
    /\ registered \in BOOLEAN /\ freed \in BOOLEAN /\ busy \in BOOLEAN
    /\ handler \in Handlers
    /\ reader \in {"none", "check", "drain", "enqueue", "finish", "done"}
    /\ chunk \in Item /\ item \in Item
    /\ produced \in 0 .. MaxChunks
    /\ sent \in Seq(Item)

\* The reader starts after the acknowledgement and is over before the handle is
\* freed; while it queues a chunk the stream is open.
ThreadInv ==
    /\ handler \in Before => reader = "none"
    /\ freed => handler \in After
    /\ handler \in After => closing /\ reader \in {"none", "done"}
    /\ readerDone => reader = "done"
    /\ closing => queue = <<>>
    /\ handler \in {"sendClosed", "join"} /\ ~ closing => queue = <<>> /\ reader = "done"
    /\ reader = "none" => produced = 0
    /\ overflowPending => reader = "enqueue"
    /\ reader = "enqueue" =>
          ~ closing /\ IsData(chunk) /\ chunk.id = produced /\ handler \notin Before

\* The count of queued bytes is right, and within the limit.
BytesInv == queuedBytes = Bytes(queue) /\ queuedBytes <= MaxQueueBytes

\* A marker in s, and no data behind it that is older than k.
Marked(s, k) ==
    \E i \in DOMAIN s :
        /\ ~ IsData(s[i])
        /\ \A j \in DOMAIN s : j > i /\ IsData(s[j]) => s[j].id > k

\* s has data of the chunks 1 .. n in order, and a marker for each that is missing
\* unless one is about to be queued.
Told(s, n, pending) ==
    /\ \A i \in DOMAIN s : s[i].id <= n
    /\ \A i \in DOMAIN s : IsData(s[i]) => \A j \in 1 .. i - 1 : s[j].id < s[i].id
    /\ \A k \in 1 .. n : (\A i \in DOMAIN s : s[i].id # k) => Marked(s, k) \/ pending

\* The last chunk that was queued, dropped or not.
Settled == IF reader = "enqueue" THEN produced - 1 ELSE produced

\* What the client has or will have while the stream is open, with the newest chunk.
LossInv ==
    ~ closing =>
        /\ Told(Stream, Settled, overflowPending)
        /\ MutexFree /\ produced > 0 =>
              Len(Stream) \in DOMAIN Stream /\ Stream[Len(Stream)].id = produced

\* The chunk being queued goes behind the others, behind a marker if one is due.
LEMMA EnqueueIs ==
    ASSUME Types, Enqueue
    PROVE  /\ queue' \in Seq(Item)
           /\ Bytes(queue') = Bytes(queue) + chunk.size
           /\ overflowPending => queue' = Append(Append(queue, Overflow), chunk)
           /\ ~ overflowPending => queue' = Append(queue, chunk)
<1>1. queue \in Seq(Item) /\ chunk \in Item /\ Overflow \in Item /\ Overflow.size = 0
    BY ItemSizes DEF Types
<1>2. Bytes(queue) \in Nat /\ chunk.size \in Nat
    BY <1>1, BytesNat, ItemSizes
<1>3. CASE overflowPending
    <2>1. queue' = queue \o <<Overflow, chunk>>
        BY <1>3 DEF Enqueue
    <2>2. queue' = Append(Append(queue, Overflow), chunk)
        BY <1>1, <2>1
    <2>3. Append(queue, Overflow) \in Seq(Item)
        BY <1>1
    <2>4. Bytes(queue') = Bytes(Append(queue, Overflow)) + chunk.size
        BY <1>1, <2>2, <2>3, BytesAppend
    <2>5. Bytes(Append(queue, Overflow)) = Bytes(queue) + 0
        BY <1>1, BytesAppend
    <2>6. queue' \in Seq(Item)
        BY <1>1, <2>2, <2>3
    <2>. QED  BY <1>2, <1>3, <2>2, <2>4, <2>5, <2>6
<1>4. CASE ~ overflowPending
    <2>1. queue' = queue \o <<chunk>>
        BY <1>4 DEF Enqueue
    <2>2. queue' = Append(queue, chunk)
        BY <1>1, <2>1
    <2>3. queue' \in Seq(Item)
        BY <1>1, <2>2
    <2>. QED  BY <1>1, <1>4, <2>2, <2>3, BytesAppend
<1>. QED  BY <1>3, <1>4

\* The head of a queue is taken as its first item is removed.
LEMMA HeadIsRemoved ==
    ASSUME NEW q \in Seq(Item), q # <<>>
    PROVE  /\ Head(q) \in Item /\ Head(q) = q[1] /\ Tail(q) \in Seq(Item)
           /\ Bytes(Tail(q)) = Bytes(q) - Head(q).size
<1>1. Len(q) \in Nat \ {0} /\ 1 \in DOMAIN q /\ Head(q) = q[1] /\ Tail(q) \in Seq(Item)
    OBVIOUS
<1>2. Len(Tail(q)) = Len(q) - 1 /\ \A j \in 1 .. Len(q) - 1 : Tail(q)[j] = q[j + 1]
    BY <1>1
<1>3. /\ RemoveAt(q, 1) \in Seq(Item) /\ Len(RemoveAt(q, 1)) = Len(q) - 1
      /\ \A j \in 1 .. Len(q) - 1 : RemoveAt(q, 1)[j] = q[j + 1]
    BY <1>1, RemoveAtIs
<1>4. Tail(q) = RemoveAt(q, 1)
    BY <1>1, <1>2, <1>3, SeqEqual
<1>5. Bytes(RemoveAt(q, 1)) = Bytes(q) - q[1].size
    BY <1>1, BytesRemoved
<1>6. q[1] \in Item
    BY <1>1
<1>7. Bytes(Tail(q)) = Bytes(q) - Head(q).size
    BY <1>1, <1>4, <1>5, Zenon
<1>. QED  BY <1>1, <1>6, <1>7

\* A new handle has an empty queue, and nothing was produced.
LEMMA TypesInit == Init => Types
<1>. SUFFICES ASSUME Init PROVE Types
    OBVIOUS
<1>1. queue \in Seq(Item) /\ sent \in Seq(Item) /\ queuedBytes \in Int
    BY DEF Init
<1>2. /\ overflowPending \in BOOLEAN /\ closing \in BOOLEAN /\ readerDone \in BOOLEAN
      /\ registered \in BOOLEAN /\ freed \in BOOLEAN /\ busy \in BOOLEAN
    BY Zenon DEF Init
<1>3. /\ handler \in Handlers
      /\ reader \in {"none", "check", "drain", "enqueue", "finish", "done"}
    BY DEF Init, Handlers, Before
<1>4. chunk \in Item /\ item \in Item /\ produced \in 0 .. MaxChunks
    BY SizesAssumption, ItemSizes DEF Init
<1>. QED  BY <1>1, <1>2, <1>3, <1>4 DEF Types

\* A cleared queue is empty.
LEMMA Cleared ==
    ASSUME ClearQueue
    PROVE  queue' \in Seq(Item) /\ queuedBytes' \in Int /\ overflowPending' \in BOOLEAN
<1>1. queue' \in Seq(Item) /\ queuedBytes' \in Int
    BY DEF ClearQueue
<1>2. overflowPending' \in BOOLEAN
    BY Zenon DEF ClearQueue
<1>. QED  BY <1>1, <1>2

\* Both threads keep the types, whatever they interrupt.
LEMMA TypesStep == Types /\ [Next]_vars => Types'
<1>. SUFFICES ASSUME Types, [Next]_vars PROVE Types'
    OBVIOUS
<1>. USE DEF handle, buffer
<1>1. CASE Open
    BY <1>1 DEF Open, Types, Handlers, Before
<1>2. CASE Acknowledge
    BY <1>2 DEF Acknowledge, Types, Handlers, Before
<1>3. CASE NextChunk
    <2>1. CASE queue # <<>> /\ item' = Head(queue) /\ queue' = Tail(queue)
               /\ queuedBytes' = queuedBytes - Head(queue).size /\ handler' = "send"
        <3>1. item' \in Item /\ queue' \in Seq(Item) /\ Head(queue) \in Item
            BY <2>1, HeadIsRemoved DEF Types
        <3>2. queuedBytes' \in Int
            BY <2>1, <3>1, ItemSizes DEF Types
        <3>. QED  BY <1>3, <2>1, <3>1, <3>2 DEF NextChunk, Types, Handlers
    <2>2. CASE UNCHANGED <<item, queue, queuedBytes>> /\ handler' \in {"sendClosed", "blocked"}
        BY <1>3, <2>2 DEF NextChunk, Types, Handlers
    <2>. QED  BY <1>3, <2>1, <2>2 DEF NextChunk
<1>4. CASE SendChunk
    <2>1. CASE RequestClose /\ handler' = "sendClosed" /\ UNCHANGED sent
        <3>1. queue' \in Seq(Item) /\ queuedBytes' \in Int /\ overflowPending' \in BOOLEAN
            BY <2>1, Cleared DEF RequestClose
        <3>. QED  BY <1>4, <2>1, <3>1 DEF SendChunk, RequestClose, Types, Handlers
    <2>2. CASE sent' = Append(sent, item) /\ handler' = "wait" /\ UNCHANGED handle
        <3>1. sent' \in Seq(Item)
            BY <2>2 DEF Types
        <3>. QED  BY <1>4, <2>2, <3>1 DEF SendChunk, Types, Handlers
    <2>. QED  BY <1>4, <2>1, <2>2 DEF SendChunk
<1>5. CASE SendClosed
    BY <1>5 DEF SendClosed, Types, Handlers
<1>6. CASE Free
    <2>1. queue' \in Seq(Item) /\ queuedBytes' \in Int /\ overflowPending' \in BOOLEAN
        BY <1>6, Cleared DEF Free
    <2>. QED  BY <1>6, <2>1 DEF Free, Types, Handlers, After
<1>7. CASE Unregister
    BY <1>7 DEF Unregister, Types, Handlers, After
<1>8. CASE FreeAgain
    BY <1>8 DEF FreeAgain, Types, Handlers, After
<1>9. CASE CheckClosing
    BY <1>9 DEF CheckClosing, Types
<1>10. CASE DropOldest
    <2>1. PICK i \in DOMAIN queue : /\ queue' = RemoveAt(queue, i)
                                    /\ queuedBytes' = queuedBytes - queue[i].size
        BY <1>10 DEF DropOldest
    <2>2. queue' \in Seq(Item) /\ queue[i] \in Item
        BY <2>1, RemoveAtIs DEF Types
    <2>3. queuedBytes' \in Int
        BY <2>1, <2>2, ItemSizes DEF Types
    <2>. QED  BY <1>10, <2>2, <2>3 DEF DropOldest, Types
<1>11. CASE Enqueue
    <2>1. queue' \in Seq(Item) /\ queuedBytes' \in Int
        BY <1>11, EnqueueIs, ItemSizes DEF Enqueue, Types
    <2>2. handler' \in Handlers
        BY <1>11 DEF Enqueue, Wake, Types, Handlers
    <2>. QED  BY <1>11, <2>1, <2>2 DEF Enqueue, Types
<1>12. CASE FinishReader
    BY <1>12 DEF FinishReader, Wake, Types, Handlers
<1>13. CASE Quiet
    BY <1>13 DEF Quiet, Types
<1>14. CASE Output
    <2>1. produced' \in 0 .. MaxChunks
        BY <1>14, SizesAssumption DEF Output, Types
    <2>2. CASE closing
        BY <1>14, <2>1, <2>2 DEF Output, Types
    <2>3. CASE ~ closing
        <3>1. produced + 1 \in 1 .. MaxChunks
            BY <1>14, SizesAssumption DEF Output, Types
        <3>2. PICK size \in ChunkSizes : chunk' = [id |-> produced + 1, size |-> size]
            BY <1>14, <2>3 DEF Output
        <3>3. chunk' \in Item
            BY <3>1, <3>2 DEF Item
        <3>. QED  BY <1>14, <2>1, <2>3, <3>3 DEF Output, Types
    <2>. QED  BY <2>2, <2>3
<1>15. CASE ControlExit
    BY <1>15 DEF ControlExit, Types
<1>16. CASE ReaderError
    <2>1. queue' \in Seq(Item) /\ queuedBytes' \in Int /\ overflowPending' \in BOOLEAN
        BY <1>16, Cleared DEF ReaderError, RequestClose
    <2>. QED  BY <1>16, <2>1 DEF ReaderError, RequestClose, Wake, Types, Handlers
<1>17. CASE CloseStream
    <2>1. CASE RequestClose /\ Wake
        <3>1. queue' \in Seq(Item) /\ queuedBytes' \in Int /\ overflowPending' \in BOOLEAN
            BY <2>1, Cleared DEF RequestClose
        <3>. QED  BY <1>17, <2>1, <3>1 DEF CloseStream, RequestClose, Wake, Types, Handlers
    <2>2. CASE handler' \in {handler, "crashed"} /\ UNCHANGED handle
        BY <1>17, <2>2 DEF CloseStream, Types, Handlers, After
    <2>. QED  BY <1>17, <2>1, <2>2 DEF CloseStream
<1>18. CASE PaneStarts \/ PanePauses
    BY <1>18 DEF PaneStarts, PanePauses, Types
<1>19. CASE UNCHANGED vars
    BY <1>19 DEF vars, Types
<1>. QED  BY <1>1, <1>2, <1>3, <1>4, <1>5, <1>6, <1>7, <1>8, <1>9, <1>10, <1>11, <1>12, <1>13,
             <1>14, <1>15, <1>16, <1>17, <1>18, <1>19 DEF Next, Handle, Read, Environment

\* Each thread goes its way, and nobody closes the stream while a chunk is queued.
LEMMA ThreadStep == Types /\ ThreadInv /\ [Next]_vars => ThreadInv'
<1>. SUFFICES ASSUME Types, ThreadInv, [Next]_vars PROVE ThreadInv'
    OBVIOUS
<1>. USE DEF handle, buffer, Before, After, MutexFree
<1>1. CASE Open \/ Acknowledge \/ SendClosed
    BY <1>1 DEF Open, Acknowledge, SendClosed, ThreadInv
<1>2. CASE NextChunk
    <2>1. CASE queue # <<>>
        BY <1>2, <2>1 DEF NextChunk, ThreadInv
    <2>2. CASE queue = <<>>
        BY <1>2, <2>2 DEF NextChunk, ThreadInv
    <2>. QED  BY <2>1, <2>2
<1>3. CASE SendChunk
    BY <1>3 DEF SendChunk, RequestClose, ClearQueue, ThreadInv
<1>4. CASE Free
    BY <1>4 DEF Free, ClearQueue, ThreadInv
<1>5. CASE Unregister \/ FreeAgain
    BY <1>5 DEF Unregister, FreeAgain, ThreadInv
<1>6. CASE CheckClosing
    BY <1>6 DEF CheckClosing, ThreadInv
<1>7. CASE DropOldest
    BY <1>7 DEF DropOldest, ThreadInv
<1>8. CASE Enqueue
    BY <1>8 DEF Enqueue, Wake, ThreadInv
<1>9. CASE FinishReader
    BY <1>9 DEF FinishReader, Wake, ThreadInv
<1>10. CASE Output
    <2>1. CASE closing
        BY <1>10, <2>1 DEF Output, ThreadInv
    <2>2. CASE ~ closing
        <3>1. IsData(chunk') /\ chunk'.id = produced + 1
            BY <1>10, <2>2 DEF Output, Types, IsData, Overflow
        <3>. QED  BY <1>10, <2>2, <3>1 DEF Output, ThreadInv
    <2>. QED  BY <2>1, <2>2
<1>11. CASE Quiet \/ ControlExit \/ PaneStarts \/ PanePauses
    BY <1>11 DEF Quiet, ControlExit, PaneStarts, PanePauses, ThreadInv
<1>12. CASE ReaderError
    BY <1>12 DEF ReaderError, RequestClose, ClearQueue, Wake, ThreadInv
<1>13. CASE CloseStream
    BY <1>13 DEF CloseStream, RequestClose, ClearQueue, Wake, ThreadInv
<1>14. CASE UNCHANGED vars
    BY <1>14 DEF vars, ThreadInv
<1>. QED  BY <1>1, <1>2, <1>3, <1>4, <1>5, <1>6, <1>7, <1>8, <1>9, <1>10, <1>11, <1>12, <1>13,
             <1>14 DEF Next, Handle, Read, Environment

\* Every critical section leaves the count of queued bytes right.
LEMMA BytesStep == Types /\ ThreadInv /\ BytesInv /\ [Next]_vars => BytesInv'
<1>. SUFFICES ASSUME Types, ThreadInv, BytesInv, [Next]_vars PROVE BytesInv'
    OBVIOUS
<1>. USE DEF handle, buffer
<1>1. ASSUME UNCHANGED <<queue, queuedBytes>> PROVE BytesInv'
    BY <1>1 DEF BytesInv
<1>2. ASSUME ClearQueue PROVE BytesInv'
    <2>1. <<>> \in Seq(Item) /\ \A i \in DOMAIN <<>> : ~ IsData(<<>>[i])
        OBVIOUS
    <2>2. Bytes(<<>>) = 0
        BY <2>1, BytesNothing
    <2>. QED  BY <1>2, <2>2, SizesAssumption DEF ClearQueue, BytesInv
<1>3. CASE NextChunk
    <2>1. CASE queue # <<>>
        <3>1. queue' = Tail(queue) /\ queuedBytes' = queuedBytes - Head(queue).size
            BY <1>3, <2>1 DEF NextChunk
        <3>2. Head(queue).size \in Nat /\ Bytes(Tail(queue)) = Bytes(queue) - Head(queue).size
            BY <2>1, HeadIsRemoved, ItemSizes DEF Types
        <3>. QED  BY <3>1, <3>2, SizesAssumption DEF BytesInv, Types
    <2>2. CASE queue = <<>>
        BY <1>1, <1>3, <2>2 DEF NextChunk
    <2>. QED  BY <2>1, <2>2
<1>4. CASE DropOldest
    <2>1. PICK i \in DOMAIN queue : /\ queue' = RemoveAt(queue, i)
                                    /\ queuedBytes' = queuedBytes - queue[i].size
        BY <1>4 DEF DropOldest
    <2>2. queue[i].size \in Nat /\ Bytes(RemoveAt(queue, i)) = Bytes(queue) - queue[i].size
        BY <2>1, BytesRemoved, ItemSizes DEF Types
    <2>. QED  BY <2>1, <2>2, SizesAssumption DEF BytesInv, Types
<1>5. CASE Enqueue
    <2>1. chunk.size \in Nat /\ chunk.size <= MaxQueueBytes
        BY ItemSizes, SizesAssumption DEF Types
    <2>2. Bytes(queue') = Bytes(queue) + chunk.size /\ queuedBytes' = queuedBytes + chunk.size
        BY <1>5, EnqueueIs DEF Enqueue
    <2>3. CASE ~ Overflows
        BY <2>1, <2>2, <2>3, SizesAssumption DEF Overflows, BytesInv, Types
    <2>4. CASE \A i \in DOMAIN queue : ~ IsData(queue[i])
        <3>1. Bytes(queue) = 0
            BY <2>4, BytesNothing DEF Types
        <3>. QED  BY <2>1, <2>2, <3>1, SizesAssumption DEF BytesInv
    <2>. QED  BY <1>5, <2>3, <2>4 DEF Enqueue
<1>6. CASE SendChunk
    BY <1>1, <1>2, <1>6 DEF SendChunk, RequestClose
<1>7. CASE CloseStream
    BY <1>1, <1>2, <1>7 DEF CloseStream, RequestClose
<1>8. CASE Free \/ ReaderError
    BY <1>2, <1>8 DEF Free, ReaderError, RequestClose
<1>9. CASE \/ Open \/ Acknowledge \/ SendClosed \/ Unregister \/ FreeAgain \/ CheckClosing
           \/ FinishReader \/ Quiet \/ Output \/ ControlExit \/ PaneStarts \/ PanePauses
           \/ UNCHANGED vars
    BY <1>1, <1>9 DEF Open, Acknowledge, SendClosed, Unregister, FreeAgain, CheckClosing,
                      FinishReader, Quiet, Output, ControlExit, PaneStarts, PanePauses, vars
<1>. QED  BY <1>3, <1>4, <1>5, <1>6, <1>7, <1>8, <1>9 DEF Next, Handle, Read, Environment

-----------------------------------------------------------------------------
(* What the client has and what is on its way to it.                       *)

\* Without one of its items, a stream stays in order.
LEMMA ToldRemoved ==
    ASSUME NEW s \in Seq(Item), NEW d \in DOMAIN s, NEW r \in Seq(Item), NEW n \in Int,
           Told(s, n, TRUE), Len(r) = Len(s) - 1,
           \A j \in 1 .. Len(s) - 1 : r[j] = IF j < d THEN s[j] ELSE s[j + 1]
    PROVE  Told(r, n, TRUE)
<1>1. Len(s) \in Nat /\ d \in 1 .. Len(s) /\ DOMAIN r = 1 .. Len(s) - 1 /\ DOMAIN s = 1 .. Len(s)
    OBVIOUS
<1>. DEFINE at(j) == IF j < d THEN j ELSE j + 1
<1>2. ASSUME NEW j \in DOMAIN r PROVE at(j) \in DOMAIN s /\ r[j] = s[at(j)]
    BY <1>1, <1>2
<1>3. ASSUME NEW i \in DOMAIN r, NEW j \in 1 .. i - 1
      PROVE  j \in DOMAIN r /\ at(j) \in 1 .. at(i) - 1
    BY <1>1, <1>3
<1>. HIDE DEF at
<1>4. ASSUME NEW i \in DOMAIN r PROVE r[i].id <= n
    BY <1>2 DEF Told
<1>5. ASSUME NEW i \in DOMAIN r, IsData(r[i]), NEW j \in 1 .. i - 1 PROVE r[j].id < r[i].id
    <2>1. /\ r[i] = s[at(i)] /\ r[j] = s[at(j)] /\ at(i) \in DOMAIN s
          /\ at(j) \in 1 .. at(i) - 1
        BY <1>2, <1>3
    <2>. QED  BY <1>5, <2>1 DEF Told
<1>. QED  BY <1>4, <1>5 DEF Told

\* A marker at the end tells of all that is missing.
LEMMA ToldMarker ==
    ASSUME NEW s \in Seq(Item), NEW n \in Nat, Told(s, n, TRUE)
    PROVE  Told(Append(s, Overflow), n, FALSE)
<1>. DEFINE r == Append(s, Overflow)
<1>1. Len(s) \in Nat /\ DOMAIN s = 1 .. Len(s)
    OBVIOUS
<1>2. /\ DOMAIN r = 1 .. Len(s) + 1 /\ r[Len(s) + 1] = Overflow
      /\ \A i \in 1 .. Len(s) : r[i] = s[i]
    BY <1>1, ItemSizes
<1>. HIDE DEF r
<1>3. ~ IsData(r[Len(s) + 1]) /\ r[Len(s) + 1].id = 0
    BY <1>2, ItemSizes DEF IsData
<1>4. ASSUME NEW i \in DOMAIN r PROVE r[i].id <= n
    <2>1. CASE i \in 1 .. Len(s)
        BY <1>1, <1>2, <2>1 DEF Told
    <2>2. CASE i = Len(s) + 1
        BY <1>3, <2>2
    <2>. QED  BY <1>1, <1>2, <2>1, <2>2
<1>5. ASSUME NEW i \in DOMAIN r, IsData(r[i]), NEW j \in 1 .. i - 1 PROVE r[j].id < r[i].id
    <2>1. i \in 1 .. Len(s) /\ j \in 1 .. Len(s)
        BY <1>1, <1>2, <1>3, <1>5
    <2>2. r[i] = s[i] /\ r[j] = s[j]
        BY <1>2, <2>1
    <2>. QED  BY <1>1, <1>5, <2>1, <2>2 DEF Told
<1>6. ASSUME NEW k \in 1 .. n PROVE Marked(r, k)
    <2>1. Len(s) + 1 \in DOMAIN r
        BY <1>1, <1>2
    <2>2. \A j \in DOMAIN r : ~ (j > Len(s) + 1)
        BY <1>1, <1>2
    <2>. QED  BY <1>3, <2>1, <2>2 DEF Marked
<1>7. Told(r, n, FALSE)
    BY <1>4, <1>5, <1>6 DEF Told
<1>. QED  BY <1>7 DEF r

\* The next chunk at the end of a stream with nothing left to tell.
LEMMA ToldChunk ==
    ASSUME NEW s \in Seq(Item), NEW n \in Nat, Told(s, n, FALSE),
           NEW x \in Item, IsData(x), x.id = n + 1
    PROVE  Told(Append(s, x), n + 1, FALSE)
<1>. DEFINE r == Append(s, x)
<1>1. Len(s) \in Nat /\ DOMAIN s = 1 .. Len(s)
    OBVIOUS
<1>2. /\ DOMAIN r = 1 .. Len(s) + 1 /\ r[Len(s) + 1] = x
      /\ \A i \in 1 .. Len(s) : r[i] = s[i]
    BY <1>1
<1>. HIDE DEF r
<1>3. \A i \in 1 .. Len(s) : r[i].id \in Int /\ r[i].id <= n
    BY <1>1, <1>2, ItemSizes DEF Told
<1>4. ASSUME NEW i \in DOMAIN r PROVE r[i].id <= n + 1
    <2>1. CASE i \in 1 .. Len(s)
        BY <1>3, <2>1
    <2>2. CASE i = Len(s) + 1
        BY <1>2, <2>2
    <2>. QED  BY <1>1, <1>2, <2>1, <2>2
<1>5. ASSUME NEW i \in DOMAIN r, IsData(r[i]), NEW j \in 1 .. i - 1 PROVE r[j].id < r[i].id
    <2>1. CASE i \in 1 .. Len(s)
        <3>1. r[i] = s[i] /\ r[j] = s[j]
            BY <1>1, <1>2, <2>1
        <3>. QED  BY <1>1, <1>5, <2>1, <3>1 DEF Told
    <2>2. CASE i = Len(s) + 1
        <3>1. j \in 1 .. Len(s) /\ r[i].id = n + 1
            BY <1>1, <1>2, <2>2
        <3>. QED  BY <1>3, <3>1
    <2>. QED  BY <1>1, <1>2, <2>1, <2>2
<1>6. ASSUME NEW k \in 1 .. n + 1, \A i \in DOMAIN r : r[i].id # k PROVE Marked(r, k)
    <2>1. k \in 1 .. n
        <3>1. Len(s) + 1 \in DOMAIN r
            BY <1>1, <1>2
        <3>2. k # n + 1
            BY <1>2, <1>6, <3>1
        <3>. QED  BY <3>2
    <2>2. \A i \in DOMAIN s : s[i].id # k
        BY <1>1, <1>2, <1>6
    <2>3. PICK i \in DOMAIN s : /\ ~ IsData(s[i])
                                /\ \A j \in DOMAIN s : j > i /\ IsData(s[j]) => s[j].id > k
        BY <2>1, <2>2 DEF Told, Marked
    <2>4. i \in DOMAIN r /\ ~ IsData(r[i])
        BY <1>1, <1>2, <2>3
    <2>5. ASSUME NEW j \in DOMAIN r, j > i, IsData(r[j]) PROVE r[j].id > k
        <3>1. CASE j \in 1 .. Len(s)
            BY <1>1, <1>2, <2>3, <2>5, <3>1
        <3>2. CASE j = Len(s) + 1
            BY <1>2, <2>1, <3>2
        <3>. QED  BY <1>1, <1>2, <3>1, <3>2
    <2>. QED  BY <2>4, <2>5 DEF Marked
<1>7. Told(r, n + 1, FALSE)
    BY <1>4, <1>5, <1>6 DEF Told
<1>. QED  BY <1>7 DEF r

\* What left the queue.
Prefix == sent \o (IF handler = "send" THEN <<item>> ELSE <<>>)

LEMMA StreamTypes ==
    ASSUME Types
    PROVE  Prefix \in Seq(Item) /\ Stream = Prefix \o queue /\ Stream \in Seq(Item)
<1>1. sent \in Seq(Item) /\ item \in Item /\ queue \in Seq(Item)
    BY DEF Types
<1>2. (IF handler = "send" THEN <<item>> ELSE <<>>) \in Seq(Item)
    BY <1>1
<1>3. Prefix \in Seq(Item)
    BY <1>1, <1>2 DEF Prefix
<1>4. Stream = Prefix \o queue
    BY DEF Prefix, Stream
<1>. QED  BY <1>1, <1>3, <1>4

\* Whoever touches neither chunks nor their way leaves the stream as it is.
LEMMA StreamSame ==
    ASSUME UNCHANGED <<sent, item, queue>>, (handler' = "send") <=> (handler = "send")
    PROVE  Stream' = Stream
BY DEF Stream

\* Taking a chunk and sending it move it along the stream.
LEMMA StreamMoved ==
    ASSUME Types, Types', NextChunk \/ SendChunk, ~ closing'
    PROVE  Stream' = Stream
<1>1. sent \in Seq(Item) /\ item \in Item /\ queue \in Seq(Item)
    BY DEF Types
<1>2. CASE NextChunk
    <2>1. CASE queue = <<>>
        BY <1>2, <2>1, StreamSame DEF NextChunk
    <2>2. CASE queue # <<>>
        <3>1. /\ handler = "wait" /\ handler' = "send" /\ sent' = sent
              /\ item' = Head(queue) /\ queue' = Tail(queue)
            BY <1>2, <2>2 DEF NextChunk
        <3>2. Stream = (sent \o <<>>) \o queue /\ Stream' = (sent \o <<item'>>) \o queue'
            BY <3>1 DEF Stream
        <3>3. Head(queue) \in Item /\ Tail(queue) \in Seq(Item)
              /\ <<Head(queue)>> \o Tail(queue) = queue
            BY <1>1, <2>2
        <3>4. sent \o <<>> = sent
            BY <1>1
        <3>5. (sent \o <<Head(queue)>>) \o Tail(queue) = sent \o (<<Head(queue)>> \o Tail(queue))
            <4>1. <<Head(queue)>> \in Seq(Item)
                BY <3>3
            <4>. QED  BY <1>1, <3>3, <4>1, ConcatAssociative
        <3>. QED  BY <3>1, <3>2, <3>3, <3>4, <3>5
    <2>. QED  BY <2>1, <2>2
<1>3. CASE SendChunk
    <2>1. /\ handler = "send" /\ handler' = "wait" /\ sent' = Append(sent, item)
          /\ queue' = queue
        BY <1>3 DEF SendChunk, RequestClose, handle, buffer
    <2>2. Stream = (sent \o <<item>>) \o queue /\ Stream' = (sent' \o <<>>) \o queue
        BY <2>1 DEF Stream
    <2>3. Append(sent, item) = sent \o <<item>> /\ sent' \in Seq(Item)
        BY <1>1, <2>1
    <2>4. sent' \o <<>> = sent'
        BY <2>3
    <2>. QED  BY <2>1, <2>2, <2>3, <2>4
<1>. QED  BY <1>2, <1>3

\* What is queued behind the queue is behind the stream.
LEMMA StreamAppend ==
    ASSUME NEW p \in Seq(Item), NEW q \in Seq(Item), NEW x \in Item
    PROVE  p \o Append(q, x) = Append(p \o q, x)
<1>1. Append(q, x) = q \o <<x>> /\ <<x>> \in Seq(Item) /\ p \o q \in Seq(Item)
    OBVIOUS
<1>2. Append(p \o q, x) = (p \o q) \o <<x>>
    BY <1>1
<1>3. (p \o q) \o <<x>> = p \o (q \o <<x>>)
    BY <1>1, ConcatAssociative
<1>. QED  BY <1>1, <1>2, <1>3

\* What is removed from the queue is removed from the stream.
LEMMA StreamRemoved ==
    ASSUME NEW p \in Seq(Item), NEW q \in Seq(Item), NEW i \in DOMAIN q
    PROVE  /\ Len(p) + i \in DOMAIN (p \o q) /\ p \o RemoveAt(q, i) \in Seq(Item)
           /\ Len(p \o RemoveAt(q, i)) = Len(p \o q) - 1
           /\ \A j \in 1 .. Len(p \o q) - 1 :
                 (p \o RemoveAt(q, i))[j]
                    = IF j < Len(p) + i THEN (p \o q)[j] ELSE (p \o q)[j + 1]
<1>. DEFINE r == RemoveAt(q, i)
            s == p \o q
            t == p \o r
<1>1. /\ r \in Seq(Item) /\ Len(r) = Len(q) - 1
      /\ \A j \in 1 .. Len(q) - 1 : r[j] = IF j < i THEN q[j] ELSE q[j + 1]
    BY RemoveAtIs
<1>2. Len(p) \in Nat /\ Len(q) \in Nat /\ i \in 1 .. Len(q)
    OBVIOUS
<1>. HIDE DEF r
<1>3. /\ s \in Seq(Item) /\ Len(s) = Len(p) + Len(q) /\ DOMAIN s = 1 .. Len(p) + Len(q)
      /\ t \in Seq(Item) /\ Len(t) = Len(p) + (Len(q) - 1)
    <2>1. s \in Seq(Item) /\ Len(s) = Len(p) + Len(q)
        OBVIOUS
    <2>2. DOMAIN s = 1 .. Len(s)
        BY <2>1
    <2>3. t \in Seq(Item) /\ Len(t) = Len(p) + Len(r)
        <3>1. r \in Seq(Item)
            BY <1>1
        <3>2. p \o r \in Seq(Item) /\ Len(p \o r) = Len(p) + Len(r)
            BY ONLY <3>1, p \in Seq(Item)
        <3>. QED  BY <3>2
    <2>. QED  BY <1>1, <2>1, <2>2, <2>3
<1>4. \A j \in 1 .. Len(p) : s[j] = p[j] /\ t[j] = p[j]
    BY <1>1, <1>2
<1>5. /\ \A k \in 1 .. Len(q) : s[Len(p) + k] = q[k]
      /\ \A k \in 1 .. Len(q) - 1 : t[Len(p) + k] = r[k]
    BY <1>1, Behind
<1>. HIDE DEF s, t
<1>6. ASSUME NEW j \in 1 .. Len(s) - 1
      PROVE  t[j] = IF j < Len(p) + i THEN s[j] ELSE s[j + 1]
    <2>1. CASE j <= Len(p)
        <3>1. j \in 1 .. Len(p) /\ j < Len(p) + i
            BY <1>2, <1>3, <2>1
        <3>. QED  BY <1>4, <3>1
    <2>2. CASE j > Len(p)
        <3>1. PICK k \in 1 .. Len(q) - 1 : j = Len(p) + k
            <4>1. j - Len(p) \in 1 .. Len(q) - 1 /\ j = Len(p) + (j - Len(p))
                BY <1>2, <1>3, <2>2
            <4>. QED  BY <4>1
        <3>2. k \in 1 .. Len(q) /\ k + 1 \in 1 .. Len(q) /\ j + 1 = Len(p) + (k + 1)
              /\ (j < Len(p) + i <=> k < i)
            BY <1>2, <3>1
        <3>3. t[j] = r[k] /\ s[j] = q[k] /\ s[j + 1] = q[k + 1]
            BY <1>5, <3>1, <3>2
        <3>4. r[k] = IF k < i THEN q[k] ELSE q[k + 1]
            BY <1>1, <3>1
        <3>. QED  BY <3>2, <3>3, <3>4
    <2>. QED  BY <1>2, <2>1, <2>2
<1>7. Len(p) + i \in DOMAIN s /\ Len(t) = Len(s) - 1
    BY <1>2, <1>3
<1>. QED  BY <1>3, <1>6, <1>7 DEF r, s, t

\* Dropping a chunk, and queueing the one that made it overflow, keep the client told.
LEMMA LossQueued ==
    ASSUME Types, Types', ThreadInv, LossInv, DropOldest \/ Enqueue
    PROVE  LossInv'
<1>1. /\ reader = "enqueue" /\ ~ closing /\ closing' = closing /\ produced' = produced
      /\ IsData(chunk) /\ chunk \in Item /\ chunk.id = produced /\ produced \in Nat
    BY DEF DropOldest, Enqueue, ThreadInv, Types
<1>2. Prefix \in Seq(Item) /\ queue \in Seq(Item) /\ Stream = Prefix \o queue
      /\ Stream' = Prefix' \o queue' /\ Stream \in Seq(Item)
    BY StreamTypes DEF Types, Stream, Prefix
<1>3. Prefix' = Prefix
    BY DEF DropOldest, Enqueue, Wake, Prefix
<1>4. chunk.id \in 1 .. MaxChunks /\ Settled = produced - 1 /\ produced - 1 \in Nat
    BY <1>1, ItemSizes, SizesAssumption DEF Settled
<1>5. Told(Stream, produced - 1, overflowPending) /\ overflowPending \in BOOLEAN
    BY <1>1, <1>4, Zenon DEF LossInv, Types
<1>6. Told(Stream, produced - 1, TRUE)
    BY <1>5 DEF Told
<1>7. CASE DropOldest
    <2>1. PICK i \in DOMAIN queue : queue' = RemoveAt(queue, i)
        BY <1>7 DEF DropOldest
    <2>2. reader' = "enqueue" /\ overflowPending' = TRUE
        BY <1>7 DEF DropOldest
    <2>3. Told(Stream', produced - 1, TRUE)
        <3>1. Stream' = Prefix \o RemoveAt(queue, i)
            BY <1>2, <1>3, <2>1
        <3>2. /\ Len(Prefix) + i \in DOMAIN Stream /\ Stream' \in Seq(Item)
              /\ Len(Stream') = Len(Stream) - 1
              /\ \A j \in 1 .. Len(Stream) - 1 :
                    Stream'[j] = IF j < Len(Prefix) + i THEN Stream[j] ELSE Stream[j + 1]
            <4>1. /\ Len(Prefix) + i \in DOMAIN (Prefix \o queue)
                  /\ Prefix \o RemoveAt(queue, i) \in Seq(Item)
                  /\ Len(Prefix \o RemoveAt(queue, i)) = Len(Prefix \o queue) - 1
                  /\ \A j \in 1 .. Len(Prefix \o queue) - 1 :
                        (Prefix \o RemoveAt(queue, i))[j]
                           = IF j < Len(Prefix) + i THEN (Prefix \o queue)[j]
                             ELSE (Prefix \o queue)[j + 1]
                BY <1>2, StreamRemoved
            <4>. QED  BY ONLY <1>2, <3>1, <4>1
        <3>3. produced - 1 \in Int
            BY <1>4
        <3>. QED  BY <1>2, <1>6, <3>2, <3>3, ToldRemoved
    <2>4. Settled' = produced - 1 /\ ~ MutexFree'
        BY <1>1, <2>2 DEF Settled, MutexFree
    <2>. QED  BY <2>2, <2>3, <2>4 DEF LossInv
<1>8. CASE Enqueue
    <2>1. Settled' = produced /\ overflowPending' = FALSE
        BY <1>1, <1>8 DEF Settled, Enqueue
    <2>. DEFINE before == IF overflowPending THEN Append(Stream, Overflow) ELSE Stream
    <2>2. before \in Seq(Item) /\ Told(before, produced - 1, FALSE)
        <3>1. CASE overflowPending
            <4>1. before = Append(Stream, Overflow) /\ before \in Seq(Item)
                BY <1>2, <3>1, ItemSizes
            <4>. QED  BY <1>2, <1>4, <1>6, <4>1, ToldMarker
        <3>2. CASE ~ overflowPending
            <4>1. before = Stream /\ overflowPending = FALSE
                BY <1>5, <3>2
            <4>. QED  BY <1>2, <1>5, <4>1
        <3>. QED  BY <3>1, <3>2
    <2>3. Stream' = Append(before, chunk)
        <3>1. CASE overflowPending
            <4>1. /\ queue' = Append(Append(queue, Overflow), chunk)
                  /\ before = Append(Stream, Overflow)
                BY <1>8, <3>1, EnqueueIs
            <4>2. Append(queue, Overflow) \in Seq(Item)
                BY <1>2, ItemSizes
            <4>3. Prefix \o queue' = Append(Prefix \o Append(queue, Overflow), chunk)
                BY <1>1, <1>2, <4>1, <4>2, StreamAppend
            <4>4. Prefix \o Append(queue, Overflow) = Append(Prefix \o queue, Overflow)
                BY <1>2, ItemSizes, StreamAppend
            <4>. QED  BY <1>2, <1>3, <4>1, <4>3, <4>4
        <3>2. CASE ~ overflowPending
            <4>1. queue' = Append(queue, chunk) /\ before = Stream
                BY <1>8, <3>2, EnqueueIs
            <4>2. Prefix \o Append(queue, chunk) = Append(Prefix \o queue, chunk)
                BY <1>1, <1>2, StreamAppend
            <4>. QED  BY <1>2, <1>3, <4>1, <4>2
        <3>. QED  BY <3>1, <3>2
    <2>. HIDE DEF before
    <2>4. Told(Stream', produced, FALSE)
        <3>1. chunk.id = (produced - 1) + 1 /\ (produced - 1) + 1 = produced
            BY <1>1
        <3>2. Told(Append(before, chunk), (produced - 1) + 1, FALSE)
            BY <1>1, <1>4, <2>2, <3>1, ToldChunk
        <3>. QED  BY <2>3, <3>1, <3>2
    <2>5. Len(Stream') \in DOMAIN Stream' /\ Stream'[Len(Stream')] = chunk
        BY <1>1, <2>2, <2>3
    <2>. QED  BY <1>1, <2>1, <2>4, <2>5 DEF LossInv
<1>. QED  BY <1>7, <1>8

\* Every other step leaves the stream as it is, or closes it.
LEMMA LossStep == Types /\ Types' /\ ThreadInv /\ LossInv /\ [Next]_vars => LossInv'
<1>. SUFFICES ASSUME Types, Types', ThreadInv, LossInv, [Next]_vars PROVE LossInv'
    OBVIOUS
<1>. USE DEF handle, buffer
<1>1. ASSUME closing' PROVE LossInv'
    BY <1>1 DEF LossInv
<1>2. ASSUME Stream' = Stream, Settled' = Settled, UNCHANGED <<overflowPending, closing>>,
             MutexFree' /\ produced' > 0 => MutexFree /\ produced' = produced
      PROVE  LossInv'
    BY <1>2 DEF LossInv
<1>3. ASSUME UNCHANGED <<reader, produced>>
      PROVE  /\ Settled' = Settled
             /\ MutexFree' /\ produced' > 0 => MutexFree /\ produced' = produced
    BY <1>3 DEF Settled, MutexFree
<1>4. ASSUME UNCHANGED produced, reader # "enqueue", reader' # "enqueue"
      PROVE  /\ Settled' = Settled
             /\ MutexFree' /\ produced' > 0 => MutexFree /\ produced' = produced
    BY <1>4 DEF Settled, MutexFree
<1>5. CASE NextChunk \/ SendChunk
    <2>1. CASE closing'
        BY <1>1, <2>1
    <2>2. CASE ~ closing'
        <3>1. Stream' = Stream
            BY <1>5, <2>2, StreamMoved
        <3>2. UNCHANGED <<overflowPending, closing, reader, produced>>
            BY <1>5, <2>2 DEF NextChunk, SendChunk, RequestClose
        <3>. QED  BY <1>2, <1>3, <3>1, <3>2
    <2>. QED  BY <2>1, <2>2
<1>6. CASE DropOldest \/ Enqueue
    BY <1>6, LossQueued
<1>7. CASE Output
    <2>1. CASE closing
        BY <1>1, <1>7, <2>1 DEF Output
    <2>2. CASE ~ closing
        <3>1. Stream' = Stream
            BY <1>7, StreamSame DEF Output
        <3>2. reader = "drain" /\ reader' = "enqueue" /\ produced' = produced + 1
            BY <1>7, <2>2 DEF Output
        <3>3. produced \in Int
            BY DEF Types
        <3>4. Settled' = Settled /\ ~ MutexFree'
            BY <3>2, <3>3 DEF Settled, MutexFree
        <3>5. UNCHANGED <<overflowPending, closing>>
            BY <1>7 DEF Output
        <3>. QED  BY <1>2, <3>1, <3>4, <3>5
    <2>. QED  BY <2>1, <2>2
<1>8. CASE Free \/ ReaderError
    BY <1>1, <1>8 DEF Free, ReaderError, RequestClose
<1>9. CASE CloseStream
    <2>1. closing'
        BY <1>9 DEF CloseStream, RequestClose, ThreadInv
    <2>. QED  BY <1>1, <2>1
<1>10. CASE Unregister \/ FreeAgain
    <2>1. closing'
        BY <1>10 DEF Unregister, FreeAgain, ThreadInv, After
    <2>. QED  BY <1>1, <2>1
<1>11. CASE Open \/ SendClosed \/ PaneStarts \/ PanePauses \/ UNCHANGED vars
    <2>1. Stream' = Stream
        BY <1>11, StreamSame DEF Open, SendClosed, PaneStarts, PanePauses, vars
    <2>2. UNCHANGED <<overflowPending, closing, reader, produced>>
        BY <1>11 DEF Open, SendClosed, PaneStarts, PanePauses, vars
    <2>. QED  BY <1>2, <1>3, <2>1, <2>2
<1>12. CASE Acknowledge \/ CheckClosing \/ FinishReader \/ Quiet \/ ControlExit
    <2>1. Stream' = Stream
        BY <1>12, StreamSame
           DEF Acknowledge, CheckClosing, FinishReader, Wake, Quiet, ControlExit
    <2>2. UNCHANGED <<overflowPending, closing, produced>>
        BY <1>12 DEF Acknowledge, CheckClosing, FinishReader, Quiet, ControlExit
    <2>3. reader # "enqueue" /\ reader' # "enqueue"
        BY <1>12 DEF Acknowledge, CheckClosing, FinishReader, Quiet, ControlExit, ThreadInv,
                     Before
    <2>. QED  BY <1>2, <1>4, <2>1, <2>2, <2>3
<1>. QED  BY <1>5, <1>6, <1>7, <1>8, <1>9, <1>10, <1>11, <1>12
          DEF Next, Handle, Read, Environment

-----------------------------------------------------------------------------
(* The invariant, and what it is for.                                      *)

TtyInv == Types /\ ThreadInv /\ BytesInv /\ LossInv

\* A new handle satisfies it, and every step of the two threads keeps it.
LEMMA TtyInvariant == Spec => []TtyInv
<1>1. Init => TtyInv
    <2>. SUFFICES ASSUME Init PROVE TtyInv
        OBVIOUS
    <2>1. Types
        BY TypesInit
    <2>2. ThreadInv
        BY DEF Init, ThreadInv, Before, After
    <2>3. BytesInv
        <3>1. Bytes(queue) = 0
            <4>1. \A i \in DOMAIN queue : ~ IsData(queue[i])
                BY DEF Init
            <4>. QED  BY <2>1, <4>1, BytesNothing DEF Types
        <3>. QED  BY <3>1, SizesAssumption DEF Init, BytesInv
    <2>4. LossInv
        <3>1. DOMAIN Stream = {} /\ Settled = 0 /\ produced = 0
            BY DEF Init, Stream, Settled
        <3>2. Told(Stream, Settled, overflowPending)
            BY <3>1 DEF Told
        <3>. QED  BY <3>1, <3>2 DEF LossInv
    <2>. QED  BY <2>1, <2>2, <2>3, <2>4 DEF TtyInv
<1>2. TtyInv /\ [Next]_vars => TtyInv'
    BY TypesStep, ThreadStep, BytesStep, LossStep DEF TtyInv
<1>. QED  BY <1>1, <1>2, PTL DEF Spec

\* TypeOK: the count of queued bytes is the sum of what is queued, whatever was
\* dropped, taken or cleared, and never above max_tty_output_queue_bytes.
THEOREM TypeCorrect == Spec => []TypeOK
<1>1. TtyInv => TypeOK
    <2>. SUFFICES ASSUME TtyInv PROVE TypeOK
        OBVIOUS
    <2>1. {overflowPending, closing, readerDone} \subseteq BOOLEAN
          /\ {registered, freed, busy} \subseteq BOOLEAN
        BY Zenon DEF TtyInv, Types
    <2>2. handler \in {"idle", "ack", "abort", "wait", "blocked", "send", "sendClosed", "join",
                       "unregister", "unregisterAborted", "freeAgain", "left", "crashed"}
        BY DEF TtyInv, Types, Handlers, Before, After
    <2>. QED  BY <2>1, <2>2 DEF TtyInv, Types, BytesInv, TypeOK
<1>. QED  BY <1>1, TtyInvariant, PTL

\* LossIsAnnounced: chunks keep their order, and what the queue dropped has a marker no
\* later than the place where it is missing, however often it overflows and while the
\* connection thread takes chunks between two drops.
THEOREM LossesAreAnnounced == Spec => []LossIsAnnounced
<1>1. TtyInv => LossIsAnnounced
    <2>. SUFFICES ASSUME TtyInv, ~ closing, MutexFree, NEW i \in DOMAIN Stream,
                         IsData(Stream[i])
                  PROVE  /\ \A j \in 1 .. i - 1 : Stream[j].id < Stream[i].id
                         /\ \A k \in 1 .. Stream[i].id : Missing(k) => Announced(k)
        BY DEF LossIsAnnounced
    <2>1. Told(Stream, produced, FALSE)
        <3>1. Settled = produced /\ overflowPending = FALSE
            BY DEF TtyInv, Types, ThreadInv, MutexFree, Settled
        <3>. QED  BY <3>1 DEF TtyInv, LossInv
    <2>2. Stream[i] \in Item /\ produced \in Int
        BY StreamTypes DEF TtyInv, Types
    <2>3. Stream[i].id \in Int /\ Stream[i].id <= produced
        BY <2>1, <2>2, ItemSizes DEF Told
    <2>4. ASSUME NEW k \in 1 .. Stream[i].id, Missing(k) PROVE Announced(k)
        <3>1. k \in 1 .. produced
            BY <2>2, <2>3
        <3>. QED  BY <2>1, <2>4, <3>1 DEF Told, Missing, Announced, Marked
    <2>5. \A j \in 1 .. i - 1 : Stream[j].id < Stream[i].id
        BY <2>1 DEF Told
    <2>. QED  BY <2>4, <2>5
<1>. QED  BY <1>1, TtyInvariant, PTL

\* ExitDrains: a stream is reported closed after the last chunk the reader took is sent,
\* unless it was closed, and then nothing is queued again.
THEOREM DrainsBeforeClosed == Spec => []ExitDrains
<1>1. TtyInv => ExitDrains
    <2>. SUFFICES ASSUME TtyInv PROVE ExitDrains
        OBVIOUS
    <2>1. closing => queue = <<>>
        BY DEF TtyInv, ThreadInv
    <2>2. ASSUME handler \in {"sendClosed", "join"}, ~ closing, produced # 0
          PROVE  sent # <<>> /\ Last(sent).id = produced
        <3>1. queue = <<>> /\ MutexFree /\ produced > 0 /\ sent \in Seq(Item)
            BY <2>2, SizesAssumption DEF TtyInv, ThreadInv, MutexFree, Types
        <3>2. Stream = sent
            BY <2>2, <3>1 DEF Stream
        <3>3. Len(sent) \in DOMAIN sent /\ sent[Len(sent)].id = produced
            BY <2>2, <3>1, <3>2 DEF TtyInv, LossInv
        <3>. QED  BY <3>1, <3>3 DEF Last
    <2>. QED  BY <2>1, <2>2 DEF ExitDrains
<1>. QED  BY <1>1, TtyInvariant, PTL
=============================================================================

------------------------ MODULE ProjectionStreamsProofs ------------------------
(***************************************************************************)
(* Proofs about ProjectionStreams for any clients, writers, tree and       *)
(* changes.                                                                *)
(*                                                                         *)
(* ListInv says which streams the registry lists and what the references   *)
(* of their sessions are, MutexInv who announces, and SeenInv that a       *)
(* change a viewer has not seen is below its node.                         *)
(***************************************************************************)
EXTENDS ProjectionStreams, TLAPS

Labels == {"idle", "register", "ack", "read", "exit", "release", "gone"}

Types ==
    /\ DOMAIN parent \subseteq DOMAIN InitParent /\ changes \in 0 .. MaxChanges
    /\ registry \in Seq(Clients)
    /\ mutex \in Writers \cup {NoWriter}
    /\ root \in [Clients -> Roots \cup {NoNode}]
    /\ conv \in [Clients -> ConversationIds \cup {0}]
    /\ refCount \in [Clients -> Int]
    /\ handleFreed \in [Clients -> BOOLEAN] /\ sessionFreed \in [Clients -> BOOLEAN]
    /\ hungUp \in [Clients -> BOOLEAN] /\ notified \in [Clients -> BOOLEAN]
    /\ conn \in [Clients -> Labels]
    /\ unseen \in [Clients -> SUBSET Nat]
    /\ pc \in [Writers -> {"idle", "notify", "broadcast"}]
    /\ change \in [Writers -> Changes \cup {NoChange}]
    /\ next \in [Writers -> Nat \ {0}]
    /\ stale \in [Writers -> Seq(ConversationIds)]
    /\ crashed \in BOOLEAN

\* The connection thread has its reference, and the stream has one.
Own(c) == IF conn[c] = "gone" THEN 0 ELSE 1
Listed(c) == IF Registered(c) THEN 1 ELSE 0

\* The stream of a client is listed after it registers; its handle is freed in the
\* registry only when the acknowledgement failed.
Kept(c) ==
    /\ conn[c] # "idle" => conv[c] \in ConversationIds
    /\ Contains(registry, c) => conn[c] \notin {"idle", "register"}
    /\ handleFreed[c] => conn[c] \in {"exit", "release", "gone"}
    /\ conn[c] \in {"release", "gone"} => ~ Registered(c)
    /\ sessionFreed[c] => conn[c] = "gone"
    /\ refCount[c] = Own(c) + Listed(c)

\* A client is listed at most once.
Once == \A i, j \in DOMAIN registry : registry[i] = registry[j] => i = j

ListInv == Once /\ \A c \in Clients : Kept(c)

\* Only the holder of the mutex broadcasts.
MutexInv ==
    \A w \in Writers :
        /\ pc[w] = "broadcast" => mutex = w
        /\ pc[w] # "broadcast" => next[w] = 1

\* What a viewer has not seen and is still there is below its node.
SeenInv ==
    \A c \in Clients :
        /\ unseen[c] # {} => conn[c] = "read" /\ ~ hungUp[c]
        /\ \A n \in unseen[c] : n \in Live /\ root[c] \in Live => Within(root[c], n)

StreamsInv == Types /\ ListInv /\ MutexInv /\ SeenInv /\ ChangesAreTold

-----------------------------------------------------------------------------
(* The registry.                                                           *)

LEMMA Behind ==
    ASSUME NEW S, NEW s \in Seq(S), NEW t \in Seq(S), NEW k \in 1 .. Len(t)
    PROVE  (s \o t)[Len(s) + k] = t[k]
<1>1. Len(s) \in Nat /\ Len(t) \in Nat
    OBVIOUS
<1>. QED  BY <1>1

LEMMA RemoveAtIs ==
    ASSUME NEW S, NEW s \in Seq(S), NEW i \in DOMAIN s
    PROVE  /\ RemoveAt(s, i) \in Seq(S) /\ Len(RemoveAt(s, i)) = Len(s) - 1
           /\ \A j \in 1 .. Len(s) - 1 :
                 RemoveAt(s, i)[j] = IF j < i THEN s[j] ELSE s[j + 1]
<1>. DEFINE front == SubSeq(s, 1, i - 1)
            back == SubSeq(s, i + 1, Len(s))
<1>1. i \in 1 .. Len(s) /\ Len(s) \in Nat
    OBVIOUS
<1>2. /\ front \in Seq(S) /\ Len(front) = i - 1
      /\ \A j \in 1 .. i - 1 : front[j] = s[j]
    BY <1>1
<1>3. /\ back \in Seq(S) /\ Len(back) = Len(s) - i
      /\ \A j \in 1 .. Len(s) - i : back[j] = s[i + j]
    BY <1>1
<1>4. RemoveAt(s, i) = front \o back
    BY DEF RemoveAt
<1>. HIDE DEF front, back
<1>5. /\ front \o back \in Seq(S) /\ Len(front \o back) = Len(s) - 1
      /\ \A j \in 1 .. i - 1 : (front \o back)[j] = front[j]
      /\ \A k \in 1 .. Len(s) - i : (front \o back)[(i - 1) + k] = back[k]
    <2>1. front \o back \in Seq(S) /\ Len(front \o back) = Len(s) - 1
        BY <1>1, <1>2, <1>3
    <2>2. ASSUME NEW j \in 1 .. i - 1 PROVE (front \o back)[j] = front[j]
        BY <1>1, <1>2, <1>3
    <2>3. ASSUME NEW k \in 1 .. Len(s) - i PROVE (front \o back)[(i - 1) + k] = back[k]
        BY <1>2, <1>3, Behind
    <2>. QED  BY <2>1, <2>2, <2>3
<1>6. ASSUME NEW j \in 1 .. Len(s) - 1
      PROVE  (front \o back)[j] = IF j < i THEN s[j] ELSE s[j + 1]
    <2>1. CASE j < i
        BY <1>1, <1>2, <1>5, <2>1
    <2>2. CASE ~ (j < i)
        <3>1. PICK k \in 1 .. Len(s) - i : (i - 1) + k = j
            <4>1. j - (i - 1) \in 1 .. Len(s) - i /\ (i - 1) + (j - (i - 1)) = j
                BY <1>1, <2>2
            <4>. QED  BY <4>1
        <3>2. (front \o back)[j] = back[k]
            BY <1>5, <3>1
        <3>3. back[k] = s[i + k] /\ i + k = j + 1
            BY <1>1, <1>3, <3>1
        <3>. QED  BY <2>2, <3>2, <3>3
    <2>. QED  BY <2>1, <2>2
<1>. QED  BY <1>4, <1>5, <1>6

\* What is left of the registry, and what the removed stream's session lost.
LEMMA Unlisting ==
    ASSUME Types, ListInv, NEW i \in DOMAIN registry, Unlist(i)
    PROVE  /\ registry[i] \in Clients
           /\ registry' \in Seq(Clients) /\ Len(registry') = Len(registry) - 1
           /\ \A j \in DOMAIN registry' : Contains(registry, registry'[j])
           /\ \A j, k \in DOMAIN registry' : registry'[j] = registry'[k] => j = k
           /\ ~ Contains(registry', registry[i])
           /\ \A c \in Clients \ {registry[i]} : Contains(registry', c) <=> Contains(registry, c)
           /\ refCount' \in [Clients -> Int] /\ refCount'[registry[i]] = refCount[registry[i]] - 1
           /\ \A c \in Clients \ {registry[i]} : refCount'[c] = refCount[c]
<1>1. registry \in Seq(Clients) /\ registry[i] \in Clients /\ i \in 1 .. Len(registry)
    BY DEF Types
<1>2. /\ registry' \in Seq(Clients) /\ Len(registry') = Len(registry) - 1
      /\ \A j \in 1 .. Len(registry) - 1 :
            registry'[j] = IF j < i THEN registry[j] ELSE registry[j + 1]
    BY <1>1, RemoveAtIs DEF Unlist
<1>. DEFINE Old(j) == IF j < i THEN j ELSE j + 1
<1>3. ASSUME NEW j \in DOMAIN registry'
      PROVE  /\ j \in 1 .. Len(registry) - 1
             /\ Old(j) \in DOMAIN registry /\ Old(j) # i /\ registry'[j] = registry[Old(j)]
    BY <1>1, <1>2
<1>4. ASSUME NEW k \in DOMAIN registry, k # i
      PROVE  \E j \in DOMAIN registry' : registry'[j] = registry[k]
    <2>1. CASE k < i
        BY <1>1, <1>2, <2>1
    <2>2. CASE k > i
        <3>1. k - 1 \in DOMAIN registry' /\ registry'[k - 1] = registry[k]
            BY <1>1, <1>2, <2>2
        <3>. QED  BY <3>1
    <2>. QED  BY <1>1, <1>4, <2>1, <2>2
<1>5. \A j, k \in DOMAIN registry' : registry'[j] = registry'[k] => j = k
    <2>1. ASSUME NEW j \in DOMAIN registry', NEW k \in DOMAIN registry', registry'[j] = registry'[k]
          PROVE  j = k
        <3>1. Old(j) = Old(k)
            <4>. HIDE DEF Old
            <4>. QED  BY <1>3, <2>1 DEF ListInv, Once
        <3>2. j \in Int /\ k \in Int /\ i \in Int
            BY <1>1, <1>2, <1>3
        <3>3. CASE j < i /\ k < i
            BY <3>1, <3>2, <3>3
        <3>4. CASE ~ (j < i) /\ ~ (k < i)
            BY <3>1, <3>2, <3>4
        <3>5. CASE (j < i) # (k < i)
            BY <3>1, <3>2, <3>5
        <3>. QED  BY <3>3, <3>4, <3>5
    <2>. QED  BY <2>1
<1>6. \A c \in Clients : Contains(registry, c) <=> \E k \in DOMAIN registry : registry[k] = c
    BY <1>1 DEF Contains
<1>7. \A c \in Clients : Contains(registry', c) <=> \E k \in DOMAIN registry' : registry'[k] = c
    BY <1>2 DEF Contains
<1>8. ~ Contains(registry', registry[i])
    <2>. HIDE DEF Old
    <2>. QED  BY <1>1, <1>3, <1>7 DEF ListInv, Once
<1>9. \A c \in Clients \ {registry[i]} : Contains(registry', c) <=> Contains(registry, c)
    <2>. HIDE DEF Old
    <2>. QED  BY <1>3, <1>4, <1>6, <1>7
<1>10. \A j \in DOMAIN registry' : Contains(registry, registry'[j])
    <2>. HIDE DEF Old
    <2>1. \A j \in DOMAIN registry' : registry'[j] \in Clients
        BY <1>2
    <2>. QED  BY <1>3, <1>6, <2>1
<1>11. /\ refCount' \in [Clients -> Int] /\ refCount'[registry[i]] = refCount[registry[i]] - 1
       /\ \A c \in Clients \ {registry[i]} : refCount'[c] = refCount[c]
    BY <1>1 DEF Unlist, Types
<1>. QED  BY <1>1, <1>2, <1>5, <1>8, <1>9, <1>10, <1>11

LEMMA Unregistering ==
    ASSUME Types, NEW id, Unregister(id)
    PROVE  /\ crashed' \in BOOLEAN
           /\ \/ UNCHANGED <<registry, refCount>>
              \/ \E i \in DOMAIN registry : ~ handleFreed[registry[i]] /\ Unlist(i)
BY DEF Unregister, LookAt, Places

\* Nothing about a client changes.
LEMMA KeptFrame ==
    ASSUME NEW c, Kept(c), Contains(registry', c) <=> Contains(registry, c),
           conn'[c] = conn[c], conv'[c] = conv[c], handleFreed'[c] = handleFreed[c],
           sessionFreed'[c] = sessionFreed[c], refCount'[c] = refCount[c]
    PROVE  Kept(c)'
BY DEF Kept, Own, Listed, Registered

\* A removed stream was listed and is not any more; the others are as they were.
LEMMA ListUnlist ==
    ASSUME Types, ListInv, NEW i \in DOMAIN registry, ~ handleFreed[registry[i]], Unlist(i),
           UNCHANGED <<conv, handleFreed, sessionFreed>>,
           \A c \in Clients \ {registry[i]} : conn'[c] = conn[c],
           \/ conn'[registry[i]] = conn[registry[i]]
           \/ conn[registry[i]] = "exit" /\ conn'[registry[i]] = "release"
    PROVE  ListInv' /\ ~ Contains(registry', registry[i])
<1>1. PICK d \in Clients : d = registry[i]
    BY DEF Types
<1>2. Contains(registry, d) /\ ~ Contains(registry', d) /\ Kept(d)
    BY <1>1, Unlisting DEF Types, Contains, ListInv
<1>3. ASSUME NEW c \in Clients, c # d PROVE Kept(c)'
    BY <1>1, <1>3, Unlisting, KeptFrame DEF ListInv
<1>4. refCount'[d] = refCount[d] - 1
    BY <1>1, Unlisting
<1>5. Listed(d) = 1 /\ ~ Registered(d)' /\ Listed(d)' = 0
    BY <1>1, <1>2 DEF Listed, Registered
<1>6. Own(d) = Own(d)' /\ Own(d) \in Int
    BY <1>1 DEF Own
<1>7. Kept(d)'
    BY <1>1, <1>2, <1>4, <1>5, <1>6 DEF Kept
<1>. QED  BY <1>1, <1>2, <1>3, <1>7, Unlisting DEF ListInv, Once

-----------------------------------------------------------------------------
(* The registry and its references.                                        *)

LEMMA ListInit == Init => ListInv
<1>. SUFFICES ASSUME Init PROVE ListInv
    OBVIOUS
<1>1. \A c : ~ Contains(registry, c)
    BY DEF Init, Contains
<1>. QED  BY <1>1 DEF Init, ListInv, Once, Kept, Own, Listed, Registered

LEMMA ListStep == Types /\ ListInv /\ [Next]_vars => ListInv'
<1>. SUFFICES ASSUME Types, ListInv, [Next]_vars PROVE ListInv'
    OBVIOUS
<1>. USE DEF streams, sessions, clients, writers
<1>1. ASSUME NEW c \in Clients, Resolve(c) PROVE ListInv'
    <2>1. Kept(c)'
        BY <1>1 DEF Resolve, Types, ListInv, Kept, Own, Listed, Registered
    <2>2. ASSUME NEW d \in Clients, d # c PROVE Kept(d)'
        BY <1>1, <2>2, KeptFrame DEF Resolve, Types, ListInv
    <2>. QED  BY <1>1, <2>1, <2>2 DEF Resolve, ListInv, Once
<1>2. ASSUME NEW c \in Clients, Register(c) PROVE ListInv'
    <2>1. ~ Contains(registry, c) /\ conn[c] = "register" /\ Kept(c)
        BY <1>2 DEF Register, ListInv, Kept
    <2>2. registry' = Append(registry, c) /\ registry \in Seq(Clients)
        BY <1>2 DEF Register, Types
    <2>3. /\ Contains(registry', c)
          /\ \A d \in Clients \ {c} : Contains(registry', d) <=> Contains(registry, d)
        BY <2>2 DEF Contains
    <2>4. Once'
        BY <2>1, <2>2 DEF ListInv, Once, Contains
    <2>5. ASSUME NEW d \in Clients, d # c PROVE Kept(d)'
        BY <1>2, <2>3, <2>5, KeptFrame DEF Register, Types, ListInv
    <2>6. Kept(c)'
        BY <1>2, <2>1, <2>3 DEF Register, Types, Kept, Own, Listed, Registered
    <2>. QED  BY <2>4, <2>5, <2>6 DEF ListInv
<1>3. ASSUME NEW c \in Clients, Acknowledge(c) PROVE ListInv'
    <2>1. Kept(c)'
        <3>1. Kept(c) /\ conn[c] = "ack" /\ conv' = conv /\ sessionFreed' = sessionFreed
              /\ registry' = registry
            BY <1>3 DEF Acknowledge, ListInv
        <3>2. CASE conn'[c] = "read" /\ UNCHANGED <<handleFreed, refCount>>
            BY <3>1, <3>2 DEF Kept, Own, Listed, Registered
        <3>3. CASE /\ conn'[c] = "exit" /\ handleFreed'[c] = TRUE
                   /\ refCount'[c] = IF Registered(c) THEN refCount[c] - 1 ELSE refCount[c]
            BY <3>1, <3>3 DEF Kept, Own, Listed, Registered
        <3>. QED  BY <1>3, <3>2, <3>3 DEF Acknowledge, Types
    <2>2. ASSUME NEW d \in Clients, d # c PROVE Kept(d)'
        BY <1>3, <2>2, KeptFrame DEF Acknowledge, Types, ListInv
    <2>. QED  BY <1>3, <2>1, <2>2 DEF Acknowledge, ListInv, Once
<1>4. ASSUME NEW id, Unregister(id), UNCHANGED <<conv, handleFreed, sessionFreed, conn>>
      PROVE  ListInv'
    <2>1. CASE UNCHANGED <<registry, refCount>>
        BY <1>4, <2>1, KeptFrame DEF ListInv, Once
    <2>2. CASE \E i \in DOMAIN registry : ~ handleFreed[registry[i]] /\ Unlist(i)
        BY <1>4, <2>2, ListUnlist
    <2>. QED  BY <1>4, <2>1, <2>2, Unregistering
<1>5. ASSUME NEW c \in Clients, CloseSession(c) PROVE ListInv'
    <2>1. CASE Registered(c)
        <3>1. PICK i \in DOMAIN registry : registry[i] = c /\ Unlist(i)
            BY <1>5, <2>1 DEF CloseSession
        <3>. QED  BY <1>5, <2>1, <3>1, ListUnlist DEF CloseSession, Types, Registered
    <2>2. CASE ~ Registered(c)
        <3>1. UNCHANGED <<registry, refCount, conv, handleFreed, sessionFreed>>
              /\ conn[c] = "exit" /\ conn' = [conn EXCEPT ![c] = "release"]
            BY <1>5, <2>2 DEF CloseSession
        <3>2. Kept(c)'
            BY <2>2, <3>1 DEF Types, ListInv, Kept, Own, Listed, Registered
        <3>3. ASSUME NEW d \in Clients, d # c PROVE Kept(d)'
            BY <3>1, <3>3, KeptFrame DEF Types, ListInv
        <3>. QED  BY <3>1, <3>2, <3>3 DEF ListInv, Once
    <2>. QED  BY <2>1, <2>2
<1>6. ASSUME NEW c \in Clients, Release(c) PROVE ListInv'
    <2>1. Kept(c)'
        <3>1. Kept(c) /\ conn[c] = "release" /\ ~ Registered(c) /\ refCount[c] = 1
            BY <1>6 DEF Release, ListInv, Kept, Own, Listed
        <3>. QED  BY <1>6, <3>1 DEF Release, Types, Kept, Own, Listed, Registered
    <2>2. ASSUME NEW d \in Clients, d # c PROVE Kept(d)'
        BY <1>6, <2>2, KeptFrame DEF Release, Types, ListInv
    <2>. QED  BY <1>6, <2>1, <2>2 DEF Release, ListInv, Once
<1>7. ASSUME NEW c \in Clients, ReadEnd(c) PROVE ListInv'
    <2>1. Kept(c)'
        BY <1>7 DEF ReadEnd, Types, ListInv, Kept, Own, Listed, Registered
    <2>2. ASSUME NEW d \in Clients, d # c PROVE Kept(d)'
        BY <1>7, <2>2, KeptFrame DEF ReadEnd, Types, ListInv
    <2>. QED  BY <1>7, <2>1, <2>2 DEF ReadEnd, ListInv, Once
<1>8. ASSUME UNCHANGED <<registry, conv, handleFreed, sessionFreed, conn, refCount>>
      PROVE  ListInv'
    BY <1>8, KeptFrame DEF ListInv, Once
<1>9. ASSUME NEW c \in Clients, HangUp(c) \/ Fetch(c) PROVE ListInv'
    BY <1>8, <1>9 DEF HangUp, Fetch
<1>10. ASSUME NEW w \in Writers, Commit(w) \/ LockRegistry(w) \/ SendFrame(w) \/ EndBroadcast(w)
       PROVE  ListInv'
    BY <1>8, <1>10 DEF Commit, LockRegistry, SendFrame, EndBroadcast
<1>11. CASE UNCHANGED vars
    BY <1>8, <1>11 DEF vars
<1>12. ASSUME NEW c \in Clients, CloseStream(c) PROVE ListInv'
    BY <1>4, <1>12 DEF CloseStream
<1>13. ASSUME NEW w \in Writers, DropStale(w) PROVE ListInv'
    BY <1>4, <1>13 DEF DropStale
<1>. QED  BY <1>1, <1>2, <1>3, <1>5, <1>6, <1>7, <1>9, <1>10, <1>11, <1>12, <1>13
          DEF Next, Connect, Announce

-----------------------------------------------------------------------------
(* The tree: what is below a node stays below it while both are there.     *)

LEMMA SubtreeHolds ==
    ASSUME NEW tree, NEW n \in DOMAIN tree
    PROVE  n \in Subtree(tree, n)
BY DEF Subtree

LEMMA SubtreeClosed ==
    ASSUME NEW tree, NEW n, NEW m \in DOMAIN tree, tree[m] \in Subtree(tree, n)
    PROVE  m \in Subtree(tree, n)
BY DEF Subtree

LEMMA SubtreeRemains ==
    ASSUME NEW tree, NEW gone, NEW top, NEW n \in Subtree(tree, top),
           n \in DOMAIN WithoutSubtree(tree, tree, gone)
    PROVE  n \in Subtree(WithoutSubtree(tree, tree, gone), top)
<1>. DEFINE rest == WithoutSubtree(tree, tree, gone)
<1>1. /\ DOMAIN rest = DOMAIN tree \ Subtree(tree, gone)
      /\ \A m \in DOMAIN rest : rest[m] = tree[m]
    BY DEF WithoutSubtree
<1>. HIDE DEF rest
<1>2. ASSUME NEW S \in SUBSET (DOMAIN rest), top \in S,
             \A m \in DOMAIN rest : rest[m] \in S => m \in S
      PROVE  n \in S
    <2>. DEFINE All == S \cup Subtree(tree, gone)
    <2>1. All \in SUBSET (DOMAIN tree) /\ top \in All
        BY <1>1, <1>2 DEF Subtree
    <2>2. ASSUME NEW m \in DOMAIN tree, tree[m] \in All PROVE m \in All
        BY <1>1, <1>2, <2>2, SubtreeClosed
    <2>3. n \in All
        BY <2>1, <2>2 DEF Subtree
    <2>. QED  BY <1>1, <2>3 DEF rest
<1>3. n \in DOMAIN rest
    BY DEF rest
<1>4. n \in Subtree(rest, top)
    BY <1>2, <1>3 DEF Subtree
<1>. QED  BY <1>4 DEF rest

-----------------------------------------------------------------------------
(* The types.                                                              *)

LEMMA TypesInit == Init => Types
<1>. SUFFICES ASSUME Init PROVE Types
    OBVIOUS
<1>1. DOMAIN parent \subseteq DOMAIN InitParent /\ changes \in 0 .. MaxChanges
    BY StreamsAssumption DEF Init
<1>2. registry \in Seq(Clients) /\ mutex \in Writers \cup {NoWriter}
    BY DEF Init
<1>3. /\ root \in [Clients -> Roots \cup {NoNode}]
      /\ conv \in [Clients -> ConversationIds \cup {0}]
      /\ refCount \in [Clients -> Int] /\ conn \in [Clients -> Labels]
      /\ unseen \in [Clients -> SUBSET Nat]
    BY DEF Init, Labels
<1>4. /\ handleFreed \in [Clients -> BOOLEAN] /\ sessionFreed \in [Clients -> BOOLEAN]
      /\ hungUp \in [Clients -> BOOLEAN] /\ notified \in [Clients -> BOOLEAN]
    BY DEF Init
<1>5. /\ pc \in [Writers -> {"idle", "notify", "broadcast"}]
      /\ change \in [Writers -> Changes \cup {NoChange}]
      /\ next \in [Writers -> Nat \ {0}]
    BY DEF Init
<1>6. stale \in [Writers -> Seq(ConversationIds)]
    BY DEF Init
<1>7. crashed \in BOOLEAN
    BY Zenon DEF Init
<1>. QED  BY <1>1, <1>2, <1>3, <1>4, <1>5, <1>6, <1>7 DEF Types

LEMMA TypesStep == Types /\ ListInv /\ [Next]_vars => Types'
<1>. SUFFICES ASSUME Types, ListInv, [Next]_vars PROVE Types'
    OBVIOUS
<1>. USE StreamsAssumption DEF streams, sessions, clients, writers
<1>1. ASSUME NEW c \in Clients, Resolve(c) PROVE Types'
    BY <1>1 DEF Resolve, Types, Labels
<1>2. ASSUME NEW c \in Clients, Register(c) PROVE Types'
    <2>1. registry' \in Seq(Clients)
        BY <1>2 DEF Register, Types
    <2>2. refCount' \in [Clients -> Int]
        BY <1>2 DEF Register, Types
    <2>. QED  BY <1>2, <2>1, <2>2 DEF Register, Types, Labels
<1>3. ASSUME NEW c \in Clients, Acknowledge(c) PROVE Types'
    <2>1. refCount' \in [Clients -> Int]
        BY <1>3 DEF Acknowledge, Types
    <2>. QED  BY <1>3, <2>1 DEF Acknowledge, Types, Labels
<1>4. ASSUME NEW id, Unregister(id)
      PROVE  registry' \in Seq(Clients) /\ refCount' \in [Clients -> Int] /\ crashed' \in BOOLEAN
    BY <1>4, Unregistering, Unlisting DEF Types
<1>5. ASSUME NEW c \in Clients, CloseStream(c) PROVE Types'
    BY <1>4, <1>5 DEF CloseStream, Types
<1>6. ASSUME NEW c \in Clients, CloseSession(c) PROVE Types'
    <2>1. registry' \in Seq(Clients) /\ refCount' \in [Clients -> Int]
        BY <1>6, Unlisting DEF CloseSession, Types
    <2>. QED  BY <1>6, <2>1 DEF CloseSession, LookAt, Types, Labels
<1>7. ASSUME NEW c \in Clients, Release(c) PROVE Types'
    <2>1. refCount' \in [Clients -> Int]
        BY <1>7 DEF Release, Types
    <2>. QED  BY <1>7, <2>1 DEF Release, Types, Labels
<1>8. ASSUME NEW c \in Clients, ReadEnd(c) PROVE Types'
    BY <1>8 DEF ReadEnd, Types, Labels
<1>9. ASSUME NEW c \in Clients, HangUp(c) \/ Fetch(c) PROVE Types'
    BY <1>9 DEF HangUp, Fetch, Types
<1>10. ASSUME NEW w \in Writers, Commit(w) PROVE Types'
    <2>1. DOMAIN parent' \subseteq DOMAIN parent
        BY <1>10 DEF Commit, WithoutSubtree
    <2>2. unseen' \in [Clients -> SUBSET Nat]
        BY <1>10 DEF Commit, Types, Change
    <2>3. changes' \in 0 .. MaxChanges
        BY <1>10 DEF Commit, Types
    <2>. QED  BY <1>10, <2>1, <2>2, <2>3 DEF Commit, Types
<1>11. ASSUME NEW w \in Writers, LockRegistry(w) PROVE Types'
    BY <1>11 DEF LockRegistry, Types
<1>12. ASSUME NEW w \in Writers, SendFrame(w) PROVE Types'
    <2>1. PICK c \in Clients : c = registry[next[w]] /\ Contains(registry, c)
        BY <1>12 DEF SendFrame, Types, Contains
    <2>2. conv[c] \in ConversationIds
        BY <2>1 DEF ListInv, Kept
    <2>3. stale' \in [Writers -> Seq(ConversationIds)]
        <3>1. stale' = stale \/ stale' = [stale EXCEPT ![w] = Append(stale[w], conv[c])]
            BY <1>12, <2>1 DEF SendFrame
        <3>2. stale \in [Writers -> Seq(ConversationIds)]
            BY DEF Types
        <3>3. Append(stale[w], conv[c]) \in Seq(ConversationIds)
            BY <2>2, <3>2
        <3>. QED  BY <3>1, <3>2, <3>3
    <2>4. notified' \in [Clients -> BOOLEAN] /\ crashed' \in BOOLEAN
        BY <1>12, <2>1 DEF SendFrame, Types
    <2>5. next' \in [Writers -> Nat \ {0}]
        BY <1>12 DEF SendFrame, Types
    <2>. QED  BY <1>12, <2>3, <2>4, <2>5 DEF SendFrame, Types
<1>13. ASSUME NEW w \in Writers, DropStale(w) PROVE Types'
    <2>1. stale' \in [Writers -> Seq(ConversationIds)]
        BY <1>13 DEF DropStale, Types
    <2>. QED  BY <1>4, <1>13, <2>1 DEF DropStale, Types
<1>14. ASSUME NEW w \in Writers, EndBroadcast(w) PROVE Types'
    BY <1>14 DEF EndBroadcast, Types
<1>15. CASE UNCHANGED vars
    BY <1>15 DEF vars, Types
<1>. QED  BY <1>1, <1>2, <1>3, <1>5, <1>6, <1>7, <1>8, <1>9, <1>10, <1>11, <1>12, <1>13, <1>14,
             <1>15 DEF Next, Connect, Announce

-----------------------------------------------------------------------------
(* The mutex.                                                              *)

LEMMA MutexStep == Types /\ MutexInv /\ [Next]_vars => MutexInv'
<1>. SUFFICES ASSUME Types, MutexInv, [Next]_vars PROVE MutexInv'
    OBVIOUS
<1>. USE DEF streams, sessions, clients, writers
<1>1. ASSUME UNCHANGED <<mutex, pc, next>> PROVE MutexInv'
    BY <1>1 DEF MutexInv
<1>2. ASSUME NEW c \in Clients, Connect(c) PROVE MutexInv'
    BY <1>1, <1>2
       DEF Connect, Register, Acknowledge, ReadEnd, CloseSession, Release
<1>3. ASSUME NEW c \in Clients, Resolve(c) \/ CloseStream(c) \/ HangUp(c) \/ Fetch(c)
      PROVE  MutexInv'
    BY <1>1, <1>3 DEF Resolve, CloseStream, HangUp, Fetch
<1>4. ASSUME NEW w \in Writers, Commit(w) PROVE MutexInv'
    BY <1>4 DEF Commit, Types, MutexInv
<1>5. ASSUME NEW w \in Writers, LockRegistry(w) PROVE MutexInv'
    BY <1>5, StreamsAssumption DEF LockRegistry, Types, MutexInv
<1>6. ASSUME NEW w \in Writers, SendFrame(w) PROVE MutexInv'
    BY <1>6 DEF SendFrame, Types, MutexInv
<1>7. ASSUME NEW w \in Writers, DropStale(w) PROVE MutexInv'
    BY <1>1, <1>7 DEF DropStale
<1>8. ASSUME NEW w \in Writers, EndBroadcast(w) PROVE MutexInv'
    BY <1>8 DEF EndBroadcast, Types, MutexInv
<1>9. CASE UNCHANGED vars
    BY <1>1, <1>9 DEF vars
<1>. QED  BY <1>2, <1>3, <1>4, <1>5, <1>6, <1>7, <1>8, <1>9 DEF Next, Announce

-----------------------------------------------------------------------------
(* What the viewers have not seen.                                         *)

LEMMA SeenStep == Types /\ SeenInv /\ [Next]_vars => SeenInv'
<1>. SUFFICES ASSUME Types, SeenInv, [Next]_vars PROVE SeenInv'
    OBVIOUS
<1>. USE DEF streams, sessions, clients, writers
<1>1. ASSUME UNCHANGED parent,
             \A c \in Clients : \/ unseen'[c] = {}
                                \/ /\ unseen'[c] = unseen[c] /\ conn'[c] = conn[c]
                                   /\ hungUp'[c] = hungUp[c] /\ root'[c] = root[c]
      PROVE  SeenInv'
    BY <1>1 DEF SeenInv, Live, Within
<1>2. ASSUME NEW c \in Clients, Resolve(c) PROVE SeenInv'
    <2>1. conn[c] = "idle" /\ UNCHANGED <<parent, unseen, hungUp>>
          /\ \A d \in Clients \ {c} : conn'[d] = conn[d] /\ root'[d] = root[d]
        BY <1>2 DEF Resolve, Types
    <2>2. unseen[c] = {}
        BY <2>1 DEF SeenInv
    <2>. QED  BY <1>1, <2>1, <2>2
<1>3. ASSUME NEW c \in Clients, Connect(c) PROVE SeenInv'
    <2>1. CASE Acknowledge(c)
        BY <1>1, <2>1 DEF Acknowledge, SeenInv, Types
    <2>2. CASE Register(c) \/ ReadEnd(c) \/ CloseSession(c) \/ Release(c)
        <3>1. /\ conn[c] # "read" \/ hungUp[c]
              /\ UNCHANGED <<parent, unseen, hungUp, root>>
              /\ \A d \in Clients \ {c} : conn'[d] = conn[d]
            BY <2>2 DEF Register, ReadEnd, CloseSession, Release, Types
        <3>. QED  BY <1>1, <3>1 DEF SeenInv
    <2>. QED  BY <1>3, <2>1, <2>2 DEF Connect
<1>4. ASSUME NEW c \in Clients, CloseStream(c) PROVE SeenInv'
    BY <1>1, <1>4 DEF CloseStream
<1>5. ASSUME NEW c \in Clients, HangUp(c) \/ Fetch(c) PROVE SeenInv'
    BY <1>1, <1>5 DEF HangUp, Fetch, Types
<1>6. ASSUME NEW w \in Writers, Commit(w) PROVE SeenInv'
    <2>1. PICK ch \in Changes :
            /\ ch.node \in Live
            /\ parent' = IF ch.kind = "remove" THEN WithoutSubtree(parent, parent, ch.node)
                         ELSE parent
            /\ unseen' = [c \in Clients |->
                  IF conn[c] = "read" /\ ~ hungUp[c] /\ Touches(ch, root[c])
                  THEN unseen[c] \cup {ch.node} ELSE unseen[c]]
        BY <1>6 DEF Commit
    <2>2. UNCHANGED <<conn, hungUp, root>>
        BY <1>6 DEF Commit
    <2>3. Live' \subseteq Live
        BY <2>1 DEF Live, WithoutSubtree
    <2>4. ASSUME NEW top, NEW n, Within(top, n), n \in Live', top \in Live'
          PROVE  Within(top, n)'
        BY <2>1, <2>3, <2>4, SubtreeRemains DEF Within, Live
    <2>5. ch.kind = "remove" => ch.node \notin Live'
        BY <2>1, SubtreeHolds DEF Live, WithoutSubtree
    <2>6. ASSUME NEW c \in Clients, NEW n \in unseen'[c], n \in Live', root[c] \in Live'
          PROVE  Within(root[c], n)
        <3>1. CASE n \in unseen[c]
            BY <2>3, <2>6, <3>1 DEF SeenInv
        <3>2. CASE n = ch.node /\ Touches(ch, root[c])
            BY <2>5, <2>6, <3>2 DEF Touches
        <3>. QED  BY <2>1, <2>6, <3>1, <3>2
    <2>7. ASSUME NEW c \in Clients, unseen'[c] # {} PROVE conn[c] = "read" /\ ~ hungUp[c]
        BY <2>1, <2>7 DEF SeenInv
    <2>. QED  BY <2>2, <2>4, <2>6, <2>7 DEF SeenInv
<1>7. ASSUME NEW w \in Writers, Announce(w) PROVE SeenInv'
    BY <1>1, <1>7 DEF Announce, LockRegistry, SendFrame, DropStale, EndBroadcast
<1>8. CASE UNCHANGED vars
    BY <1>1, <1>8 DEF vars
<1>. QED  BY <1>2, <1>3, <1>4, <1>5, <1>6, <1>7, <1>8 DEF Next

-----------------------------------------------------------------------------
(* Every change a viewer has not seen is announced to it.                  *)

\* What c has not seen and must be told of.
Owed(c) == {n \in unseen[c] : n \in Live \/ root[c] \notin Live}

\* Nothing c watches by changes, and the writers that have to tell it stay.
LEMMA ToldFrame ==
    ASSUME Types, ChangesAreTold, NEW c \in Clients, Watching(c)', Watching(c),
           UNCHANGED <<parent, change>>, root'[c] = root[c], unseen'[c] \subseteq unseen[c],
           notified'[c] = notified[c],
           \A w \in Writers, n \in unseen[c] : Announcing(w, c, n) => Announcing(w, c, n)'
    PROVE  \A n \in Owed(c)' : Told(c, n)'
<1>1. \A n \in Owed(c)' : n \in Owed(c)
    BY DEF Owed, Live
<1>. QED  BY <1>1 DEF ChangesAreTold, Owed, Told

\* While the mutex is held by nobody, or by a writer that has told everybody, only
\* writers that have not begun have to tell a client.
LEMMA OnlyWaiting ==
    ASSUME Types, MutexInv, NEW c, NEW n, NEW w \in Writers, Announcing(w, c, n),
           \/ mutex = NoWriter
           \/ \E v \in Writers : pc[v] = "broadcast" /\ next[v] > Len(registry)
    PROVE  pc[w] = "notify"
<1>1. CASE pc[w] = "broadcast"
    <2>1. mutex = w /\ w # NoWriter
        BY <1>1, StreamsAssumption DEF MutexInv
    <2>2. PICK v \in Writers : pc[v] = "broadcast" /\ next[v] > Len(registry)
        BY <2>1
    <2>3. v = w
        BY <2>1, <2>2 DEF MutexInv
    <2>4. PICK i \in DOMAIN registry : i >= next[w]
        BY <1>1 DEF Announcing
    <2>. QED  BY <2>2, <2>3, <2>4 DEF Types
<1>. QED  BY <1>1 DEF Announcing

LEMMA ToldIs == ChangesAreTold <=> \A c \in Clients : Watching(c) => \A n \in Owed(c) : Told(c, n)
BY DEF ChangesAreTold, Owed

LEMMA ToldStep == StreamsInv /\ [Next]_vars => ChangesAreTold'
<1>. SUFFICES ASSUME StreamsInv, [Next]_vars PROVE ChangesAreTold'
    OBVIOUS
<1>. USE DEF streams, sessions, clients, writers
<1>1. Types /\ ListInv /\ MutexInv /\ SeenInv /\ ChangesAreTold
    BY DEF StreamsInv
<1>2. SUFFICES ASSUME NEW c \in Clients, Watching(c)'
               PROVE  \A n \in Owed(c)' : Told(c, n)'
    BY DEF ChangesAreTold, Owed
<1>3. CASE unseen'[c] = {}
    BY <1>3 DEF Owed
<1>4. ASSUME Watching(c), UNCHANGED <<parent, change, pc, next, registry>>, root'[c] = root[c],
             unseen'[c] = unseen[c], notified'[c] = notified[c]
      PROVE  \A n \in Owed(c)' : Told(c, n)'
    <2>1. \A w \in Writers, n \in unseen[c] : Announcing(w, c, n) => Announcing(w, c, n)'
        BY <1>4 DEF Announcing, Live
    <2>. QED  BY <1>1, <1>2, <1>4, <2>1, ToldFrame
<1>5. ASSUME Watching(c), UNCHANGED <<parent, change, pc>>, root'[c] = root[c],
             unseen'[c] = unseen[c], notified'[c] = notified[c],
             \/ mutex = NoWriter
             \/ \E v \in Writers : pc[v] = "broadcast" /\ next[v] > Len(registry)
      PROVE  \A n \in Owed(c)' : Told(c, n)'
    <2>1. \A w \in Writers, n \in unseen[c] : Announcing(w, c, n) => Announcing(w, c, n)'
        BY <1>1, <1>5, OnlyWaiting DEF Announcing, Live
    <2>. QED  BY <1>1, <1>2, <1>5, <2>1, ToldFrame
<1>6. ASSUME NEW d \in Clients, Connect(d) PROVE \A n \in Owed(c)' : Told(c, n)'
    <2>1. CASE Register(d)
        <3>1. c # d /\ conn'[c] = conn[c] /\ handleFreed' = handleFreed /\ hungUp' = hungUp
              /\ registry' = Append(registry, d)
            BY <1>1, <1>2, <2>1 DEF Register, Types, Watching
        <3>2. Contains(registry, c)
            BY <1>1, <1>2, <3>1 DEF Types, Watching, Registered, Contains
        <3>3. Watching(c)
            BY <1>2, <3>1, <3>2 DEF Watching, Registered
        <3>. QED  BY <1>5, <2>1, <3>3 DEF Register
    <2>2. CASE Acknowledge(d)
        <3>1. CASE c = d
            BY <1>1, <1>2, <1>3, <2>2, <3>1 DEF Acknowledge, Types, Watching
        <3>2. CASE c # d
            <4>1. /\ conn'[c] = conn[c] /\ handleFreed'[c] = handleFreed[c]
                  /\ UNCHANGED <<hungUp, registry, parent, change, pc, next, root>>
                  /\ unseen'[c] = unseen[c] /\ notified'[c] = notified[c]
                BY <1>1, <2>2, <3>2 DEF Acknowledge, Types
            <4>2. Watching(c)
                BY <1>2, <4>1 DEF Watching, Registered
            <4>. QED  BY <1>4, <4>1, <4>2
        <3>. QED  BY <3>1, <3>2
    <2>3. CASE ReadEnd(d) \/ Release(d)
        <3>1. c # d /\ conn'[c] = conn[c]
            BY <1>1, <1>2, <2>3 DEF ReadEnd, Release, Types, Watching
        <3>2. Watching(c)
            BY <1>2, <2>3, <3>1 DEF ReadEnd, Release, Watching, Registered
        <3>. QED  BY <1>4, <2>3, <3>2 DEF ReadEnd, Release
    <2>4. CASE CloseSession(d)
        <3>1. conn'[c] = conn[c] /\ hungUp' = hungUp /\ handleFreed' = handleFreed
            BY <1>1, <1>2, <2>4 DEF CloseSession, Types, Watching
        <3>2. Contains(registry', c) => Contains(registry, c)
            BY <1>1, <2>4, Unlisting DEF CloseSession
        <3>3. Watching(c)
            BY <1>2, <3>1, <3>2 DEF Watching, Registered
        <3>. QED  BY <1>5, <2>4, <3>3 DEF CloseSession
    <2>. QED  BY <1>6, <2>1, <2>2, <2>3, <2>4 DEF Connect
<1>7. ASSUME NEW id, Unregister(id), UNCHANGED <<conn, hungUp, handleFreed>> PROVE Watching(c)
    <2>1. Contains(registry', c) => Contains(registry, c)
        BY <1>1, <1>7, Unregistering, Unlisting
    <2>. QED  BY <1>2, <1>7, <2>1 DEF Watching, Registered
<1>8. ASSUME NEW d \in Clients, Resolve(d) PROVE \A n \in Owed(c)' : Told(c, n)'
    <2>1. c # d /\ conn'[c] = conn[c] /\ root'[c] = root[c]
        BY <1>1, <1>2, <1>8 DEF Resolve, Types, Watching
    <2>2. Watching(c)
        BY <1>2, <1>8, <2>1 DEF Resolve, Watching, Registered
    <2>. QED  BY <1>4, <1>8, <2>1, <2>2 DEF Resolve
<1>9. ASSUME NEW d \in Clients, CloseStream(d) PROVE \A n \in Owed(c)' : Told(c, n)'
    <2>1. Watching(c)
        BY <1>7, <1>9 DEF CloseStream
    <2>. QED  BY <1>5, <1>9, <2>1 DEF CloseStream
<1>10. ASSUME NEW d \in Clients, HangUp(d) \/ Fetch(d) PROVE \A n \in Owed(c)' : Told(c, n)'
    <2>1. CASE c = d
        BY <1>1, <1>3, <1>10, <2>1 DEF HangUp, Fetch, Types
    <2>2. CASE c # d
        <3>1. /\ hungUp'[c] = hungUp[c] /\ unseen'[c] = unseen[c] /\ notified'[c] = notified[c]
              /\ UNCHANGED <<conn, handleFreed, registry, parent, change, pc, next, root>>
            BY <1>1, <1>10, <2>2 DEF HangUp, Fetch, Types
        <3>2. Watching(c)
            BY <1>2, <3>1 DEF Watching, Registered
        <3>. QED  BY <1>4, <3>1, <3>2
    <2>. QED  BY <2>1, <2>2
<1>11. ASSUME NEW w \in Writers, Commit(w) PROVE \A n \in Owed(c)' : Told(c, n)'
    <2>1. PICK ch \in Changes :
            /\ change' = [change EXCEPT ![w] = ch]
            /\ parent' = IF ch.kind = "remove" THEN WithoutSubtree(parent, parent, ch.node)
                         ELSE parent
            /\ unseen'[c] \subseteq unseen[c] \cup {ch.node}
        BY <1>11 DEF Commit
    <2>2. /\ pc[w] = "idle" /\ pc' = [pc EXCEPT ![w] = "notify"]
          /\ UNCHANGED <<registry, next, root, conn, hungUp, handleFreed, notified>>
        BY <1>11 DEF Commit
    <2>3. Live' \subseteq Live
        BY <2>1 DEF Live, WithoutSubtree
    <2>4. pc'[w] = "notify" /\ change'[w] = ch
        BY <1>1, <2>1, <2>2 DEF Types
    <2>5. Watching(c)
        BY <1>2, <2>2 DEF Watching, Registered
    <2>6. ASSUME NEW n \in Owed(c)', n = ch.node \/ root[c] \notin Live'
          PROVE  Told(c, n)'
        BY <2>2, <2>4, <2>6 DEF Told, Announcing
    <2>7. ASSUME NEW n \in Owed(c)', n # ch.node, root[c] \in Live'
          PROVE  Told(c, n)'
        <3>1. n \in Owed(c)
            BY <2>1, <2>2, <2>3, <2>7 DEF Owed
        <3>2. CASE notified[c]
            BY <2>2, <3>2 DEF Told
        <3>3. ASSUME NEW v \in Writers, Announcing(v, c, n) PROVE Announcing(v, c, n)'
            <4>1. v # w
                BY <2>2, <3>3 DEF Announcing
            <4>2. change'[v] = change[v] /\ pc'[v] = pc[v] /\ next'[v] = next[v]
                BY <1>1, <2>1, <2>2, <4>1 DEF Types
            <4>. QED  BY <2>2, <2>3, <2>7, <3>3, <4>2 DEF Announcing
        <3>. QED  BY <1>1, <2>5, <3>1, <3>2, <3>3 DEF ChangesAreTold, Owed, Told
    <2>. QED  BY <2>2, <2>6, <2>7
<1>12. ASSUME NEW w \in Writers, LockRegistry(w) PROVE \A n \in Owed(c)' : Told(c, n)'
    <2>1. /\ UNCHANGED <<registry, parent, change, next, root, unseen, notified>>
          /\ pc[w] = "notify" /\ pc' = [pc EXCEPT ![w] = "broadcast"]
        BY <1>12 DEF LockRegistry
    <2>2. Watching(c)
        BY <1>2, <1>12 DEF LockRegistry, Watching, Registered
    <2>3. next[w] = 1 /\ next'[w] = 1
        BY <1>1, <2>1 DEF MutexInv
    <2>4. \E i \in DOMAIN registry : i >= 1 /\ registry[i] = c
        BY <1>1, <2>2 DEF Watching, Registered, Contains, Types
    <2>5. ASSUME NEW v \in Writers, NEW n \in unseen[c], Announcing(v, c, n)
          PROVE  Announcing(v, c, n)'
        <3>1. CASE v = w
            BY <1>1, <2>1, <2>3, <2>4, <2>5, <3>1 DEF Announcing, Live, Types
        <3>2. CASE v # w
            BY <1>1, <2>1, <2>5, <3>2 DEF Announcing, Live, Types
        <3>. QED  BY <3>1, <3>2
    <2>. QED  BY <1>1, <1>2, <2>1, <2>2, <2>5, ToldFrame
<1>13. ASSUME NEW w \in Writers, SendFrame(w) PROVE \A n \in Owed(c)' : Told(c, n)'
    <2>1. PICK d \in Clients : d = registry[next[w]]
        BY <1>1, <1>13 DEF SendFrame, Types
    <2>2. /\ UNCHANGED <<registry, parent, change, pc, root, unseen, conn, hungUp, handleFreed>>
          /\ next' = [next EXCEPT ![w] = next[w] + 1]
          /\ pc[w] = "broadcast"
        BY <1>13 DEF SendFrame
    <2>3. Watching(c)
        BY <1>2, <2>2 DEF Watching, Registered
    <2>4. CASE c # d
        <3>1. notified'[c] = notified[c]
            BY <1>1, <1>13, <2>1, <2>4 DEF SendFrame, Types
        <3>2. ASSUME NEW v \in Writers, NEW n \in unseen[c], Announcing(v, c, n)
              PROVE  Announcing(v, c, n)'
            <4>1. CASE v = w
                <5>1. PICK i \in DOMAIN registry : i >= next[w] /\ registry[i] = c
                    BY <2>2, <3>2, <4>1 DEF Announcing
                <5>2. i # next[w] /\ i \in Nat /\ next[w] \in Nat
                    BY <1>1, <2>1, <2>4, <5>1 DEF Types
                <5>3. i >= next[w] + 1 /\ next'[w] = next[w] + 1
                    BY <1>1, <2>2, <5>1, <5>2 DEF Types
                <5>. QED  BY <2>2, <3>2, <4>1, <5>1, <5>3 DEF Announcing, Live
            <4>2. CASE v # w
                BY <1>1, <2>2, <3>2, <4>2 DEF Announcing, Live, Types
            <4>. QED  BY <4>1, <4>2
        <3>. QED  BY <1>1, <1>2, <2>2, <2>3, <3>1, <3>2, ToldFrame
    <2>5. CASE c = d
        <3>1. ~ handleFreed[c] /\ ~ hungUp[c]
            BY <2>3 DEF Watching, Registered
        <3>2. CASE notified'[c]
            BY <3>2 DEF Told
        <3>3. CASE ~ Interested(c, change[w].node) /\ UNCHANGED notified
            <4>1. root[c] \in Live /\ ~ Within(root[c], change[w].node)
                BY <3>3 DEF Interested
            <4>2. ASSUME NEW n \in Owed(c) PROVE change[w].node # n
                BY <1>1, <4>1, <4>2 DEF SeenInv, Owed
            <4>3. ASSUME NEW v \in Writers, NEW n \in Owed(c), Announcing(v, c, n)
                  PROVE  Announcing(v, c, n)'
                <5>1. v # w
                    BY <4>1, <4>2, <4>3 DEF Announcing
                <5>. QED  BY <1>1, <2>2, <4>3, <5>1 DEF Announcing, Live, Types
            <4>4. \A n \in Owed(c)' : n \in Owed(c)
                BY <2>2 DEF Owed, Live
            <4>. QED  BY <1>1, <2>3, <3>3, <4>3, <4>4 DEF ChangesAreTold, Owed, Told
        <3>4. notified'[c] \/ (~ Interested(c, change[w].node) /\ UNCHANGED notified)
            BY <1>1, <1>13, <2>1, <2>5, <3>1 DEF SendFrame, Types
        <3>. QED  BY <3>2, <3>3, <3>4
    <2>. QED  BY <2>4, <2>5
<1>14. ASSUME NEW w \in Writers, DropStale(w) PROVE \A n \in Owed(c)' : Told(c, n)'
    <2>1. Watching(c)
        BY <1>7, <1>14 DEF DropStale
    <2>. QED  BY <1>5, <1>14, <2>1 DEF DropStale
<1>15. ASSUME NEW w \in Writers, EndBroadcast(w) PROVE \A n \in Owed(c)' : Told(c, n)'
    <2>1. /\ UNCHANGED <<registry, parent, root, unseen, conn, hungUp, handleFreed, notified>>
          /\ \A v \in Writers \ {w} : change'[v] = change[v] /\ pc'[v] = pc[v]
          /\ pc[w] = "broadcast" /\ next[w] > Len(registry)
        BY <1>1, <1>15 DEF EndBroadcast, Types
    <2>2. Watching(c)
        BY <1>2, <2>1 DEF Watching, Registered
    <2>3. ASSUME NEW v \in Writers, NEW n, Announcing(v, c, n) PROVE Announcing(v, c, n)'
        <3>1. pc[v] = "notify" /\ v # w
            BY <1>1, <2>1, <2>3, OnlyWaiting
        <3>. QED  BY <2>1, <2>3, <3>1 DEF Announcing, Live
    <2>4. \A n \in Owed(c)' : n \in Owed(c)
        BY <2>1 DEF Owed, Live
    <2>. QED  BY <1>1, <2>1, <2>2, <2>3, <2>4 DEF ChangesAreTold, Owed, Told
<1>16. CASE UNCHANGED vars
    <2>1. Watching(c)
        BY <1>2, <1>16 DEF vars, Watching, Registered
    <2>. QED  BY <1>4, <1>16, <2>1 DEF vars
<1>. QED  BY <1>6, <1>8, <1>9, <1>10, <1>11, <1>12, <1>13, <1>14, <1>15, <1>16
          DEF Next, Announce

-----------------------------------------------------------------------------
(* The theorems.                                                           *)

\* The streams, the mutex and what the viewers know keep their invariant
\* (server.zig:382-550).
LEMMA StreamsInvariant == Spec => []StreamsInv
<1>1. Init => StreamsInv
    BY TypesInit, ListInit DEF StreamsInv, Init, MutexInv, SeenInv, ChangesAreTold
<1>2. StreamsInv /\ [Next]_vars => StreamsInv'
    <2>. SUFFICES ASSUME StreamsInv, [Next]_vars PROVE StreamsInv'
        OBVIOUS
    <2>1. Types /\ ListInv /\ MutexInv /\ SeenInv
        BY DEF StreamsInv
    <2>2. Types' /\ ListInv' /\ MutexInv' /\ SeenInv' /\ ChangesAreTold'
        BY <2>1, TypesStep, ListStep, MutexStep, SeenStep, ToldStep
    <2>. QED  BY <2>2 DEF StreamsInv
<1>. QED  BY <1>1, <1>2, PTL DEF Spec

\* The document only shrinks, the registry lists clients, and no reference count
\* goes below zero, whatever streams are closed and dropped (server.zig:382-458).
THEOREM TypeCorrect == Spec => []TypeOK
<1>1. StreamsInv => TypeOK
    <2>. SUFFICES ASSUME StreamsInv PROVE TypeOK
        OBVIOUS
    <2>1. Types /\ \A c \in Clients : refCount[c] = Own(c) + Listed(c)
        BY DEF StreamsInv, ListInv, Kept
    <2>2. \A c \in Clients : refCount[c] \in Nat
        BY <2>1 DEF Own, Listed
    <2>3. refCount \in [Clients -> Nat]
        BY <2>1, <2>2 DEF Types
    <2>. QED  BY <2>1, <2>3 DEF Types, TypeOK, Labels, Live
<1>. QED  BY <1>1, StreamsInvariant, PTL

\* A listed stream has its session, which is freed with its last reference, and a
\* connection that ends leaves no stream behind (server.zig:391, 404, 458, 1590).
THEOREM StreamsHaveSessions == Spec => []StreamsKeepSessions
<1>1. StreamsInv => StreamsKeepSessions
    <2>. SUFFICES ASSUME StreamsInv, NEW c \in Clients
                  PROVE  /\ Registered(c) => ~ sessionFreed[c]
                         /\ conn[c] \in {"release", "gone"} => ~ Registered(c)
                         /\ refCount[c] = (IF conn[c] = "gone" THEN 0 ELSE 1)
                                          + (IF Registered(c) THEN 1 ELSE 0)
        BY DEF StreamsKeepSessions
    <2>. QED  BY DEF StreamsInv, ListInv, Kept, Own, Listed
<1>. QED  BY <1>1, StreamsInvariant, PTL

\* A viewer that fetches when it is told to misses no change below its node that is
\* still there to be read (server.zig:499-550).
THEOREM ViewersAreTold == Spec => []ChangesAreTold
<1>1. StreamsInv => ChangesAreTold
    BY DEF StreamsInv
<1>. QED  BY <1>1, StreamsInvariant, PTL
=============================================================================

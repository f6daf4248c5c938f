------------------------- MODULE ProjectionStreams -------------------------
(***************************************************************************)
(* The projection streams of one document (src/daemon/server.zig).         *)
(*                                                                         *)
(* A viewer opens a stream on a node and is told when something below it   *)
(* changed, so that it fetches its projection again.  Whoever changes the  *)
(* document announces the change with the registry mutex held, stream by   *)
(* stream; streams whose frame could not be written are removed at the     *)
(* end, found again by conversation id.  Every client counts its           *)
(* conversation ids from 1, so two streams may have the same one.          *)
(*                                                                         *)
(* When the acknowledgement of an open cannot be written the handle is     *)
(* freed while the registry still lists it: what a later look at it does   *)
(* is left open, and it may end the daemon.                                *)
(***************************************************************************)
EXTENDS DocumentTree, Integers, SequencesExt

CONSTANTS
    Clients,         \* viewers, one connection and at most one stream each
    Writers,         \* threads that change the document: lanes, maintenance
    NoWriter,        \* the holder of the free registry mutex
    ConversationIds, \* conversation ids the clients have got to
    InitParent,      \* the tree the document starts with
    Roots,           \* nodes a stream may be opened on
    Changes,         \* changes the writers make
    MaxChanges       \* bound: changes made altogether

Change == [kind : {"update", "remove"}, node : Nat]

ASSUME StreamsAssumption ==
    /\ NoWriter \notin Writers
    /\ ConversationIds \subseteq Nat
    /\ Changes \subseteq Change
    /\ MaxChanges \in Nat

VARIABLES
    parent,        \* the document: parent of every live node
    changes,       \* changes made so far
    registry,      \* ProjectionStreamRegistry.streams, by their clients
    mutex,         \* who holds the registry mutex
    root, conv,    \* ProjectionStreamHandle.root_node_id, conversation_id
    handleFreed,   \* the memory of the client's handle was given back
    refCount, sessionFreed, \* the client's ConnectionSession
    conn,          \* where the client's connection thread is
    hungUp,        \* the client is gone
    unseen,        \* nodes changed since the client last fetched
    notified,      \* the client knows it has to fetch
    pc, change, next, stale, \* a writer, the change it announces, and to whom
    crashed        \* a look at freed memory ended the daemon

streams == <<registry, mutex, root, conv, handleFreed>>
sessions == <<refCount, sessionFreed>>
clients == <<hungUp, unseen, notified>>
writers == <<pc, change, next, stale>>
vars == <<parent, changes, streams, sessions, conn, clients, writers, crashed>>

Live == DOMAIN parent
NoChange == [kind |-> "update", node |-> NoNode]

Init ==
    /\ parent = InitParent /\ changes = 0
    /\ registry = <<>> /\ mutex = NoWriter
    /\ root = [c \in Clients |-> NoNode]
    /\ conv = [c \in Clients |-> 0]
    /\ handleFreed = [c \in Clients |-> FALSE]
    /\ refCount = [c \in Clients |-> 1]
    /\ sessionFreed = [c \in Clients |-> FALSE]
    /\ conn = [c \in Clients |-> "idle"]
    /\ hungUp = [c \in Clients |-> FALSE]
    /\ unseen = [c \in Clients |-> {}]
    /\ notified = [c \in Clients |-> FALSE]
    /\ pc = [w \in Writers |-> "idle"]
    /\ change = [w \in Writers |-> NoChange]
    /\ next = [w \in Writers |-> 1]
    /\ stale = [w \in Writers |-> <<>>]
    /\ crashed = FALSE

Registered(c) == Contains(registry, c) /\ ~ handleFreed[c]

\* Looking at the streams up to the k-th may end at a freed one.
LookAt(k) ==
    crashed' \in (IF \E i \in 1 .. k : handleFreed[registry[i]] THEN BOOLEAN ELSE {FALSE})

\* nodeWithinSubtree: the walk from n to the top comes by top; a node that is
\* gone ends it.
Within(top, n) == n = top \/ (top \in Live /\ n \in Subtree(parent, top))

\* Variant: the session of a stream is released twice.
UnlistTwice(i) ==
    /\ registry' = RemoveAt(registry, i)
    /\ refCount' = [refCount EXCEPT ![registry[i]] = @ - 2]

\* orderedRemove of the i-th stream and ProjectionStreamHandle.deinit
Unlist(i) ==
    /\ registry' = RemoveAt(registry, i)
    /\ refCount' = [refCount EXCEPT ![registry[i]] = @ - 1]

\* The places of the streams with a conversation id.
Places(id) == {i \in DOMAIN registry : conv[registry[i]] = id}

\* The first stream with a conversation id is removed.
Unregister(id) ==
    \/ /\ Places(id) = {}
       /\ LookAt(Len(registry))
       /\ UNCHANGED <<registry, refCount>>
    \/ \E i \in Places(id) :
        /\ \A j \in Places(id) : i <= j
        /\ LookAt(i)
        /\ IF handleFreed[registry[i]] THEN UNCHANGED <<registry, refCount>> ELSE Unlist(i)

-----------------------------------------------------------------------------
(* The connection threads.                                                 *)

\* resolveProjectionStreamTarget, under a guard that is released again.
Resolve(c) ==
    /\ conn[c] = "idle" /\ ~ hungUp[c]
    /\ \E n \in Roots \cap Live : root' = [root EXCEPT ![c] = n]
    /\ \E id \in ConversationIds : conv' = [conv EXCEPT ![c] = id]
    /\ conn' = [conn EXCEPT ![c] = "register"]
    /\ UNCHANGED <<parent, changes, registry, mutex, handleFreed, sessions, clients,
                   writers, crashed>>

\* Variant: the handle does not retain the session.
RegisterUnretained(c) ==
    /\ conn[c] = "register"
    /\ mutex = NoWriter
    /\ registry' = Append(registry, c)
    /\ conn' = [conn EXCEPT ![c] = "ack"]
    /\ UNCHANGED <<parent, changes, mutex, root, conv, handleFreed, sessions, clients,
                   writers, crashed>>

\* ProjectionStreamHandle.init and register
Register(c) ==
    /\ conn[c] = "register"
    /\ mutex = NoWriter
    /\ refCount' = [refCount EXCEPT ![c] = @ + 1]
    /\ registry' = Append(registry, c)
    /\ conn' = [conn EXCEPT ![c] = "ack"]
    /\ UNCHANGED <<parent, changes, mutex, root, conv, handleFreed, sessionFreed,
                   clients, writers, crashed>>

\* The acknowledgement; its failure frees the handle and leaves the loop.
Acknowledge(c) ==
    /\ conn[c] = "ack"
    /\ \/ /\ conn' = [conn EXCEPT ![c] = "read"]
          /\ unseen' = [unseen EXCEPT ![c] = {}]
          /\ notified' = [notified EXCEPT ![c] = ~ hungUp[c]]
          /\ UNCHANGED <<handleFreed, refCount>>
       \/ /\ hungUp[c]
          /\ conn' = [conn EXCEPT ![c] = "exit"]
          /\ handleFreed' = [handleFreed EXCEPT ![c] = TRUE]
          \* A stream no longer listed was freed already.
          /\ refCount' = [refCount EXCEPT ![c] = IF Registered(c) THEN @ - 1 ELSE @]
          /\ UNCHANGED <<unseen, notified>>
    /\ UNCHANGED <<parent, changes, registry, mutex, root, conv, sessionFreed,
                   hungUp, writers, crashed>>

\* projection.stream.close
CloseStream(c) ==
    /\ conn[c] = "read" /\ ~ hungUp[c]
    /\ mutex = NoWriter
    /\ Unregister(conv[c])
    /\ UNCHANGED <<parent, changes, mutex, root, conv, handleFreed, sessionFreed,
                   conn, clients, writers>>

\* The client is gone: readMessageLine returns null, or an error.
ReadEnd(c) ==
    /\ conn[c] = "read" /\ hungUp[c]
    /\ conn' = [conn EXCEPT ![c] = "exit"]
    /\ UNCHANGED <<parent, changes, streams, sessions, clients, writers, crashed>>

\* closeSession, deferred to the end of the connection thread
CloseSession(c) ==
    /\ conn[c] = "exit"
    /\ mutex = NoWriter
    /\ LookAt(Len(registry))
    /\ IF Registered(c)
       THEN \E i \in DOMAIN registry : registry[i] = c /\ Unlist(i)
       ELSE UNCHANGED <<registry, refCount>>
    /\ conn' = [conn EXCEPT ![c] = "release"]
    /\ UNCHANGED <<parent, changes, mutex, root, conv, handleFreed, sessionFreed,
                   clients, writers>>

\* The connection thread's own reference goes last.
Release(c) ==
    /\ conn[c] = "release"
    /\ refCount' = [refCount EXCEPT ![c] = @ - 1]
    /\ IF refCount[c] = 1
       THEN sessionFreed' = [sessionFreed EXCEPT ![c] = TRUE]
       ELSE UNCHANGED sessionFreed
    /\ conn' = [conn EXCEPT ![c] = "gone"]
    /\ UNCHANGED <<parent, changes, streams, clients, writers, crashed>>

-----------------------------------------------------------------------------
(* The clients.                                                            *)

HangUp(c) ==
    /\ conn[c] # "idle" /\ ~ hungUp[c]
    /\ hungUp' = [hungUp EXCEPT ![c] = TRUE]
    /\ unseen' = [unseen EXCEPT ![c] = {}]
    /\ notified' = [notified EXCEPT ![c] = FALSE]
    /\ UNCHANGED <<parent, changes, streams, sessions, conn, writers, crashed>>

\* projection.get, answered from the document as it is.
Fetch(c) ==
    /\ conn[c] = "read" /\ notified[c]
    /\ unseen' = [unseen EXCEPT ![c] = {}]
    /\ notified' = [notified EXCEPT ![c] = FALSE]
    /\ UNCHANGED <<parent, changes, streams, sessions, conn, hungUp, writers, crashed>>

-----------------------------------------------------------------------------
(* The writers.                                                            *)

\* A change at or below a viewer's node, and the removal of a node above it.
Touches(ch, top) == Within(top, ch.node) \/ (ch.kind = "remove" /\ Within(ch.node, top))

\* The handler's change to the document, before it is announced.
Commit(w) ==
    /\ pc[w] = "idle" /\ changes < MaxChanges
    /\ \E ch \in Changes :
        /\ ch.node \in Live
        /\ change' = [change EXCEPT ![w] = ch]
        /\ parent' = IF ch.kind = "remove" THEN WithoutSubtree(parent, parent, ch.node)
                     ELSE parent
        /\ unseen' = [c \in Clients |->
                IF conn[c] = "read" /\ ~ hungUp[c] /\ Touches(ch, root[c])
                THEN unseen[c] \cup {ch.node} ELSE unseen[c]]
    /\ changes' = changes + 1
    /\ pc' = [pc EXCEPT ![w] = "notify"]
    /\ UNCHANGED <<streams, sessions, conn, hungUp, notified, next, stale, crashed>>

LockRegistry(w) ==
    /\ pc[w] = "notify"
    /\ mutex = NoWriter
    /\ mutex' = w
    /\ pc' = [pc EXCEPT ![w] = "broadcast"]
    /\ UNCHANGED <<parent, changes, registry, root, conv, handleFreed, sessions, conn,
                   clients, change, next, stale, crashed>>

\* Variant: a viewer is told of changes to its own node only.
InterestedExactly(c, n) == root[c] \notin Live \/ root[c] = n

\* Which streams of the document get a frame: target_gone or the event.
Interested(c, n) == root[c] \notin Live \/ Within(root[c], n)

\* sendProjectionInvalidate, sendProjectionTtyData, sendProjectionTargetGone
SendFrame(w) ==
    /\ pc[w] = "broadcast" /\ next[w] <= Len(registry)
    /\ LET c == registry[next[w]]
       IN  \/ /\ ~ handleFreed[c]
              /\ Interested(c, change[w].node)
              /\ notified' = [notified EXCEPT ![c] = ~ hungUp[c]]
              /\ UNCHANGED <<stale, crashed>>
           \/ /\ ~ handleFreed[c]
              /\ Interested(c, change[w].node) /\ hungUp[c]
              /\ stale' = [stale EXCEPT ![w] = Append(@, conv[c])]
              /\ UNCHANGED <<notified, crashed>>
           \/ /\ ~ handleFreed[c]
              /\ ~ Interested(c, change[w].node)
              /\ UNCHANGED <<notified, stale, crashed>>
           \/ /\ handleFreed[c]
              /\ crashed' \in BOOLEAN
              /\ UNCHANGED <<notified, stale>>
    /\ next' = [next EXCEPT ![w] = @ + 1]
    /\ UNCHANGED <<parent, changes, streams, sessions, conn, hungUp, unseen, pc, change>>

\* The streams whose frame was not written are removed, one after the other.
DropStale(w) ==
    /\ pc[w] = "broadcast" /\ next[w] > Len(registry)
    /\ stale[w] # <<>>
    /\ Unregister(Head(stale[w]))
    /\ stale' = [stale EXCEPT ![w] = Tail(@)]
    /\ UNCHANGED <<parent, changes, mutex, root, conv, handleFreed, sessionFreed, conn,
                   clients, pc, change, next>>

\* Variant: the mutex is kept.
EndBroadcastKeepsMutex(w) ==
    /\ pc[w] = "broadcast" /\ next[w] > Len(registry) /\ stale[w] = <<>>
    /\ pc' = [pc EXCEPT ![w] = "idle"]
    /\ next' = [next EXCEPT ![w] = 1]
    /\ UNCHANGED <<parent, changes, streams, sessions, conn, clients, change, stale,
                   crashed>>

EndBroadcast(w) ==
    /\ pc[w] = "broadcast" /\ next[w] > Len(registry) /\ stale[w] = <<>>
    /\ mutex' = NoWriter
    /\ pc' = [pc EXCEPT ![w] = "idle"]
    /\ change' = [change EXCEPT ![w] = NoChange]
    /\ next' = [next EXCEPT ![w] = 1]
    /\ UNCHANGED <<parent, changes, registry, root, conv, handleFreed, sessions, conn,
                   clients, stale, crashed>>

Connect(c) ==
    \/ Register(c) \/ Acknowledge(c) \/ ReadEnd(c) \/ CloseSession(c) \/ Release(c)
Announce(w) == LockRegistry(w) \/ SendFrame(w) \/ DropStale(w) \/ EndBroadcast(w)

Next ==
    /\ ~ crashed
    /\ \/ \E c \in Clients :
            Connect(c) \/ Resolve(c) \/ CloseStream(c) \/ HangUp(c) \/ Fetch(c)
       \/ \E w \in Writers : Announce(w) \/ Commit(w)

Spec == Init /\ [][Next]_vars

(***************************************************************************)
(* Writers run when they can.  For SendFrame, whose caller holds the       *)
(* registry mutex, this says that a client reads its events or hangs up.   *)
(***************************************************************************)
FairSpec ==
    /\ Spec
    /\ \A w \in Writers : WF_vars(~ crashed /\ Announce(w))

-----------------------------------------------------------------------------
(* Properties.                                                             *)

TypeOK ==
    /\ Live \subseteq DOMAIN InitParent /\ changes \in 0 .. MaxChanges
    /\ registry \in Seq(Clients)
    /\ mutex \in Writers \cup {NoWriter}
    /\ root \in [Clients -> Roots \cup {NoNode}]
    /\ conv \in [Clients -> ConversationIds \cup {0}]
    /\ refCount \in [Clients -> Nat]
    /\ {handleFreed, sessionFreed, hungUp, notified} \subseteq [Clients -> BOOLEAN]
    /\ conn \in [Clients -> {"idle", "register", "ack", "read", "exit", "release", "gone"}]
    /\ unseen \in [Clients -> SUBSET Nat]
    /\ pc \in [Writers -> {"idle", "notify", "broadcast"}]
    /\ change \in [Writers -> Changes \cup {NoChange}]
    /\ next \in [Writers -> Nat]
    /\ stale \in [Writers -> Seq(ConversationIds)]
    /\ crashed \in BOOLEAN

(***************************************************************************)
(* The session of a listed stream is alive, and its references are the     *)
(* connection thread's and the stream's, however streams are closed,       *)
(* found stale and dropped with their connection (server.zig:391, 404); a  *)
(* connection thread leaves no stream of its session behind (server.zig:   *)
(* 458, 1590).                                                             *)
(***************************************************************************)
StreamsKeepSessions ==
    \A c \in Clients :
        /\ Registered(c) => ~ sessionFreed[c]
        /\ conn[c] \in {"release", "gone"} => ~ Registered(c)
        /\ refCount[c] = (IF conn[c] = "gone" THEN 0 ELSE 1)
                         + (IF Registered(c) THEN 1 ELSE 0)

\* A writer that has still to tell c about its change to n; once the node of
\* c is gone, every announcement tells it so.
Announcing(w, c, n) ==
    /\ change[w].node = n \/ root[c] \notin Live
    /\ \/ pc[w] = "notify"
       \/ /\ pc[w] = "broadcast"
          /\ \E i \in DOMAIN registry : i >= next[w] /\ registry[i] = c

Told(c, n) == notified[c] \/ \E w \in Writers : Announcing(w, c, n)

\* The client reads an acknowledged stream that the daemon lists.
Watching(c) == conn[c] = "read" /\ ~ hungUp[c] /\ Registered(c)

(***************************************************************************)
(* A viewer that fetches when told to is never left behind: every change   *)
(* below its node since its last fetch is announced, or about to be, on    *)
(* whichever side of the open, the acknowledgement, the fetch and the      *)
(* broadcasts of others it came, as long as the changed node is still      *)
(* there or the viewer's own is not (server.zig:499-550).                  *)
(***************************************************************************)
ChangesAreTold ==
    \A c \in Clients : Watching(c) =>
        \A n \in unseen[c] : (n \in Live \/ root[c] \notin Live) => Told(c, n)

\* Every change is announced to the end, however many streams fail
\* (server.zig:515).
EveryChangeIsAnnounced == \A w \in Writers : (pc[w] = "notify") ~> (pc[w] = "idle" \/ crashed)

(***************************************************************************)
(* tests/integration/async_transport_validation_test.zig:246, "projection  *)
(* streams fan out text and structure changes only to interested viewers": *)
(* a removal below a viewer's node is a structure change like any other.   *)
(***************************************************************************)
StructureChangesAreTold ==
    \A c \in Clients : Watching(c) => \A n \in unseen[c] : Told(c, n)

(***************************************************************************)
(* doc/viewer-architecture.md:130, "two people attach to the same document *)
(* and read/navigate it independently": only its own client ends the       *)
(* stream of a connected client, whatever becomes of the others.           *)
(***************************************************************************)
ViewersAreIndependent ==
    [][\A c \in Clients : Watching(c) => Watching(c)' \/ hungUp'[c] \/ CloseStream(c)]_vars
=============================================================================

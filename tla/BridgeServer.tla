----------------------------- MODULE BridgeServer -----------------------------
(***************************************************************************)
(* The serving commands of the transport bridge (http-server, h2-server    *)
(* and h3wt-server in tools/transport_bridge/src/main.rs).                 *)
(*                                                                         *)
(* A client's connection carries streams, one request each.  The bridge    *)
(* reads the request, hands it to the daemon on a Unix connection of its   *)
(* own and relays the lines of the answer.  http serves the requests of a  *)
(* connection one after the other; h2 and h3wt give each stream a task.    *)
(* h2 orders the tasks twice: a gate, shared by all connections, through   *)
(* which request bodies are read in the order in which the streams were    *)
(* accepted, and a lane per target, in which a request waits for the ones  *)
(* before it.                                                              *)
(*                                                                         *)
(* Streams are numbered in the order in which their client opens them.     *)
(* Messages are counted, not spelled out; a line cut short by the end of   *)
(* the upstream connection is relayed like any other.                      *)
(***************************************************************************)
EXTENDS BridgeLanes, FiniteSets

CONSTANTS
    Streams,        \* streams a client may open, numbers
    Connections,
    ConnectionOf,   \* the connection of a stream
    Requests,       \* what clients ask, a set of Rpc
    NoRpc,          \* the request of a stream whose body has not been read
    NoLane,         \* the lane of a request that is in none
    MaxWaiting      \* bound: lines of the daemon that wait for the bridge

ASSUME StreamsAssumption ==
    /\ Streams \subseteq Nat /\ IsFiniteSet(Streams)
    /\ ConnectionOf \in [Streams -> Connections]
ASSUME RequestsAssumption ==
    /\ Requests \subseteq Rpc /\ NoRpc \notin Requests
    /\ NoLane \notin LaneKeys /\ MaxWaiting \in Nat \ {0}

VARIABLES
    command,        \* which server runs
    lost,           \* connections that ended, whoever ended them
    pc,             \* per stream: where its task is
    misrouted,      \* streams whose request names another path
    rpc,            \* per stream: the request read from it
    sequence,       \* per stream: accept_sequence, 0 before
    nextSequence,   \* next_accept_sequence
    gate,           \* OrderedSequenceGateState
    lanes,          \* the LaneQueue of each key
    held,           \* streams that hold a LaneGuard
    upstream,       \* per stream: its Unix connection to the daemon
    waiting,        \* per stream: lines of the daemon not relayed yet
    wrote           \* per stream: wrote_response

task == <<misrouted, sequence, nextSequence>>
reply == <<waiting, wrote>>
vars == <<command, lost, pc, task, rpc, gate, lanes, held, upstream, reply>>

Commands == {"http-server", "h2-server", "h3wt-server"}
H2 == command = "h2-server"
Http == command = "http-server"

Init ==
    /\ command \in Commands
    /\ lost = {} /\ misrouted = {} /\ held = {}
    /\ pc = [s \in Streams |-> "idle"]
    /\ rpc = [s \in Streams |-> NoRpc]
    /\ sequence = [s \in Streams |-> 0]
    /\ nextSequence = 1
    /\ gate = [busy |-> FALSE, next |-> 1]
    /\ lanes = [k \in LaneKeys |-> [busy |-> FALSE, waiting |-> {}]]
    /\ upstream = [s \in Streams |-> "none"]
    /\ waiting = [s \in Streams |-> 0]
    /\ wrote = [s \in Streams |-> FALSE]

Gone(s) == ConnectionOf[s] \in lost
Key(s) == LaneKey(rpc[s])
Siblings(s) == {t \in Streams : t < s /\ ConnectionOf[t] = ConnectionOf[s]}

Goto(s, label) == pc' = [pc EXCEPT ![s] = label]

\* The task of a stream returns, and its upstream connection with it.  What its
\* client is told (200 or one line, 404, 400, 502, a reset stream, or nothing
\* when it has left) is not kept.
End(s) ==
    /\ Goto(s, "over")
    /\ upstream' = [upstream EXCEPT ![s] = IF @ = "open" THEN "closed" ELSE @]
    /\ waiting' = [waiting EXCEPT ![s] = 0]
    /\ wrote' = [wrote EXCEPT ![s] = FALSE]

\* Whatever a stream's task returns, http then closes the connection.
CloseHttp(s) == lost' = IF Http THEN lost \cup {ConnectionOf[s]} ELSE lost

\* LaneGuard: drop of the guard a task may have.
DropLane(s) ==
    /\ held' = held \ {s}
    /\ lanes' = IF s \in held THEN [lanes EXCEPT ![Key(s)].busy = FALSE] ELSE lanes

\* OrderedSequenceGuard: drop.
DropGate == gate' = [busy |-> FALSE, next |-> gate.next + 1]

-----------------------------------------------------------------------------
(* Clients and connections.                                                *)

Hangup(c) ==
    /\ c \notin lost
    /\ lost' = lost \cup {c}
    /\ UNCHANGED <<command, pc, task, rpc, gate, lanes, held, upstream, reply>>

\* handle_h3wt_session: a session for another path is refused whole.
RefuseSession(c) ==
    /\ command = "h3wt-server"
    /\ \A s \in Streams : ConnectionOf[s] = c => pc[s] = "idle"
    /\ Hangup(c)

\* The next stream of a connection, or the next request of an http one.
Accept(s) ==
    /\ pc[s] = "idle" /\ ~ Gone(s)
    /\ \A t \in Siblings(s) : IF Http THEN pc[t] = "over" ELSE pc[t] # "idle"
    /\ \/ UNCHANGED misrouted
       \/ command # "h3wt-server" /\ misrouted' = misrouted \cup {s}
    /\ Goto(s, IF H2 THEN "gate" ELSE "read")
    /\ IF H2
       THEN /\ sequence' = [sequence EXCEPT ![s] = nextSequence]
            /\ nextSequence' = nextSequence + 1
       ELSE UNCHANGED <<sequence, nextSequence>>
    /\ UNCHANGED <<command, lost, rpc, gate, lanes, held, upstream, reply>>

-----------------------------------------------------------------------------
(* The task of a stream up to the daemon.                                  *)

\* The path is looked at before the gate, and the sequence is spent already.
RefuseH2Path(s) ==
    /\ pc[s] = "gate" /\ s \in misrouted
    /\ End(s)
    /\ UNCHANGED <<command, lost, task, rpc, gate, lanes, held>>

RefuseHttpPath(s) ==
    /\ Http /\ pc[s] = "read" /\ s \in misrouted
    /\ End(s)
    /\ UNCHANGED <<command, lost, task, rpc, gate, lanes, held>>

\* Variant: whoever comes first passes.
AcquireGateUnordered(s) ==
    /\ pc[s] = "gate" /\ s \notin misrouted
    /\ ~ gate.busy
    /\ gate' = [gate EXCEPT !.busy = TRUE]
    /\ Goto(s, "read")
    /\ UNCHANGED <<command, lost, task, rpc, lanes, held, upstream, reply>>

AcquireGate(s) ==
    /\ pc[s] = "gate" /\ s \notin misrouted
    /\ ~ gate.busy /\ gate.next = sequence[s]
    /\ gate' = [gate EXCEPT !.busy = TRUE]
    /\ Goto(s, "read")
    /\ UNCHANGED <<command, lost, task, rpc, lanes, held, upstream, reply>>

ReadH2Body(s) ==
    /\ H2 /\ pc[s] = "read"
    /\ \E q \in Requests : rpc' = [rpc EXCEPT ![s] = q]
    /\ DropGate
    /\ Goto(s, "lane")
    /\ UNCHANGED <<command, lost, task, lanes, held, upstream, reply>>

\* Variant: the gate is let go only when the body was read.
RefuseH2BodyKeepsGate(s) ==
    /\ H2 /\ pc[s] = "read"
    /\ End(s)
    /\ UNCHANGED <<command, lost, task, rpc, gate, lanes, held>>

\* No body, several messages, one that is too long, or a stream that broke.
RefuseH2Body(s) ==
    /\ H2 /\ pc[s] = "read"
    /\ DropGate
    /\ End(s)
    /\ UNCHANGED <<command, lost, task, rpc, lanes, held>>

\* http and h3wt read a request and go on with it, in no order but their own.
ReadRequest(s) ==
    /\ ~ H2 /\ pc[s] = "read" /\ s \notin misrouted
    /\ \E q \in Requests : rpc' = [rpc EXCEPT ![s] = q]
    /\ Goto(s, "submit")
    /\ UNCHANGED <<command, lost, task, gate, lanes, held, upstream, reply>>

\* No POST, no Content-Length, too long, not whole; for h3wt, no line.
RefuseRequest(s) ==
    /\ ~ H2 /\ pc[s] = "read"
    /\ End(s) /\ CloseHttp(s)
    /\ UNCHANGED <<command, task, rpc, gate, lanes, held>>

\* LaneQueue::acquire before its loop, once the map of lanes is locked.
EnterLane(s) ==
    /\ pc[s] = "lane"
    /\ lanes' = [lanes EXCEPT ![Key(s)].waiting = @ \cup {sequence[s]}]
    /\ Goto(s, "queued")
    /\ UNCHANGED <<command, lost, task, rpc, gate, held, upstream, reply>>

\* Variant: the order of the lane alone decides.
AcquireBusyLane(s) ==
    LET queue == lanes[Key(s)] IN
    /\ pc[s] = "queued"
    /\ \A n \in queue.waiting : sequence[s] <= n
    /\ lanes' = [lanes EXCEPT ![Key(s)] =
           [busy |-> TRUE, waiting |-> queue.waiting \ {sequence[s]}]]
    /\ held' = held \cup {s}
    /\ Goto(s, "submit")
    /\ UNCHANGED <<command, lost, task, rpc, gate, upstream, reply>>

AcquireLane(s) ==
    LET queue == lanes[Key(s)] IN
    /\ pc[s] = "queued"
    /\ ~ queue.busy /\ \A n \in queue.waiting : sequence[s] <= n
    /\ lanes' = [lanes EXCEPT ![Key(s)] =
           [busy |-> TRUE, waiting |-> queue.waiting \ {sequence[s]}]]
    /\ held' = held \cup {s}
    /\ Goto(s, "submit")
    /\ UNCHANGED <<command, lost, task, rpc, gate, upstream, reply>>

\* Variant: no lane is held beyond the request.
SubmitAndRelease(s) ==
    /\ pc[s] = "submit"
    /\ upstream' = [upstream EXCEPT ![s] = "open"]
    /\ Goto(s, "relay") /\ DropLane(s)
    /\ UNCHANGED <<command, lost, task, rpc, gate, reply>>

\* The request is written to the daemon, and a stream open lets go of its lane.
Submit(s) ==
    /\ pc[s] = "submit"
    /\ upstream' = [upstream EXCEPT ![s] = "open"]
    /\ Goto(s, "relay")
    /\ IF IsStreamOpen(rpc[s]) THEN DropLane(s) ELSE UNCHANGED <<lanes, held>>
    /\ UNCHANGED <<command, lost, task, rpc, gate, reply>>

\* The request is written, but its h2 stream takes no response any more: it was
\* reset, or its whole connection is gone.
SubmitForNobody(s) ==
    /\ H2 /\ pc[s] = "submit"
    /\ Goto(s, "over") /\ upstream' = [upstream EXCEPT ![s] = "closed"]
    /\ DropLane(s)
    /\ UNCHANGED <<command, lost, task, rpc, gate, reply>>

\* The daemon cannot be reached, or does not take the request.
SubmitFails(s) ==
    /\ pc[s] = "submit"
    /\ End(s) /\ DropLane(s) /\ CloseHttp(s)
    /\ UNCHANGED <<command, task, rpc, gate>>

-----------------------------------------------------------------------------
(* The daemon, as far as the bridge watches it, and the answer.            *)

\* The daemon answers a request with one line, a stream open with any number.
DaemonWrites(s) ==
    /\ upstream[s] = "open" /\ pc[s] = "relay"
    /\ waiting[s] < MaxWaiting /\ (~ IsStreamOpen(rpc[s]) => waiting[s] = 0 /\ ~ wrote[s])
    /\ waiting' = [waiting EXCEPT ![s] = @ + 1]
    /\ UNCHANGED <<command, lost, pc, task, rpc, gate, lanes, held, upstream, wrote>>

DaemonCloses(s) ==
    /\ upstream[s] = "open" /\ pc[s] = "relay"
    /\ upstream' = [upstream EXCEPT ![s] = "closed"]
    /\ UNCHANGED <<command, lost, pc, task, rpc, gate, lanes, held, reply>>

\* Variant: a line is taken whether there is one or not.
RelayUnread(s) ==
    /\ ~ Http /\ pc[s] = "relay" /\ ~ Gone(s)
    /\ waiting' = [waiting EXCEPT ![s] = @ - 1]
    /\ wrote' = [wrote EXCEPT ![s] = TRUE]
    /\ UNCHANGED <<command, lost, pc, task, rpc, gate, lanes, held, upstream>>

\* A line for a client that is there.
Relay(s) ==
    /\ ~ Http /\ pc[s] = "relay" /\ waiting[s] > 0 /\ ~ Gone(s)
    /\ waiting' = [waiting EXCEPT ![s] = @ - 1]
    /\ wrote' = [wrote EXCEPT ![s] = TRUE]
    /\ UNCHANGED <<command, lost, pc, task, rpc, gate, lanes, held, upstream>>

\* http takes one line for its response and leaves the rest.
RespondHttp(s) ==
    /\ Http /\ pc[s] = "relay" /\ waiting[s] > 0 /\ ~ Gone(s)
    /\ End(s)
    /\ UNCHANGED <<command, lost, task, rpc, gate, lanes, held>>

\* The line is too long, the upstream connection breaks, or the client has gone.
RelayFails(s) ==
    /\ pc[s] = "relay"
    /\ End(s) /\ DropLane(s) /\ CloseHttp(s)
    /\ UNCHANGED <<command, task, rpc, gate>>

\* The end of the daemon's answer: nothing at all is a failure.
Finish(s) ==
    /\ pc[s] = "relay" /\ upstream[s] = "closed" /\ waiting[s] = 0
    /\ End(s) /\ DropLane(s)
    /\ IF wrote[s] THEN UNCHANGED lost ELSE CloseHttp(s)
    /\ UNCHANGED <<command, task, rpc, gate>>

-----------------------------------------------------------------------------
Step(s) ==
    \/ RefuseH2Path(s) \/ RefuseHttpPath(s) \/ AcquireGate(s)
    \/ ReadH2Body(s) \/ RefuseH2Body(s) \/ ReadRequest(s) \/ RefuseRequest(s)
    \/ EnterLane(s) \/ AcquireLane(s) \/ Submit(s) \/ SubmitForNobody(s) \/ SubmitFails(s)
    \/ Relay(s) \/ RespondHttp(s) \/ RelayFails(s) \/ Finish(s)

Next ==
    \/ \E c \in Connections : Hangup(c) \/ RefuseSession(c)
    \/ \E s \in Streams : Accept(s) \/ Step(s) \/ DaemonWrites(s) \/ DaemonCloses(s)

Spec == Init /\ [][Next]_vars

-----------------------------------------------------------------------------
\* What the scheduler owes a stream: its task goes on when it can, a client
\* sends the body of the request it began, the failed write to a client that
\* has left is noticed, and the daemon ends every exchange but an open stream.
Progress(s) ==
    \/ RefuseH2Path(s) \/ RefuseHttpPath(s) \/ AcquireGate(s)
    \/ ReadH2Body(s) \/ ReadRequest(s) \/ EnterLane(s) \/ AcquireLane(s) \/ Submit(s)
    \/ Relay(s) \/ RespondHttp(s) \/ Finish(s)
    \/ Gone(s) /\ waiting[s] > 0 /\ RelayFails(s)

Fairness ==
    \A s \in Streams :
        /\ WF_vars(Progress(s))
        /\ WF_vars(DaemonCloses(s) /\ ~ IsStreamOpen(rpc[s]))

FairSpec == Spec /\ Fairness

-----------------------------------------------------------------------------
(* Properties.                                                             *)

Phases == {"idle", "gate", "read", "lane", "queued", "submit", "relay", "over"}

\* The values the state of the three servers takes.
TypeOK ==
    /\ command \in Commands
    /\ lost \subseteq Connections
    /\ pc \in [Streams -> Phases]
    /\ misrouted \subseteq Streams
    /\ rpc \in [Streams -> Requests \cup {NoRpc}]
    /\ sequence \in [Streams -> Nat]
    /\ nextSequence \in Nat \ {0}
    /\ gate \in [busy : BOOLEAN, next : Nat \ {0}]
    /\ lanes \in [LaneKeys -> [busy : BOOLEAN, waiting : SUBSET Nat]]
    /\ held \subseteq Streams
    /\ upstream \in [Streams -> {"none", "open", "closed"}]
    /\ waiting \in [Streams -> Nat]
    /\ wrote \in [Streams -> BOOLEAN]

\* h2-server reads bodies in the order in which it accepted the streams, of all
\* connections, and one at a time: a stream whose path is right is behind the
\* gate exactly when the gate has come to its sequence.
GateInOrder ==
    \A s \in Streams :
        sequence[s] > 0 /\ s \notin misrouted =>
            /\ pc[s] = "gate" => gate.next <= sequence[s]
            /\ pc[s] = "read" => gate.busy /\ gate.next = sequence[s]
            /\ pc[s] \notin {"gate", "read"} => sequence[s] < gate.next

\* A lane has the daemon work on one of its requests at a time, but for what
\* the bridge no longer watches: the open streams, and the requests whose
\* client left or whose answer failed.
Watched(s) == upstream[s] = "open" /\ pc[s] = "relay" /\ ~ IsStreamOpen(rpc[s])
OneRequestPerLane ==
    H2 => \A s, t \in Streams :
              Watched(s) /\ Watched(t) /\ Key(s) = Key(t) => s = t

\* The stream waits for a sequence that a misrouted one took along.
Stalled(s) ==
    /\ pc[s] = "gate"
    /\ \E t \in misrouted : sequence[t] # 0 /\ sequence[t] < sequence[s]

\* Every stream a server accepts comes to an end, and a stream open comes to
\* its relaying: no order of gate and lanes, no client that leaves and no
\* failed request holds the others up.  A misrouted h2 stream does, for good:
\* start_h2_stream returns without passing the gate its sequence is due at.
StreamsEnd ==
    \A s \in Streams :
        pc[s] # "idle" ~>
            \/ pc[s] = "over" \/ Stalled(s)
            \/ pc[s] = "relay" /\ IsStreamOpen(rpc[s])

\* The lanes of h2-server are the lanes of LaneService: a request waits, is
\* handed on alone, and leaves.  A stream that never came to a lane is new.
Phase(s) ==
    IF pc[s] = "queued" THEN "queued"
    ELSE IF s \in held THEN "served"
    ELSE IF H2 /\ rpc[s] # NoRpc /\ pc[s] # "lane" THEN "left"
    ELSE "new"

Service == INSTANCE LaneService WITH
    Requests <- Streams,
    Lanes <- LaneKeys,
    phase <- [s \in Streams |-> Phase(s)],
    lane <- [s \in Streams |-> IF Phase(s) = "new" THEN NoLane ELSE Key(s)]

ServesLanes == Service!Spec

\* "Keep H2 stream creation in stdin order so daemon-side FIFO lanes observe
\* the same request ordering the client submitted": of two requests for one
\* lane, the daemon is not given the later accepted one first.
SameLaneFifo ==
    [][\A s, t \in Streams :
           /\ sequence[s] # 0 /\ sequence[s] < sequence[t]
           /\ rpc[s] # NoRpc /\ rpc[t] # NoRpc /\ Key(s) = Key(t)
           /\ upstream[t] = "none" /\ upstream'[t] = "open"
           => upstream[s] # "none" \/ pc[s] = "over"]_vars
=============================================================================

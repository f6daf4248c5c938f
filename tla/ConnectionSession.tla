-------------------------- MODULE ConnectionSession --------------------------
(***************************************************************************)
(* Connections and lanes of the daemon (src/daemon/server.zig).            *)
(*                                                                         *)
(* A connection thread reads requests and hands each to the lane its       *)
(* target belongs to; the lane's worker executes them in order and writes  *)
(* the answer on the connection.  Both sides share a ConnectionSession: a  *)
(* reference count that frees it, a count of pending requests, a closed    *)
(* flag under a state mutex, and a write mutex held for a whole frame and  *)
(* for closing the socket.                                                 *)
(*                                                                         *)
(* Which lane a request goes to and how long it executes is left open.     *)
(* Stream requests, whose threads share the session too, are not modelled  *)
(* here.                                                                   *)
(***************************************************************************)
EXTENDS Naturals, FiniteSets, SequencesExt

CONSTANTS
    Connections,    \* connections, each with a thread of its own
    Lanes,          \* execution lanes, each with a worker of its own
    NoThread,       \* the owner of a free write mutex
    NoJob,          \* the job of a thread that has none
    MaxPending,     \* max_pending_requests_per_connection
    SingleRequest,  \* single_request_per_connection (proxied transports)
    MaxRequests     \* bound: requests a client sends on its connection

Threads == Connections \cup Lanes

ASSUME ThreadsAssumption ==
    Connections \cap Lanes = {} /\ NoThread \notin Threads
ASSUME CountsAssumption ==
    /\ MaxPending \in Nat \ {0} /\ MaxRequests \in Nat
    /\ SingleRequest \in BOOLEAN

\* A request of connection conn, the id-th it sent, for a lane.
Job == [conn : Connections, id : Nat, lane : Lanes]

ASSUME NoJobAssumption == NoJob \notin Job

VARIABLES
    \* per connection: the ConnectionSession, its socket and its client
    refCount, pending, closed, writer, freed, socket, wire, sent,
    queue,      \* per lane: Lane.queue
    pc, job,    \* per thread: where it is, the request it works on
    return,     \* per thread: where it goes when markClosed returns
    lost,       \* per connection: its thread left and kept the slot of a request
    panicked    \* an assertion failed: the daemon is gone

session == <<refCount, pending, closed, writer, freed, socket>>
thread == <<pc, job, return>>
vars == <<session, wire, sent, queue, thread, lost, panicked>>

Init ==
    /\ refCount = [c \in Connections |-> 1]
    /\ pending = [c \in Connections |-> 0]
    /\ closed = [c \in Connections |-> FALSE]
    /\ writer = [c \in Connections |-> NoThread]
    /\ freed = [c \in Connections |-> FALSE]
    /\ socket = [c \in Connections |-> "open"]
    /\ wire = [c \in Connections |-> <<>>]
    /\ sent = [c \in Connections |-> 0]
    /\ queue = [l \in Lanes |-> <<>>]
    /\ pc = [t \in Threads |-> IF t \in Connections THEN "read" ELSE "wait"]
    /\ job = [t \in Threads |-> NoJob]
    /\ return = [t \in Threads |-> "none"]
    /\ lost = [c \in Connections |-> FALSE]
    /\ panicked = FALSE

\* The connection whose session a thread works on.
Conn(t) == IF t \in Connections THEN t ELSE job[t].conn

Goto(t, label) == pc' = [pc EXCEPT ![t] = label] /\ UNCHANGED <<job, return>>
CallMarkClosed(t, label) ==
    /\ pc' = [pc EXCEPT ![t] = "markClosed"]
    /\ return' = [return EXCEPT ![t] = label]
    /\ UNCHANGED job

-----------------------------------------------------------------------------
(* The connection thread: serveConnectionImpl.                             *)

ReadRequest(c) ==
    /\ pc[c] = "read"
    /\ sent[c] < MaxRequests
    /\ \E l \in Lanes :
        job' = [job EXCEPT ![c] = [conn |-> c, id |-> sent[c] + 1, lane |-> l]]
    /\ sent' = [sent EXCEPT ![c] = @ + 1]
    /\ pc' = [pc EXCEPT ![c] = "reserve"]
    /\ UNCHANGED <<session, wire, queue, return, lost, panicked>>

\* The client hangs up: readMessageLine returns null.
ReadEnd(c) ==
    /\ pc[c] = "read"
    /\ CallMarkClosed(c, "release")
    /\ UNCHANGED <<session, wire, sent, queue, lost, panicked>>

\* An error out of the loop: the thread leaves without marking anything.
ReadError(c) ==
    /\ pc[c] = "read"
    /\ Goto(c, "release")
    /\ UNCHANGED <<session, wire, sent, queue, lost, panicked>>

\* tryReservePendingSlot
Reserve(c) ==
    /\ pc[c] = "reserve"
    /\ IF closed[c] \/ pending[c] >= MaxPending
       THEN Goto(c, "write") /\ UNCHANGED pending
       ELSE Goto(c, "enqueue") /\ pending' = [pending EXCEPT ![c] = @ + 1]
    /\ UNCHANGED <<refCount, closed, writer, freed, socket, wire, sent, queue, lost, panicked>>

NextRead == IF SingleRequest THEN "release" ELSE "read"

\* Variant: the worker is expected to retain the session itself.
EnqueueUnretained(c) ==
    /\ pc[c] = "enqueue"
    /\ queue' = [queue EXCEPT ![job[c].lane] = Append(@, job[c])]
    /\ Goto(c, NextRead)
    /\ UNCHANGED <<session, wire, sent, lost, panicked>>

\* retain, then ServerExecutor.enqueue
Enqueue(c) ==
    /\ pc[c] = "enqueue"
    /\ refCount' = [refCount EXCEPT ![c] = @ + 1]
    /\ queue' = [queue EXCEPT ![job[c].lane] = Append(@, job[c])]
    /\ Goto(c, NextRead)
    /\ UNCHANGED <<pending, closed, writer, freed, socket, wire, sent, lost, panicked>>

\* try classifyExecutionLane: an error leaves the loop, and the slot stays taken.
ClassifyFails(c) ==
    /\ pc[c] = "enqueue"
    /\ lost' = [lost EXCEPT ![c] = TRUE]
    /\ Goto(c, "release")
    /\ UNCHANGED <<session, wire, sent, queue, panicked>>

\* Variant: the slot is not given back with the session.
EnqueueFailsKeepsSlot(c) ==
    /\ pc[c] = "enqueue"
    /\ Goto(c, "release")
    /\ UNCHANGED <<session, wire, sent, queue, lost, panicked>>

\* No lane for the request (no thread for a new one, no memory): the slot and the
\* reference just taken are given back, and the error leaves the loop.  The
\* reference is never the last, the thread still has its own.
EnqueueFails(c) ==
    /\ pc[c] = "enqueue"
    /\ pending' = [pending EXCEPT ![c] = @ - 1]
    /\ Goto(c, "release")
    /\ UNCHANGED <<refCount, closed, writer, freed, socket, wire, sent, queue, lost, panicked>>

-----------------------------------------------------------------------------
(* The lane worker: workerLoop and executeQueuedRequest.                   *)

\* Variant: the newest request is served first.
TakeNewest(l) ==
    /\ pc[l] = "wait"
    /\ queue[l] # <<>>
    /\ job' = [job EXCEPT ![l] = Last(queue[l])]
    /\ queue' = [queue EXCEPT ![l] = Front(@)]
    /\ pc' = [pc EXCEPT ![l] = "execute"]
    /\ UNCHANGED <<session, wire, sent, return, lost, panicked>>

TakeWork(l) ==
    /\ pc[l] = "wait"
    /\ queue[l] # <<>>
    /\ job' = [job EXCEPT ![l] = Head(queue[l])]
    /\ queue' = [queue EXCEPT ![l] = Tail(@)]
    /\ pc' = [pc EXCEPT ![l] = "execute"]
    /\ UNCHANGED <<session, wire, sent, return, lost, panicked>>

\* isClosed, then the guard and the handler; either way an answer is built, unless
\* there is no memory for it (the `catch return` exits, left out).
ExecuteRequest(l) ==
    /\ pc[l] = "execute"
    /\ Goto(l, IF closed[Conn(l)] THEN "release" ELSE "write")
    /\ UNCHANGED <<session, wire, sent, queue, lost, panicked>>

-----------------------------------------------------------------------------
(* ConnectionSession, called by both.                                      *)

\* Where a thread goes with its frame written, or with the connection lost.
Written(t) == IF t \in Connections THEN NextRead ELSE "release"

\* writeFrame: the write mutex first, then a look at the closed flag.
LockWrite(t) ==
    /\ pc[t] = "write"
    /\ writer[Conn(t)] = NoThread
    /\ writer' = [writer EXCEPT ![Conn(t)] = t]
    /\ Goto(t, "checkClosed")
    /\ UNCHANGED <<refCount, pending, closed, freed, socket, wire, sent, queue, lost, panicked>>

Unlock(t) == writer' = [writer EXCEPT ![Conn(t)] = NoThread]

CheckClosed(t) ==
    /\ pc[t] = "checkClosed"
    /\ IF closed[Conn(t)]
       THEN Unlock(t) /\ CallMarkClosed(t, "release")
       ELSE Goto(t, "send") /\ UNCHANGED writer
    /\ UNCHANGED <<refCount, pending, closed, freed, socket, wire, sent, queue, lost, panicked>>

\* Variant: the write mutex is kept after a frame.
SendKeepsLock(t) ==
    /\ pc[t] = "send"
    /\ \/ /\ wire' = [wire EXCEPT ![Conn(t)] = Append(@, [job |-> job[t], by |-> t])]
          /\ Goto(t, Written(t))
          /\ UNCHANGED writer
       \/ /\ Unlock(t)
          /\ CallMarkClosed(t, "release")
          /\ UNCHANGED wire
    /\ UNCHANGED <<refCount, pending, closed, freed, socket, sent, queue, lost, panicked>>

\* Both writes of a frame, or an error of either.
Send(t) ==
    /\ pc[t] = "send"
    /\ Unlock(t)
    /\ \/ /\ wire' = [wire EXCEPT ![Conn(t)] = Append(@, [job |-> job[t], by |-> t])]
          /\ Goto(t, Written(t))
       \/ /\ CallMarkClosed(t, "release")
          /\ UNCHANGED wire
    /\ UNCHANGED <<refCount, pending, closed, freed, socket, sent, queue, lost, panicked>>

\* markClosed: whoever sets the flag closes the socket.
MarkClosed(t) ==
    /\ pc[t] = "markClosed"
    /\ closed' = [closed EXCEPT ![Conn(t)] = TRUE]
    /\ Goto(t, IF closed[Conn(t)] THEN return[t] ELSE "closeSocket")
    /\ UNCHANGED <<refCount, pending, writer, freed, socket, wire, sent, queue, lost, panicked>>

\* Variant: the socket is closed without the write mutex.
CloseSocketUnlocked(t) ==
    /\ pc[t] = "closeSocket"
    /\ socket' = [socket EXCEPT ![Conn(t)] = "closed"]
    /\ Goto(t, return[t])
    /\ UNCHANGED <<refCount, pending, closed, writer, freed, wire, sent, queue, lost, panicked>>

CloseSocket(t) ==
    /\ pc[t] = "closeSocket"
    /\ writer[Conn(t)] = NoThread
    /\ socket' = [socket EXCEPT ![Conn(t)] = "closed"]
    /\ Goto(t, return[t])
    /\ UNCHANGED <<refCount, pending, closed, writer, freed, wire, sent, queue, lost, panicked>>

Released(t) == IF t \in Connections THEN "exited" ELSE "finish"

\* release: the last reference marks the session closed and frees it.
Release(t) ==
    /\ pc[t] = "release"
    /\ refCount' = [refCount EXCEPT ![Conn(t)] = @ - 1]
    /\ IF refCount[Conn(t)] = 1
       THEN CallMarkClosed(t, "destroy")
       ELSE Goto(t, Released(t))
    /\ UNCHANGED <<pending, closed, writer, freed, socket, wire, sent, queue, lost, panicked>>

Destroy(t) ==
    /\ pc[t] = "destroy"
    /\ freed' = [freed EXCEPT ![Conn(t)] = TRUE]
    /\ Goto(t, Released(t))
    /\ UNCHANGED <<refCount, pending, closed, writer, socket, wire, sent, queue, lost, panicked>>

(***************************************************************************)
(* finishPendingRequest runs after release (the defers of                  *)
(* executeQueuedRequest): on a session that is freed the count it asserts  *)
(* about is whatever the allocator left there.                             *)
(***************************************************************************)
Finish(l) ==
    /\ pc[l] = "finish"
    /\ IF freed[Conn(l)]
       THEN panicked' \in BOOLEAN /\ UNCHANGED pending
       ELSE /\ panicked' = (pending[Conn(l)] = 0)
            /\ pending' = [pending EXCEPT ![Conn(l)] = @ - 1]
    /\ pc' = [pc EXCEPT ![l] = "wait"]
    /\ job' = [job EXCEPT ![l] = NoJob]
    /\ UNCHANGED <<refCount, closed, writer, freed, socket, wire, sent, queue, return, lost>>

Write(t) == LockWrite(t) \/ CheckClosed(t) \/ Send(t)
Close(t) == MarkClosed(t) \/ CloseSocket(t) \/ Release(t) \/ Destroy(t)
Serve(c) == Reserve(c) \/ Enqueue(c) \/ ClassifyFails(c) \/ EnqueueFails(c)
Work(l) == TakeWork(l) \/ ExecuteRequest(l) \/ Finish(l)

\* The steps a thread takes on its own, without its client.
Step(t) ==
    /\ ~ panicked
    /\ \/ Write(t) \/ Close(t)
       \/ t \in Connections /\ Serve(t)
       \/ t \in Lanes /\ Work(t)

Client(c) == ~ panicked /\ (ReadRequest(c) \/ ReadEnd(c) \/ ReadError(c))

\* The connections are gone and the workers wait, or the daemon is gone.
AllDone ==
    /\ panicked \/ \A t \in Threads : pc[t] \in {"exited", "wait"}
    /\ \A l \in Lanes : panicked \/ queue[l] = <<>>
    /\ UNCHANGED vars

Next == (\E t \in Threads : Step(t)) \/ (\E c \in Connections : Client(c)) \/ AllDone

Spec == Init /\ [][Next]_vars

(***************************************************************************)
(* A thread that can take a step eventually does.  For Send this says that *)
(* a client reads its answers or hangs up.                                 *)
(***************************************************************************)
FairSpec == Spec /\ \A t \in Threads : WF_vars(Step(t))

-----------------------------------------------------------------------------
(* Properties.                                                             *)

Labels == {"read", "reserve", "enqueue", "wait", "execute", "write", "checkClosed",
           "send", "markClosed", "closeSocket", "release", "destroy", "finish", "exited"}

TypeOK ==
    /\ refCount \in [Connections -> Nat]
    /\ pending \in [Connections -> Nat]
    /\ closed \in [Connections -> BOOLEAN]
    /\ writer \in [Connections -> Threads \cup {NoThread}]
    /\ freed \in [Connections -> BOOLEAN]
    /\ socket \in [Connections -> {"open", "closed"}]
    /\ wire \in [Connections -> Seq([job : Job, by : Threads])]
    /\ sent \in [Connections -> 0 .. MaxRequests]
    /\ queue \in [Lanes -> Seq(Job)]
    /\ pc \in [Threads -> Labels]
    /\ job \in [Threads -> Job \cup {NoJob}]
    /\ return \in [Threads -> Labels \cup {"none"}]
    /\ lost \in [Connections -> BOOLEAN]
    /\ panicked \in BOOLEAN

\* The lanes that have taken a request of c and not finished it.
Serving(c) == {l \in Lanes : job[l] # NoJob /\ job[l].conn = c}
Queued(c) == {j \in UNION {Range(queue[l]) : l \in Lanes} : j.conn = c}

(***************************************************************************)
(* A session is freed only when no thread can touch it again, but for the  *)
(* finishPendingRequest that follows a release (server.zig:102, 855): no   *)
(* request of it waits in a lane and no thread is at another label.        *)
(***************************************************************************)
FreedIsUnused ==
    \A c \in Connections : freed[c] =>
        /\ pc[c] = "exited"
        /\ Queued(c) = {}
        /\ \A l \in Serving(c) : pc[l] = "finish"

\* The requests of c that have a slot: the lanes have them, or are about to.
InLanes(c) ==
    Queued(c) \cup {job[l] : l \in Serving(c)}
              \cup (IF pc[c] = "enqueue" THEN {job[c]} ELSE {})
Leaked(c) == IF lost[c] THEN 1 ELSE 0

(***************************************************************************)
(* While the session lives, pending_requests counts the requests in the    *)
(* lanes, the ones refused or dropped on a closed connection left out, and *)
(* stays within the limit (server.zig:109, 117).  An error exit may keep   *)
(* the slot of its request (server.zig:1680), but the connection then      *)
(* never reads another one that would want it.                             *)
(***************************************************************************)
PendingCounts ==
    \A c \in Connections :
        /\ ~ freed[c] =>
              /\ pending[c] <= MaxPending
              /\ pending[c] = Cardinality(InLanes(c)) + Leaked(c)
        /\ lost[c] => pc[c] \in {"release", "markClosed", "closeSocket", "destroy", "exited"}

(***************************************************************************)
(* Nobody closes the socket, so that its descriptor may name another       *)
(* connection, in the middle of somebody's frame, and two frames are never *)
(* interleaved (markClosed and writeFrame, server.zig:130, 142).           *)
(***************************************************************************)
FramesAreWhole ==
    \A t \in Threads : pc[t] \in {"checkClosed", "send"} =>
        /\ writer[Conn(t)] = t
        /\ pc[t] = "send" => socket[Conn(t)] = "open"

(***************************************************************************)
(* The answers of one lane reach a client in the order of its requests,    *)
(* each at most once; answers of different lanes may overtake each other   *)
(* (workerLoop, server.zig:742).                                           *)
(***************************************************************************)
LaneOrder ==
    \A c \in Connections : \A i, j \in DOMAIN wire[c] :
        (/\ i < j
         /\ {wire[c][i].by, wire[c][j].by} \subseteq Lanes
         /\ wire[c][i].job.lane = wire[c][j].job.lane)
        => wire[c][i].job.id < wire[c][j].job.id

Answered(c, k) == \E i \in DOMAIN wire[c] : wire[c][i].job.id = k

(***************************************************************************)
(* Every request a client sent is answered, if only with a refusal, unless *)
(* its connection is closed, as it is in the end when its thread leaves on *)
(* an error: no worker waits for a mutex for ever (server.zig:849, 1660).  *)
(***************************************************************************)
EveryRequestAnswered ==
    \A c \in Connections : \A k \in 1 .. MaxRequests :
        sent[c] >= k ~> Answered(c, k) \/ closed[c] \/ panicked

(***************************************************************************)
(* server.zig:120 asserts, whenever a request is finished, that its        *)
(* session still counts it: `std.debug.assert(self.pending_requests > 0)`. *)
(***************************************************************************)
AssertionHolds == ~ panicked
=============================================================================

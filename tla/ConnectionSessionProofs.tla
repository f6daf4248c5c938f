----------------------- MODULE ConnectionSessionProofs -----------------------
(***************************************************************************)
(* Proofs about ConnectionSession for any connections, lanes and limits.   *)
(*                                                                         *)
(* Places says what a thread has in hand at each label, WriterInv who has  *)
(* the write mutex, OrderInv how the requests of a lane and its answers    *)
(* are ordered, HeldInv what the references of a session stand for, and    *)
(* SlotInv what its pending slots stand for.                               *)
(***************************************************************************)
EXTENDS ConnectionSession, FiniteSetTheorems, TLAPS

ThreadTypes ==
    /\ pc \in [Threads -> Labels]
    /\ job \in [Threads -> Job \cup {NoJob}]
    /\ return \in [Threads -> Labels \cup {"none"}]

Types ==
    /\ refCount \in [Connections -> Int] /\ pending \in [Connections -> Int]
    /\ closed \in [Connections -> BOOLEAN] /\ freed \in [Connections -> BOOLEAN]
    /\ writer \in [Connections -> Threads \cup {NoThread}]
    /\ socket \in [Connections -> {"open", "closed"}]
    /\ wire \in [Connections -> Seq([job : Job, by : Threads])]
    /\ sent \in [Connections -> 0 .. MaxRequests]
    /\ queue \in [Lanes -> Seq(Job)]
    /\ lost \in [Connections -> BOOLEAN]
    /\ panicked \in BOOLEAN
    /\ ThreadTypes

\* A thread in hand of a request, and one that is closing its connection.
Writing == {"write", "checkClosed", "send"}
Closing == {"markClosed", "closeSocket"}
Leaving == Closing \cup {"release", "destroy"}
Gone == Leaving \cup {"exited"}

\* A connection thread works on a request of its own connection, and a worker
\* on one of its own lane.
ThreadPlaces ==
    /\ \A c \in Connections :
          /\ pc[c] \in {"read", "reserve", "enqueue", "exited"} \cup Writing \cup Leaving
          /\ job[c] # NoJob => job[c].conn = c
          /\ pc[c] \in {"reserve", "enqueue"} \cup Writing => job[c] # NoJob
    /\ \A l \in Lanes :
          /\ pc[l] \in {"wait", "execute", "finish"} \cup Writing \cup Leaving
          /\ pc[l] = "wait" <=> job[l] = NoJob
          /\ job[l] # NoJob => job[l].lane = l
    /\ \A t \in Threads : pc[t] \in Closing => return[t] \in {"release", "destroy"}
Places ==
    /\ ThreadPlaces
    /\ \A l \in Lanes : \A i \in DOMAIN queue[l] : queue[l][i].lane = l

\* Whoever writes has the mutex, and a socket is closed by nobody else and only
\* when the flag is set.
WriterInv ==
    /\ \A t \in Threads :
          /\ pc[t] \in {"checkClosed", "send"} => writer[Conn(t)] = t
          /\ pc[t] = "send" => socket[Conn(t)] = "open"
          /\ pc[t] = "closeSocket" => closed[Conn(t)]
    /\ \A c \in Connections : socket[c] = "closed" => closed[c]

\* The last request of c that may have reached a lane.
Newest(c) == IF pc[c] \in {"reserve", "enqueue"} THEN sent[c] - 1 ELSE sent[c]

\* The lane l is still to answer its request.
Unanswered(l) == pc[l] \in {"execute"} \cup Writing

\* A lane has the requests of a connection in their order: what it answered is
\* older than what it works on, which is older than what waits.
ReadOrder ==
    \A c \in Connections : pc[c] \in {"reserve", "enqueue"} => job[c].id = sent[c]
Read(j) == j.id <= Newest(j.conn)
Before(j, k) == j.conn = k.conn => j.id < k.id
AheadOf(j, l) == \A i \in DOMAIN queue[l] : Before(j, queue[l][i])

QueueOrder ==
    \A l \in Lanes :
        /\ \A i, j \in DOMAIN queue[l] : i < j => Before(queue[l][i], queue[l][j])
        /\ \A i \in DOMAIN queue[l] : Read(queue[l][i])
JobOrder ==
    \A l \in Lanes : job[l] # NoJob => Read(job[l]) /\ AheadOf(job[l], l)
Answer(c, l, j) ==
    /\ j.lane = l /\ j.conn = c
    /\ Read(j) /\ AheadOf(j, l)
    /\ job[l] # NoJob /\ job[l].conn = c =>
          j.id <= job[l].id /\ (Unanswered(l) => j.id < job[l].id)
WireOrder ==
    \A c \in Connections : \A i \in DOMAIN wire[c] :
        wire[c][i].by \in Lanes => Answer(c, wire[c][i].by, wire[c][i].job)

OrderInv == ReadOrder /\ QueueOrder /\ JobOrder /\ WireOrder /\ LaneOrder

\* A thread that has given its reference back, and one that is to free the session.
Ending(t) == pc[t] = "destroy" \/ (pc[t] \in Closing /\ return[t] = "destroy")
Holding(t) == pc[t] \notin {"wait", "finish", "exited"} /\ ~ Ending(t)

\* The requests with a reference to the session of c.
Held(c) == Queued(c) \cup {job[l] : l \in {k \in Serving(c) : Holding(k)}}

RefInv ==
    \A c \in Connections :
        /\ IsFiniteSet(Held(c))
        /\ refCount[c] = Cardinality(Held(c)) + (IF Holding(c) THEN 1 ELSE 0)
        /\ freed[c] => refCount[c] = 0
EndInv ==
    /\ \A t \in Threads : Ending(t) => refCount[Conn(t)] = 0 /\ ~ freed[Conn(t)]
    /\ \A t, u \in Threads : Ending(t) /\ Ending(u) /\ Conn(t) = Conn(u) => t = u
HeldInv == RefInv /\ EndInv

SlotInv ==
    \A c \in Connections :
        /\ pending[c] \in Nat
        /\ ~ freed[c] =>
              /\ IsFiniteSet(InLanes(c))
              /\ pending[c] = Cardinality(InLanes(c)) + Leaked(c) /\ pending[c] <= MaxPending
        /\ lost[c] => pc[c] \in Gone

SessionInv == Types /\ Places /\ WriterInv /\ OrderInv /\ HeldInv /\ SlotInv

-----------------------------------------------------------------------------
LEMMA TypesInit == Init => Types
<1>. SUFFICES ASSUME Init PROVE Types
    OBVIOUS
<1>1. ThreadTypes
    BY DEF Init, ThreadTypes, Labels
<1>2. wire \in [Connections -> Seq([job : Job, by : Threads])]
    BY DEF Init
<1>3. queue \in [Lanes -> Seq(Job)]
    BY DEF Init
<1>4. sent \in [Connections -> 0 .. MaxRequests]
    BY CountsAssumption DEF Init
<1>5. refCount \in [Connections -> Int] /\ pending \in [Connections -> Int]
    BY DEF Init
<1>6. closed \in [Connections -> BOOLEAN] /\ freed \in [Connections -> BOOLEAN]
    BY DEF Init
<1>7. writer \in [Connections -> Threads \cup {NoThread}]
    BY DEF Init
<1>8. socket \in [Connections -> {"open", "closed"}] /\ panicked \in BOOLEAN
    BY DEF Init
<1>9. lost \in [Connections -> BOOLEAN]
    BY DEF Init
<1>. QED  BY <1>1, <1>2, <1>3, <1>4, <1>5, <1>6, <1>7, <1>8, <1>9 DEF Types

LEMMA PlacesInit == Init => Places
BY ThreadsAssumption DEF Init, Places, ThreadPlaces, Threads, Writing, Leaving, Closing

\* A request in hand, and the connection it is for.
LEMMA InHand ==
    ASSUME Types, Places, NEW t \in Threads, pc[t] # "wait"
    PROVE  /\ Conn(t) \in Connections
           /\ pc[t] \in Writing \cup {"reserve", "enqueue"} => job[t] \in Job /\ job[t].conn = Conn(t)
<1>1. CASE t \in Connections
    <2>1. job[t] # NoJob => job[t] \in Job /\ job[t].conn = t
        BY <1>1 DEF Types, ThreadTypes, Places, ThreadPlaces
    <2>. QED  BY <1>1, <2>1 DEF Places, ThreadPlaces, Conn
<1>2. CASE t \notin Connections
    <2>1. t \in Lanes
        BY <1>2 DEF Threads
    <2>2. job[t] \in Job
        BY <2>1 DEF Types, ThreadTypes, Places, ThreadPlaces
    <2>. QED  BY <1>2, <2>2 DEF Conn, Job
<1>. QED  BY <1>1, <1>2

\* A thread goes to a label, at once or through markClosed, and keeps its request.
Moves(t) == \E label \in Labels : Goto(t, label) \/ CallMarkClosed(t, label)

LEMMA MoveTypes ==
    ASSUME ThreadTypes, NEW t \in Threads, Moves(t)
    PROVE  /\ ThreadTypes' /\ job' = job
           /\ \A u \in Threads \ {t} : pc'[u] = pc[u] /\ return'[u] = return[u]
<1>1. PICK label \in Labels : Goto(t, label) \/ CallMarkClosed(t, label)
    BY DEF Moves
<1>2. CASE Goto(t, label)
    BY <1>2 DEF Goto, ThreadTypes
<1>3. CASE CallMarkClosed(t, label)
    <2>1. "markClosed" \in Labels
        BY DEF Labels
    <2>. QED  BY <1>3, <2>1 DEF CallMarkClosed, ThreadTypes
<1>. QED  BY <1>1, <1>2, <1>3

\* Where the steps go that keep the request of their thread.
LEMMA Movers ==
    ASSUME Types, Places
    PROVE  /\ \A c \in Connections :
                 \/ ReadEnd(c) \/ ReadError(c) \/ Reserve(c) \/ Enqueue(c)
                 \/ ClassifyFails(c) \/ EnqueueFails(c)
                 => Moves(c)
           /\ \A l \in Lanes : ExecuteRequest(l) => Moves(l)
           /\ \A t \in Threads :
                 \/ LockWrite(t) \/ CheckClosed(t) \/ Send(t)
                 \/ MarkClosed(t) \/ CloseSocket(t) \/ Release(t) \/ Destroy(t)
                 => Moves(t)
<1>1. {"read", "reserve", "enqueue", "write", "checkClosed", "send", "closeSocket", "release",
       "destroy", "finish", "exited"} \subseteq Labels
    BY DEF Labels
<1>2. \A t \in Threads : NextRead \in Labels /\ Written(t) \in Labels /\ Released(t) \in Labels
    BY <1>1 DEF NextRead, Written, Released
<1>3. ASSUME NEW c \in Connections
      PROVE  /\ ReadEnd(c) \/ ReadError(c) \/ Reserve(c) \/ Enqueue(c) => Moves(c)
             /\ ClassifyFails(c) \/ EnqueueFails(c) => Moves(c)
    <2>1. c \in Threads
        BY DEF Threads
    <2>2. NextRead \in Labels
        BY <1>2, <2>1
    <2>. QED  BY <1>1, <2>2 DEF ReadEnd, ReadError, Reserve, Enqueue, ClassifyFails, EnqueueFails, Moves
<1>4. ASSUME NEW l \in Lanes, ExecuteRequest(l) PROVE Moves(l)
    BY <1>1, <1>4 DEF ExecuteRequest, Moves
<1>5. ASSUME NEW t \in Threads
      PROVE  /\ LockWrite(t) \/ CheckClosed(t) \/ Send(t) => Moves(t)
             /\ Release(t) \/ Destroy(t) => Moves(t)
    BY <1>1, <1>2 DEF LockWrite, CheckClosed, Send, Release, Destroy, Moves
<1>6. ASSUME NEW t \in Threads, MarkClosed(t) \/ CloseSocket(t) PROVE Moves(t)
    <2>1. return[t] \in Labels
        BY <1>1, <1>6 DEF MarkClosed, CloseSocket, Places, ThreadPlaces, Closing
    <2>. QED  BY <1>1, <1>6, <2>1 DEF MarkClosed, CloseSocket, Moves
<1>. QED  BY <1>3, <1>4, <1>5, <1>6

LEMMA TypesStep == Types /\ Places /\ [Next]_vars => Types'
<1>. SUFFICES ASSUME Types, Places, [Next]_vars PROVE Types'
    OBVIOUS
<1>. USE DEF Types, session, thread
<1>0. Connections \subseteq Threads /\ Lanes \subseteq Threads
    BY DEF Threads
<1>1. ASSUME NEW c \in Connections, ReadRequest(c) PROVE Types'
    <2>1. sent' \in [Connections -> 0 .. MaxRequests] /\ sent[c] + 1 \in Nat
        BY <1>1, CountsAssumption DEF ReadRequest
    <2>2. PICK l \in Lanes : job' = [job EXCEPT ![c] = [conn |-> c, id |-> sent[c] + 1, lane |-> l]]
        BY <1>1 DEF ReadRequest
    <2>3. job' \in [Threads -> Job \cup {NoJob}]
        BY <2>1, <2>2 DEF Job, ThreadTypes
    <2>4. pc' \in [Threads -> Labels]
        BY <1>1 DEF ReadRequest, ThreadTypes, Labels
    <2>. QED  BY <1>1, <2>1, <2>3, <2>4 DEF ReadRequest, ThreadTypes
<1>2. ASSUME NEW c \in Connections, ReadEnd(c) PROVE Types'
    BY <1>2, <1>0, Movers, MoveTypes DEF ReadEnd, CallMarkClosed
<1>3. ASSUME NEW c \in Connections, ReadError(c) PROVE Types'
    BY <1>3, <1>0, Movers, MoveTypes DEF ReadError, Goto
<1>4. ASSUME NEW c \in Connections, Reserve(c) PROVE Types'
    <2>1. ThreadTypes'
        BY <1>4, <1>0, Movers, MoveTypes
    <2>2. pending' \in [Connections -> Int]
        BY <1>4 DEF Reserve
    <2>. QED  BY <1>4, <2>1, <2>2 DEF Reserve
<1>5. ASSUME NEW c \in Connections, Enqueue(c) PROVE Types'
    <2>1. ThreadTypes'
        BY <1>5, <1>0, Movers, MoveTypes
    <2>2. job[c] \in Job
        BY <1>5, <1>0 DEF Enqueue, Places, ThreadPlaces, ThreadTypes
    <2>3. queue' \in [Lanes -> Seq(Job)]
        BY <1>5, <2>2 DEF Enqueue, Job
    <2>4. refCount' \in [Connections -> Int]
        BY <1>5 DEF Enqueue
    <2>. QED  BY <1>5, <2>1, <2>3, <2>4 DEF Enqueue
<1>6. ASSUME NEW l \in Lanes, TakeWork(l) PROVE Types'
    <2>1. queue[l] \in Seq(Job) /\ queue[l] # <<>>
        BY <1>6 DEF TakeWork
    <2>2. Head(queue[l]) \in Job /\ Tail(queue[l]) \in Seq(Job)
        BY <2>1
    <2>3. queue' \in [Lanes -> Seq(Job)]
        BY <1>6, <2>2 DEF TakeWork
    <2>4. job' \in [Threads -> Job \cup {NoJob}] /\ pc' \in [Threads -> Labels]
        BY <1>6, <2>2 DEF TakeWork, ThreadTypes, Labels
    <2>. QED  BY <1>6, <2>3, <2>4 DEF TakeWork, ThreadTypes
<1>7. ASSUME NEW l \in Lanes, ExecuteRequest(l) PROVE Types'
    BY <1>7, <1>0, Movers, MoveTypes DEF ExecuteRequest, Goto
<1>8. ASSUME NEW l \in Lanes, Finish(l) PROVE Types'
    <2>1. job' \in [Threads -> Job \cup {NoJob}] /\ pc' \in [Threads -> Labels] /\ return' = return
        BY <1>8, <1>0 DEF Finish, ThreadTypes, Labels
    <2>2. Conn(l) \in Connections
        BY <1>8, <1>0, InHand DEF Finish
    <2>3. pending' \in [Connections -> Int]
        BY <1>8, <2>2 DEF Finish
    <2>4. panicked' \in BOOLEAN
        BY <1>8 DEF Finish
    <2>. QED  BY <1>8, <2>1, <2>3, <2>4 DEF Finish, ThreadTypes
<1>9. ASSUME NEW t \in Threads, LockWrite(t) PROVE Types'
    BY <1>9, Movers, MoveTypes DEF LockWrite, Goto
<1>10. ASSUME NEW t \in Threads, CheckClosed(t) PROVE Types'
    <2>1. ThreadTypes'
        BY <1>10, Movers, MoveTypes
    <2>2. writer' \in [Connections -> Threads \cup {NoThread}]
        BY <1>10 DEF CheckClosed, Unlock
    <2>. QED  BY <1>10, <2>1, <2>2 DEF CheckClosed
<1>11. ASSUME NEW t \in Threads, Send(t) PROVE Types'
    <2>1. ThreadTypes'
        BY <1>11, Movers, MoveTypes
    <2>2. writer' \in [Connections -> Threads \cup {NoThread}]
        BY <1>11 DEF Send, Unlock
    <2>3. wire' \in [Connections -> Seq([job : Job, by : Threads])]
        <3>. DEFINE frame == [job |-> job[t], by |-> t]
                    Frames == [job : Job, by : Threads]
        <3>1. frame \in Frames
            BY <1>11, InHand DEF Send, Writing
        <3>2. UNCHANGED wire \/ wire' = [wire EXCEPT ![Conn(t)] = Append(@, frame)]
            BY <1>11 DEF Send
        <3>3. wire \in [Connections -> Seq(Frames)]
            OBVIOUS
        <3>. HIDE DEF frame, Frames
        <3>4. wire' \in [Connections -> Seq(Frames)]
            <4>1. \A c \in Connections : wire[c] \in Seq(Frames)
                BY <3>3
            <4>2. \A c \in Connections : Append(wire[c], frame) \in Seq(Frames)
                BY <3>1, <4>1
            <4>3. ASSUME NEW c \in Connections PROVE wire'[c] \in Seq(Frames)
                <5>1. CASE UNCHANGED wire
                    BY <5>1, <4>1
                <5>2. CASE wire' = [wire EXCEPT ![Conn(t)] = Append(@, frame)]
                    <6>1. wire'[c] \in {wire[c], Append(wire[c], frame)}
                        BY <5>2, <3>3
                    <6>. QED  BY <6>1, <4>1, <4>2
                <5>. QED  BY <5>1, <5>2, <3>2
            <4>4. wire' = [c \in Connections |-> wire'[c]]
                BY <3>2, <3>3
            <4>. QED  BY <4>3, <4>4
        <3>. QED  BY <3>4 DEF Frames
    <2>. QED  BY <1>11, <2>1, <2>2, <2>3 DEF Send
<1>12. ASSUME NEW t \in Threads, MarkClosed(t) PROVE Types'
    <2>1. ThreadTypes'
        BY <1>12, Movers, MoveTypes
    <2>. QED  BY <1>12, <2>1 DEF MarkClosed
<1>13. ASSUME NEW t \in Threads, CloseSocket(t) PROVE Types'
    <2>1. ThreadTypes'
        BY <1>13, Movers, MoveTypes
    <2>. QED  BY <1>13, <2>1 DEF CloseSocket
<1>14. ASSUME NEW t \in Threads, Release(t) PROVE Types'
    <2>1. ThreadTypes'
        BY <1>14, Movers, MoveTypes
    <2>2. Conn(t) \in Connections
        BY <1>14, InHand DEF Release
    <2>3. refCount' \in [Connections -> Int]
        BY <1>14, <2>2 DEF Release
    <2>. QED  BY <1>14, <2>1, <2>3 DEF Release
<1>15. ASSUME NEW t \in Threads, Destroy(t) PROVE Types'
    <2>1. ThreadTypes'
        BY <1>15, Movers, MoveTypes
    <2>. QED  BY <1>15, <2>1 DEF Destroy
<1>17. ASSUME NEW c \in Connections, ClassifyFails(c) PROVE Types'
    <2>1. ThreadTypes' /\ lost' \in [Connections -> BOOLEAN]
        BY <1>17, <1>0, Movers, MoveTypes DEF ClassifyFails
    <2>. QED  BY <1>17, <2>1 DEF ClassifyFails
<1>18. ASSUME NEW c \in Connections, EnqueueFails(c) PROVE Types'
    <2>1. ThreadTypes'
        BY <1>18, <1>0, Movers, MoveTypes
    <2>2. pending' \in [Connections -> Int]
        BY <1>18 DEF EnqueueFails
    <2>. QED  BY <1>18, <2>1, <2>2 DEF EnqueueFails
<1>16. CASE UNCHANGED vars
    BY <1>16 DEF vars, ThreadTypes
<1>. QED
    BY <1>1, <1>2, <1>3, <1>4, <1>5, <1>6, <1>7, <1>8, <1>9, <1>10, <1>11, <1>12, <1>13,
       <1>14, <1>15, <1>16, <1>17, <1>18
       DEF Next, Step, Client, Write, Close, Serve, Work, AllDone

\* The label a move leads to.
LEMMA MoveTo ==
    ASSUME ThreadTypes, NEW t \in Threads, NEW label
    PROVE  /\ Goto(t, label) => pc'[t] = label /\ return'[t] = return[t]
           /\ CallMarkClosed(t, label) => pc'[t] = "markClosed" /\ return'[t] = label
BY DEF ThreadTypes, Goto, CallMarkClosed

\* What a move may do to Places: nothing to other threads.
LEMMA PlacesMove ==
    ASSUME Types, Places, NEW t \in Threads, Moves(t),
           t \in Connections =>
              /\ pc'[t] \in {"read", "enqueue", "exited"} \cup Writing \cup Leaving
              /\ pc'[t] \in {"enqueue"} \cup Writing => pc[t] \in {"reserve"} \cup Writing,
           t \in Lanes =>
              pc[t] # "wait" /\ pc'[t] \in {"finish"} \cup Writing \cup Leaving,
           pc'[t] \in Closing => return'[t] \in {"release", "destroy"}
    PROVE  ThreadPlaces' /\ (UNCHANGED queue => Places')
<1>1. job' = job /\ \A u \in Threads \ {t} : pc'[u] = pc[u] /\ return'[u] = return[u]
    BY MoveTypes DEF Types
<1>2. Connections \subseteq Threads /\ Lanes \subseteq Threads
    BY DEF Threads
<1>3. ASSUME NEW c \in Connections
      PROVE  /\ pc'[c] \in {"read", "reserve", "enqueue", "exited"} \cup Writing \cup Leaving
             /\ pc'[c] \in {"reserve", "enqueue"} \cup Writing => job[c] # NoJob
    <2>1. CASE c = t
        BY <2>1 DEF Places, ThreadPlaces, Writing, Leaving, Closing
    <2>2. CASE c # t
        BY <2>2, <1>1, <1>2 DEF Places, ThreadPlaces
    <2>. QED  BY <2>1, <2>2
<1>4. ASSUME NEW l \in Lanes
      PROVE  /\ pc'[l] \in {"wait", "execute", "finish"} \cup Writing \cup Leaving
             /\ pc'[l] = "wait" <=> job[l] = NoJob
    <2>1. CASE l = t
        BY <2>1 DEF Places, ThreadPlaces, Writing, Leaving, Closing
    <2>2. CASE l # t
        BY <2>2, <1>1, <1>2 DEF Places, ThreadPlaces
    <2>. QED  BY <2>1, <2>2
<1>5. \A u \in Threads : pc'[u] \in Closing => return'[u] \in {"release", "destroy"}
    BY <1>1 DEF Places, ThreadPlaces
<1>. QED  BY <1>1, <1>3, <1>4, <1>5 DEF Places, ThreadPlaces

LEMMA PlacesStep == Types /\ Places /\ [Next]_vars => Places'
<1>. SUFFICES ASSUME Types, Places, [Next]_vars PROVE Places'
    OBVIOUS
<1>. USE ThreadsAssumption DEF session, thread
<1>0. /\ Connections \subseteq Threads /\ Lanes \subseteq Threads
      /\ Connections \cap Lanes = {} /\ ThreadTypes
    BY ThreadsAssumption DEF Threads, Types
<1>a. \A t \in Threads : pc[t] \in Closing => return[t] \in {"release", "destroy"}
    BY DEF Places, ThreadPlaces
<1>1. ASSUME NEW c \in Connections, ReadRequest(c) PROVE Places'
    <2>1. PICK l \in Lanes : job' = [job EXCEPT ![c] = [conn |-> c, id |-> sent[c] + 1, lane |-> l]]
        BY <1>1 DEF ReadRequest
    <2>2. [conn |-> c, id |-> sent[c] + 1, lane |-> l] \in Job
        BY CountsAssumption DEF Job, Types
    <2>3. /\ job'[c] \in Job /\ job'[c].conn = c /\ pc'[c] = "reserve"
          /\ \A t \in Threads \ {c} : job'[t] = job[t] /\ pc'[t] = pc[t]
          /\ UNCHANGED <<return, queue>>
        BY <1>1, <1>0, <2>1, <2>2 DEF ReadRequest, ThreadTypes
    <2>4. job'[c] # NoJob
        BY <2>3, NoJobAssumption
    <2>5. \A d \in Connections :
          /\ pc'[d] \in {"read", "reserve", "enqueue", "exited"} \cup Writing \cup Leaving
          /\ job'[d] # NoJob => job'[d].conn = d
          /\ pc'[d] \in {"reserve", "enqueue"} \cup Writing => job'[d] # NoJob
        BY <2>3, <2>4, <1>0 DEF Places, ThreadPlaces
    <2>6. \A k \in Lanes : pc'[k] = pc[k] /\ job'[k] = job[k]
        BY <2>3, <1>0
    <2>7. \A t \in Threads : pc'[t] \in Closing => return'[t] \in {"release", "destroy"}
        BY <2>3, <1>a DEF Closing
    <2>. QED  BY <2>3, <2>5, <2>6, <2>7 DEF Places, ThreadPlaces
<1>2. ASSUME NEW c \in Connections, ReadEnd(c) PROVE Places'
    <2>1. pc'[c] = "markClosed" /\ return'[c] = "release" /\ queue' = queue /\ Moves(c)
        BY <1>2, <1>0, MoveTo, Movers DEF ReadEnd
    <2>. QED  BY <2>1, <1>0, PlacesMove DEF Leaving, Closing, Writing
<1>3. ASSUME NEW c \in Connections, ReadError(c) PROVE Places'
    <2>1. pc'[c] = "release" /\ queue' = queue /\ Moves(c)
        BY <1>3, <1>0, MoveTo, Movers DEF ReadError
    <2>. QED  BY <2>1, <1>0, PlacesMove DEF Leaving, Closing, Writing
<1>4. ASSUME NEW c \in Connections, Reserve(c) PROVE Places'
    <2>1. pc[c] = "reserve" /\ pc'[c] \in {"write", "enqueue"} /\ queue' = queue /\ Moves(c)
        BY <1>4, <1>0, MoveTo, Movers DEF Reserve
    <2>. QED  BY <2>1, <1>0, PlacesMove DEF Leaving, Closing, Writing
<1>5. ASSUME NEW c \in Connections, Enqueue(c) PROVE Places'
    <2>1. pc[c] = "enqueue" /\ pc'[c] \in {"release", "read"} /\ Moves(c)
        BY <1>5, <1>0, MoveTo, Movers DEF Enqueue, NextRead
    <2>2. ThreadPlaces'
        BY <2>1, <1>0, PlacesMove DEF Leaving, Closing, Writing
    <2>3. job[c] \in Job
        BY <2>1, <1>0, InHand
    <2>4. \A l \in Lanes : \A i \in DOMAIN queue'[l] : queue'[l][i].lane = l
        <3>1. /\ \A l \in Lanes \ {job[c].lane} : queue'[l] = queue[l]
              /\ job[c].lane \in Lanes
              /\ queue'[job[c].lane] = Append(queue[job[c].lane], job[c])
            BY <1>5, <2>3 DEF Enqueue, Types, Job
        <3>2. queue[job[c].lane] \in Seq(Job)
            BY <3>1 DEF Types
        <3>3. \A i \in DOMAIN Append(queue[job[c].lane], job[c]) :
                 Append(queue[job[c].lane], job[c])[i].lane = job[c].lane
            BY <3>1, <3>2 DEF Places
        <3>. QED  BY <3>1, <3>3 DEF Places
    <2>. QED  BY <2>2, <2>4 DEF Places
<1>6. ASSUME NEW l \in Lanes, TakeWork(l) PROVE Places'
    <2>1. queue[l] \in Seq(Job) /\ queue[l] # <<>>
        BY <1>6 DEF TakeWork, Types
    <2>2. Head(queue[l]) \in Job /\ Head(queue[l]).lane = l
        BY <2>1 DEF Places
    <2>3. /\ job'[l] = Head(queue[l]) /\ pc'[l] = "execute"
          /\ \A t \in Threads \ {l} : job'[t] = job[t] /\ pc'[t] = pc[t]
          /\ UNCHANGED return
        BY <1>6, <1>0 DEF TakeWork, ThreadTypes
    <2>4. \A k \in Lanes : \A i \in DOMAIN queue'[k] : queue'[k][i].lane = k
        <3>1. \A i \in DOMAIN Tail(queue[l]) : Tail(queue[l])[i].lane = l
            BY <2>1 DEF Places
        <3>. QED  BY <1>6, <3>1 DEF TakeWork, Types, Places
    <2>5. \A d \in Connections : pc'[d] = pc[d] /\ job'[d] = job[d]
        BY <2>3, <1>0
    <2>6. \A k \in Lanes :
          /\ pc'[k] \in {"wait", "execute", "finish"} \cup Writing \cup Leaving
          /\ pc'[k] = "wait" <=> job'[k] = NoJob
          /\ job'[k] # NoJob => job'[k].lane = k
        BY <2>2, <2>3, <1>0, NoJobAssumption DEF Places, ThreadPlaces
    <2>7. \A t \in Threads : pc'[t] \in Closing => return'[t] \in {"release", "destroy"}
        BY <2>3, <1>a DEF Closing
    <2>. QED  BY <2>4, <2>5, <2>6, <2>7 DEF Places, ThreadPlaces
<1>7. ASSUME NEW l \in Lanes, ExecuteRequest(l) PROVE Places'
    <2>1. pc[l] = "execute" /\ pc'[l] \in {"release", "write"} /\ queue' = queue /\ Moves(l)
        BY <1>7, <1>0, MoveTo, Movers DEF ExecuteRequest
    <2>. QED  BY <2>1, <1>0, PlacesMove DEF Leaving, Closing, Writing
<1>8. ASSUME NEW l \in Lanes, Finish(l) PROVE Places'
    <2>3. /\ job'[l] = NoJob /\ pc'[l] = "wait"
          /\ \A t \in Threads \ {l} : job'[t] = job[t] /\ pc'[t] = pc[t]
          /\ UNCHANGED <<return, queue>>
        BY <1>8, <1>0 DEF Finish, ThreadTypes
    <2>5. \A d \in Connections : pc'[d] = pc[d] /\ job'[d] = job[d]
        BY <2>3, <1>0
    <2>6. \A k \in Lanes :
          /\ pc'[k] \in {"wait", "execute", "finish"} \cup Writing \cup Leaving
          /\ pc'[k] = "wait" <=> job'[k] = NoJob
          /\ job'[k] # NoJob => job'[k].lane = k
        BY <2>3, <1>0 DEF Places, ThreadPlaces
    <2>7. \A t \in Threads : pc'[t] \in Closing => return'[t] \in {"release", "destroy"}
        BY <2>3, <1>a DEF Closing
    <2>. QED  BY <2>3, <2>5, <2>6, <2>7 DEF Places, ThreadPlaces
<1>9. ASSUME NEW t \in Threads, LockWrite(t) PROVE Places'
    <2>1. pc[t] = "write" /\ pc'[t] = "checkClosed" /\ queue' = queue /\ Moves(t)
        BY <1>9, <1>0, MoveTo, Movers DEF LockWrite
    <2>. QED  BY <2>1, <1>0, PlacesMove DEF Leaving, Closing, Writing
<1>10. ASSUME NEW t \in Threads, CheckClosed(t) PROVE Places'
    <2>1. /\ pc[t] = "checkClosed" /\ queue' = queue /\ Moves(t)
          /\ pc'[t] = "send" \/ (pc'[t] = "markClosed" /\ return'[t] = "release")
        BY <1>10, <1>0, MoveTo, Movers DEF CheckClosed
    <2>. QED  BY <2>1, <1>0, PlacesMove DEF Leaving, Closing, Writing
<1>11. ASSUME NEW t \in Threads, Send(t) PROVE Places'
    <2>1. /\ pc[t] = "send" /\ queue' = queue /\ Moves(t)
          /\ \/ pc'[t] = "release" \/ (pc'[t] = "read" /\ t \in Connections)
             \/ (pc'[t] = "markClosed" /\ return'[t] = "release")
        BY <1>11, <1>0, MoveTo, Movers DEF Send, Written, NextRead
    <2>. QED  BY <2>1, <1>0, PlacesMove DEF Leaving, Closing, Writing
<1>12. ASSUME NEW t \in Threads, MarkClosed(t) PROVE Places'
    <2>1. /\ pc[t] = "markClosed" /\ queue' = queue /\ Moves(t) /\ return'[t] = return[t]
          /\ pc'[t] \in {"closeSocket", return[t]} /\ return[t] \in {"release", "destroy"}
        BY <1>12, <1>0, <1>a, MoveTo, Movers DEF MarkClosed, Closing
    <2>. QED  BY <2>1, <1>0, PlacesMove DEF Leaving, Closing, Writing
<1>13. ASSUME NEW t \in Threads, CloseSocket(t) PROVE Places'
    <2>1. /\ pc[t] = "closeSocket" /\ queue' = queue /\ Moves(t)
          /\ pc'[t] = return[t] /\ return[t] \in {"release", "destroy"}
        BY <1>13, <1>0, <1>a, MoveTo, Movers DEF CloseSocket, Closing
    <2>. QED  BY <2>1, <1>0, PlacesMove DEF Leaving, Closing, Writing
<1>14. ASSUME NEW t \in Threads, Release(t) PROVE Places'
    <2>1. /\ pc[t] = "release" /\ queue' = queue /\ Moves(t)
          /\ \/ pc'[t] = "markClosed" /\ return'[t] = "destroy"
             \/ pc'[t] = "exited" /\ t \in Connections
             \/ pc'[t] = "finish" /\ t \notin Connections
        BY <1>14, <1>0, MoveTo, Movers DEF Release, Released
    <2>. QED  BY <2>1, <1>0, PlacesMove DEF Leaving, Closing, Writing
<1>15. ASSUME NEW t \in Threads, Destroy(t) PROVE Places'
    <2>1. /\ pc[t] = "destroy" /\ queue' = queue /\ Moves(t)
          /\ \/ pc'[t] = "exited" /\ t \in Connections
             \/ pc'[t] = "finish" /\ t \notin Connections
        BY <1>15, <1>0, MoveTo, Movers DEF Destroy, Released
    <2>. QED  BY <2>1, <1>0, PlacesMove DEF Leaving, Closing, Writing
<1>17. ASSUME NEW c \in Connections, ClassifyFails(c) PROVE Places'
    <2>1. pc'[c] = "release" /\ queue' = queue /\ Moves(c)
        BY <1>17, <1>0, MoveTo, Movers DEF ClassifyFails
    <2>. QED  BY <2>1, <1>0, PlacesMove DEF Leaving, Closing, Writing
<1>18. ASSUME NEW c \in Connections, EnqueueFails(c) PROVE Places'
    <2>1. pc'[c] = "release" /\ queue' = queue /\ Moves(c)
        BY <1>18, <1>0, MoveTo, Movers DEF EnqueueFails
    <2>. QED  BY <2>1, <1>0, PlacesMove DEF Leaving, Closing, Writing
<1>16. CASE UNCHANGED vars
    BY <1>16 DEF vars, Places, ThreadPlaces
<1>. QED
    BY <1>1, <1>2, <1>3, <1>4, <1>5, <1>6, <1>7, <1>8, <1>9, <1>10, <1>11, <1>12, <1>13,
       <1>14, <1>15, <1>16, <1>17, <1>18
       DEF Next, Step, Client, Write, Close, Serve, Work, AllDone

-----------------------------------------------------------------------------
(* The write mutex.                                                        *)

\* A step of one thread leaves the others at their labels, with their requests.
Alone(t) ==
    \A u \in Threads \ {t} : pc'[u] = pc[u] /\ job'[u] = job[u] /\ return'[u] = return[u]

LEMMA MovesAlone ==
    ASSUME Types, NEW t \in Threads, Moves(t)
    PROVE  Alone(t) /\ \A u \in Threads : Conn(u)' = Conn(u)
BY MoveTypes DEF Types, Alone, Conn

\* A step that touches a mutex only when it is free or its own, and closes a socket
\* only when the mutex is free, leaves the other threads what they rely on.
LEMMA WriterMove ==
    ASSUME Types, Places, WriterInv, NEW t \in Threads, Alone(t),
           pc'[t] \in {"checkClosed", "send", "closeSocket"} => job'[t] = job[t],
           \A c \in Connections :
              /\ writer'[c] = writer[c] \/ writer[c] \in {t, NoThread}
              /\ socket'[c] = socket[c] \/ (writer[c] = NoThread /\ closed[c])
              /\ closed[c] => closed'[c],
           pc'[t] \in {"checkClosed", "send"} => writer'[Conn(t)] = t,
           pc'[t] = "send" => socket'[Conn(t)] = "open",
           pc'[t] = "closeSocket" => closed'[Conn(t)]
    PROVE  WriterInv'
<1>1. ASSUME NEW u \in Threads, u # t, pc'[u] \in {"checkClosed", "send", "closeSocket"}
      PROVE  /\ pc'[u] \in {"checkClosed", "send"} => writer'[Conn(u)'] = u
             /\ pc'[u] = "send" => socket'[Conn(u)'] = "open"
             /\ pc'[u] = "closeSocket" => closed'[Conn(u)']
    <2>1. pc'[u] = pc[u] /\ Conn(u)' = Conn(u)
        BY <1>1 DEF Alone, Conn
    <2>2. Conn(u) \in Connections
        BY <1>1, <2>1, InHand
    <2>3. u # NoThread
        BY ThreadsAssumption
    <2>. QED  BY <1>1, <2>1, <2>2, <2>3 DEF WriterInv
<1>2. ASSUME pc'[t] \in {"checkClosed", "send", "closeSocket"} PROVE Conn(t)' = Conn(t)
    BY <1>2 DEF Conn
<1>3. ASSUME NEW c \in Connections, socket'[c] = "closed" PROVE closed'[c]
    BY <1>3 DEF WriterInv
<1>. QED  BY <1>1, <1>2, <1>3 DEF WriterInv

LEMMA WriterInit == Init => WriterInv
BY ThreadsAssumption DEF Init, WriterInv, Threads

LEMMA WriterStep == Types /\ Places /\ WriterInv /\ [Next]_vars => WriterInv'
<1>. SUFFICES ASSUME Types, Places, WriterInv, [Next]_vars PROVE WriterInv'
    OBVIOUS
<1>. USE DEF session, thread
<1>0. /\ Connections \subseteq Threads /\ Lanes \subseteq Threads
      /\ Connections \cap Lanes = {} /\ ThreadTypes
    BY ThreadsAssumption DEF Threads, Types
<1>a. \A t \in Threads : pc[t] \in Closing => return[t] \in {"release", "destroy"}
    BY DEF Places, ThreadPlaces
<1>1. ASSUME NEW c \in Connections, ReadRequest(c) PROVE WriterInv'
    <2>1. pc'[c] = "reserve" /\ Alone(c) /\ UNCHANGED <<writer, socket, closed>>
        BY <1>1, <1>0 DEF ReadRequest, ThreadTypes, Alone
    <2>. QED  BY <2>1, <1>0, WriterMove
<1>2. ASSUME NEW c \in Connections, ReadEnd(c) PROVE WriterInv'
    <2>1. pc'[c] = "markClosed" /\ Alone(c) /\ UNCHANGED <<writer, socket, closed>>
        BY <1>2, <1>0, MoveTo, Movers, MovesAlone DEF ReadEnd
    <2>. QED  BY <2>1, <1>0, WriterMove
<1>3. ASSUME NEW c \in Connections, ReadError(c) PROVE WriterInv'
    <2>1. pc'[c] = "release" /\ Alone(c) /\ UNCHANGED <<writer, socket, closed>>
        BY <1>3, <1>0, MoveTo, Movers, MovesAlone DEF ReadError
    <2>. QED  BY <2>1, <1>0, WriterMove
<1>4. ASSUME NEW c \in Connections, Reserve(c) PROVE WriterInv'
    <2>1. pc'[c] \in {"write", "enqueue"} /\ Alone(c) /\ UNCHANGED <<writer, socket, closed>>
        BY <1>4, <1>0, MoveTo, Movers, MovesAlone DEF Reserve
    <2>. QED  BY <2>1, <1>0, WriterMove
<1>5. ASSUME NEW c \in Connections, Enqueue(c) PROVE WriterInv'
    <2>1. pc'[c] \in {"release", "read"} /\ Alone(c) /\ UNCHANGED <<writer, socket, closed>>
        BY <1>5, <1>0, MoveTo, Movers, MovesAlone DEF Enqueue, NextRead
    <2>. QED  BY <2>1, <1>0, WriterMove
<1>6. ASSUME NEW l \in Lanes, TakeWork(l) PROVE WriterInv'
    <2>1. pc'[l] = "execute" /\ Alone(l) /\ UNCHANGED <<writer, socket, closed>>
        BY <1>6, <1>0 DEF TakeWork, ThreadTypes, Alone
    <2>. QED  BY <2>1, <1>0, WriterMove
<1>7. ASSUME NEW l \in Lanes, ExecuteRequest(l) PROVE WriterInv'
    <2>1. pc'[l] \in {"release", "write"} /\ Alone(l) /\ UNCHANGED <<writer, socket, closed>>
        BY <1>7, <1>0, MoveTo, Movers, MovesAlone DEF ExecuteRequest
    <2>. QED  BY <2>1, <1>0, WriterMove
<1>8. ASSUME NEW l \in Lanes, Finish(l) PROVE WriterInv'
    <2>1. pc'[l] = "wait" /\ Alone(l) /\ UNCHANGED <<writer, socket, closed>>
        BY <1>8, <1>0 DEF Finish, ThreadTypes, Alone
    <2>. QED  BY <2>1, <1>0, WriterMove
<1>9. ASSUME NEW t \in Threads, LockWrite(t) PROVE WriterInv'
    <2>1. /\ pc'[t] = "checkClosed" /\ Alone(t) /\ UNCHANGED <<socket, closed>>
          /\ writer[Conn(t)] = NoThread /\ writer' = [writer EXCEPT ![Conn(t)] = t]
        BY <1>9, <1>0, MoveTo, Movers, MovesAlone DEF LockWrite
    <2>2. Conn(t) \in Connections /\ job' = job
        BY <1>9, InHand DEF LockWrite, Goto
    <2>3. /\ writer'[Conn(t)] = t
          /\ \A c \in Connections : writer'[c] = writer[c] \/ writer[c] \in {t, NoThread}
        BY <2>1, <2>2 DEF Types
    <2>. QED  BY <2>1, <2>2, <2>3, WriterMove
<1>b. ASSUME NEW t \in Threads, Unlock(t), writer[Conn(t)] = t, Conn(t) \in Connections
      PROVE  \A c \in Connections : writer'[c] = writer[c] \/ writer[c] \in {t, NoThread}
    BY <1>b DEF Unlock, Types
<1>10. ASSUME NEW t \in Threads, CheckClosed(t) PROVE WriterInv'
    <2>1. /\ Alone(t) /\ UNCHANGED <<socket, closed, job>>
          /\ \/ Unlock(t) /\ pc'[t] = "markClosed"
             \/ pc'[t] = "send" /\ UNCHANGED writer /\ ~ closed[Conn(t)]
        BY <1>10, <1>0, MoveTo, Movers, MovesAlone DEF CheckClosed, Goto, CallMarkClosed
    <2>2. Conn(t) \in Connections /\ writer[Conn(t)] = t
        BY <1>10, InHand DEF CheckClosed, WriterInv
    <2>3. CASE pc'[t] = "markClosed" /\ Unlock(t)
        BY <2>1, <2>2, <2>3, <1>b, WriterMove
    <2>4. CASE pc'[t] = "send" /\ UNCHANGED writer /\ ~ closed[Conn(t)]
        <3>1. socket[Conn(t)] = "open"
            BY <2>2, <2>4 DEF WriterInv, Types
        <3>. QED  BY <2>1, <2>2, <2>4, <3>1, WriterMove
    <2>. QED  BY <2>1, <2>3, <2>4
<1>11. ASSUME NEW t \in Threads, Send(t) PROVE WriterInv'
    <2>1. /\ Alone(t) /\ UNCHANGED <<socket, closed, job>> /\ Unlock(t)
          /\ pc'[t] \in {"release", "read", "markClosed"}
        BY <1>11, <1>0, MoveTo, Movers, MovesAlone
           DEF Send, Written, NextRead, Goto, CallMarkClosed
    <2>2. Conn(t) \in Connections /\ writer[Conn(t)] = t
        BY <1>11, InHand DEF Send, WriterInv
    <2>. QED  BY <2>1, <2>2, <1>b, WriterMove
<1>12. ASSUME NEW t \in Threads, MarkClosed(t) PROVE WriterInv'
    <2>1. /\ Alone(t) /\ UNCHANGED <<socket, writer, job>>
          /\ closed' = [closed EXCEPT ![Conn(t)] = TRUE]
          /\ pc'[t] \in {"closeSocket", return[t]} /\ return[t] \in {"release", "destroy"}
        BY <1>12, <1>0, <1>a, MoveTo, Movers, MovesAlone DEF MarkClosed, Closing, Goto
    <2>2. Conn(t) \in Connections
        BY <1>12, InHand DEF MarkClosed
    <2>3. closed'[Conn(t)] /\ \A c \in Connections : closed[c] => closed'[c]
        BY <2>1, <2>2 DEF Types
    <2>. QED  BY <2>1, <2>2, <2>3, WriterMove
<1>13. ASSUME NEW t \in Threads, CloseSocket(t) PROVE WriterInv'
    <2>1. /\ Alone(t) /\ UNCHANGED <<closed, writer, job>>
          /\ socket' = [socket EXCEPT ![Conn(t)] = "closed"] /\ writer[Conn(t)] = NoThread
          /\ pc'[t] = return[t] /\ return[t] \in {"release", "destroy"}
        BY <1>13, <1>0, <1>a, MoveTo, Movers, MovesAlone DEF CloseSocket, Closing, Goto
    <2>2. Conn(t) \in Connections /\ closed[Conn(t)]
        BY <1>13, InHand DEF CloseSocket, WriterInv
    <2>3. \A c \in Connections : socket'[c] = socket[c] \/ (writer[c] = NoThread /\ closed[c])
        BY <2>1, <2>2 DEF Types
    <2>. QED  BY <2>1, <2>2, <2>3, WriterMove
<1>14. ASSUME NEW t \in Threads, Release(t) PROVE WriterInv'
    <2>1. /\ Alone(t) /\ UNCHANGED <<writer, socket, closed>>
          /\ pc'[t] \in {"markClosed", "exited", "finish"}
        BY <1>14, <1>0, MoveTo, Movers, MovesAlone DEF Release, Released
    <2>. QED  BY <2>1, <1>0, WriterMove
<1>15. ASSUME NEW t \in Threads, Destroy(t) PROVE WriterInv'
    <2>1. /\ Alone(t) /\ UNCHANGED <<writer, socket, closed>>
          /\ pc'[t] \in {"exited", "finish"}
        BY <1>15, <1>0, MoveTo, Movers, MovesAlone DEF Destroy, Released
    <2>. QED  BY <2>1, <1>0, WriterMove
<1>17. ASSUME NEW c \in Connections, ClassifyFails(c) PROVE WriterInv'
    <2>1. pc'[c] = "release" /\ Alone(c) /\ UNCHANGED <<writer, socket, closed>>
        BY <1>17, <1>0, MoveTo, Movers, MovesAlone DEF ClassifyFails
    <2>. QED  BY <2>1, <1>0, WriterMove
<1>18. ASSUME NEW c \in Connections, EnqueueFails(c) PROVE WriterInv'
    <2>1. pc'[c] = "release" /\ Alone(c) /\ UNCHANGED <<writer, socket, closed>>
        BY <1>18, <1>0, MoveTo, Movers, MovesAlone DEF EnqueueFails
    <2>. QED  BY <2>1, <1>0, WriterMove
<1>16. CASE UNCHANGED vars
    BY <1>16 DEF vars, WriterInv, Conn
<1>. QED
    BY <1>1, <1>2, <1>3, <1>4, <1>5, <1>6, <1>7, <1>8, <1>9, <1>10, <1>11, <1>12, <1>13,
       <1>14, <1>15, <1>16, <1>17, <1>18
       DEF Next, Step, Client, Write, Close, Serve, Work, AllDone

-----------------------------------------------------------------------------
(* The order of requests and answers.                                      *)

\* The numbers that are compared.
LEMMA Numbers ==
    ASSUME Types
    PROVE  /\ \A c \in Connections : sent[c] \in Nat /\ Newest(c) \in Int
           /\ \A l \in Lanes : \A i \in DOMAIN queue[l] : queue[l][i] \in Job
           /\ \A c \in Connections : \A i \in DOMAIN wire[c] :
                 wire[c][i].job \in Job /\ wire[c][i].by \in Threads
           /\ \A j \in Job : j.id \in Nat /\ j.conn \in Connections /\ j.lane \in Lanes
           /\ \A t \in Threads : job[t] # NoJob => job[t] \in Job
<1>1. \A c \in Connections : sent[c] \in Nat /\ Newest(c) \in Int
    BY CountsAssumption DEF Types, Newest
<1>2. \A l \in Lanes : \A i \in DOMAIN queue[l] : queue[l][i] \in Job
    BY DEF Types
<1>3. ASSUME NEW c \in Connections, NEW i \in DOMAIN wire[c]
      PROVE  wire[c][i].job \in Job /\ wire[c][i].by \in Threads
    <2>. DEFINE Frames == [job : Job, by : Threads]
    <2>1. wire[c] \in Seq(Frames)
        BY DEF Types
    <2>2. wire[c][i] \in Frames
        <3>. HIDE DEF Frames
        <3>. QED  BY <2>1
    <2>. QED  BY <2>2
<1>4. \A j \in Job : j.id \in Nat /\ j.conn \in Connections /\ j.lane \in Lanes
    BY DEF Job
<1>5. \A t \in Threads : job[t] # NoJob => job[t] \in Job
    BY DEF Types, ThreadTypes
<1>. QED  BY <1>1, <1>2, <1>3, <1>4, <1>5

\* What was read stays read.
LEMMA ReadKept ==
    ASSUME Types, Types', \A c \in Connections : Newest(c)' >= Newest(c)
    PROVE  \A j \in Job : Read(j) => Read(j)'
<1>1. \A c \in Connections : Newest(c) \in Int /\ Newest(c)' \in Int
    BY CountsAssumption DEF Types, Newest
<1>. QED  BY <1>1, Numbers DEF Read

\* A step after which the same requests wait, and the answers sent are in order.
LEMMA QueueKept ==
    ASSUME Types, OrderInv, UNCHANGED queue, \A j \in Job : Read(j) => Read(j)'
    PROVE  QueueOrder' /\ \A j \in Job, l \in Lanes : AheadOf(j, l)' = AheadOf(j, l)
<1>1. \A l \in Lanes : \A i \in DOMAIN queue[l] : (Read(queue[l][i]))'
    <2>1. ASSUME NEW l \in Lanes, NEW i \in DOMAIN queue[l] PROVE (Read(queue[l][i]))'
        <3>1. PICK j \in Job : j = queue[l][i]
            BY Numbers
        <3>2. Read(j)'
            BY <3>1 DEF OrderInv, QueueOrder
        <3>. QED  BY <3>1, <3>2
    <2>. QED  BY <2>1
<1>. QED  BY <1>1 DEF OrderInv, QueueOrder, AheadOf, Before

LEMMA WireKept ==
    ASSUME Types, OrderInv, UNCHANGED wire,
           ASSUME NEW c \in Connections, NEW l \in Lanes, NEW j \in Job, Answer(c, l, j)
           PROVE  Answer(c, l, j)'
    PROVE  WireOrder' /\ LaneOrder'
<1>1. ASSUME NEW c \in Connections, NEW i \in DOMAIN wire[c], wire[c][i].by \in Lanes
      PROVE  (Answer(c, wire[c][i].by, wire[c][i].job))'
    <2>1. PICK l \in Lanes : l = wire[c][i].by
        BY <1>1
    <2>2. PICK j \in Job : j = wire[c][i].job
        BY Numbers
    <2>3. Answer(c, l, j)
        BY <2>1, <2>2 DEF OrderInv, WireOrder
    <2>4. Answer(c, l, j)'
        BY <2>3
    <2>. QED  BY <2>1, <2>2, <2>4
<1>2. WireOrder'
    BY <1>1 DEF WireOrder
<1>3. LaneOrder'
    BY DEF OrderInv, LaneOrder
<1>. QED  BY <1>2, <1>3

LEMMA JobKept ==
    ASSUME Types, OrderInv, NEW l \in Lanes, UNCHANGED <<job[l], queue[l]>>, job[l] # NoJob,
           \A j \in Job : Read(j) => Read(j)'
    PROVE  (Read(job[l]) /\ AheadOf(job[l], l))'
<1>1. PICK j \in Job : j = job[l]
    BY Numbers DEF Threads
<1>2. Read(j) /\ AheadOf(j, l)
    BY <1>1 DEF OrderInv, JobOrder
<1>3. Read(j)' /\ AheadOf(j, l)'
    BY <1>2 DEF AheadOf
<1>. QED  BY <1>1, <1>3

\* A step that gives no lane a request and sends nothing keeps the order.
LEMMA OrderMove ==
    ASSUME Types, OrderInv, Types', UNCHANGED <<queue, wire>>,
           \A l \in Lanes : UNCHANGED job[l] /\ (Unanswered(l)' => Unanswered(l)),
           \A c \in Connections : Newest(c)' >= Newest(c),
           ReadOrder'
    PROVE  OrderInv'
<1>0. \A j \in Job : Read(j) => Read(j)'
    BY ReadKept
<1>1. QueueOrder' /\ \A j \in Job, l \in Lanes : AheadOf(j, l)' = AheadOf(j, l)
    BY <1>0, QueueKept
<1>2. JobOrder'
    BY <1>0, JobKept DEF JobOrder
<1>3. ASSUME NEW c \in Connections, NEW l \in Lanes, NEW j \in Job, Answer(c, l, j)
      PROVE  Answer(c, l, j)'
    BY <1>0, <1>1, <1>3 DEF Answer
<1>4. WireOrder' /\ LaneOrder'
    BY <1>3, WireKept
<1>. QED  BY <1>1, <1>2, <1>4 DEF OrderInv

\* The same of a step that only moves a thread, and lets none go back.
LEMMA OrderRun ==
    ASSUME Types, Places, OrderInv, Types', NEW t \in Threads, Moves(t),
           UNCHANGED <<queue, wire, sent>>,
           t \in Connections =>
              (pc'[t] \in {"reserve", "enqueue"} => pc[t] \in {"reserve", "enqueue"}),
           t \in Lanes => (pc'[t] \in {"execute"} \cup Writing => Unanswered(t))
    PROVE  OrderInv'
<1>0. Connections \subseteq Threads /\ Lanes \subseteq Threads
    BY DEF Threads
<1>1. job' = job /\ \A u \in Threads \ {t} : pc'[u] = pc[u]
    BY MoveTypes DEF Types
<1>2. ASSUME NEW c \in Connections PROVE Newest(c)' >= Newest(c)
    <2>1. sent[c] \in Nat
        BY Numbers
    <2>2. pc'[c] \in {"reserve", "enqueue"} => pc[c] \in {"reserve", "enqueue"}
        BY <1>0, <1>1
    <2>. QED  BY <2>1, <2>2 DEF Newest
<1>3. ReadOrder'
    BY <1>0, <1>1 DEF OrderInv, ReadOrder
<1>4. \A l \in Lanes : UNCHANGED job[l] /\ (Unanswered(l)' => Unanswered(l))
    BY <1>0, <1>1 DEF Unanswered
<1>. QED  BY <1>2, <1>3, <1>4, OrderMove

LEMMA OrderInit == Init => OrderInv
BY ThreadsAssumption
   DEF Init, OrderInv, ReadOrder, QueueOrder, JobOrder, WireOrder, LaneOrder, Threads

LEMMA OrderStep == Types /\ Types' /\ Places /\ OrderInv /\ [Next]_vars => OrderInv'
<1>. SUFFICES ASSUME Types, Types', Places, OrderInv, [Next]_vars PROVE OrderInv'
    OBVIOUS
<1>. USE DEF session, thread
<1>0. /\ Connections \subseteq Threads /\ Lanes \subseteq Threads
      /\ Connections \cap Lanes = {} /\ ThreadTypes
    BY ThreadsAssumption DEF Threads, Types
<1>a. \A t \in Threads : pc[t] \in Closing => return[t] \in {"release", "destroy"}
    BY DEF Places, ThreadPlaces
<1>1. ASSUME NEW c \in Connections, ReadRequest(c) PROVE OrderInv'
    <2>1. /\ pc[c] = "read" /\ pc'[c] = "reserve"
          /\ sent' = [sent EXCEPT ![c] = @ + 1] /\ job'[c].id = sent[c] + 1
          /\ \A u \in Threads \ {c} : pc'[u] = pc[u] /\ job'[u] = job[u]
          /\ UNCHANGED <<queue, wire>>
        BY <1>1, <1>0 DEF ReadRequest, ThreadTypes
    <2>2. sent'[c] = sent[c] + 1 /\ sent[c] \in Nat /\ \A d \in Connections \ {c} : sent'[d] = sent[d]
        BY <2>1, Numbers DEF Types
    <2>3. ASSUME NEW d \in Connections PROVE Newest(d)' >= Newest(d)
        <3>1. CASE d = c
            BY <3>1, <2>1, <2>2 DEF Newest
        <3>2. CASE d # c
            BY <3>2, <1>0, <2>1, <2>2, Numbers DEF Newest
        <3>. QED  BY <3>1, <3>2
    <2>4. ReadOrder'
        BY <1>0, <2>1, <2>2 DEF OrderInv, ReadOrder
    <2>5. \A l \in Lanes : UNCHANGED job[l] /\ (Unanswered(l)' => Unanswered(l))
        BY <1>0, <2>1 DEF Unanswered
    <2>. QED  BY <2>1, <2>3, <2>4, <2>5, OrderMove
<1>2. ASSUME NEW c \in Connections, ReadEnd(c) PROVE OrderInv'
    <2>1. pc'[c] = "markClosed" /\ UNCHANGED <<queue, wire, sent>> /\ Moves(c)
        BY <1>2, <1>0, MoveTo, Movers DEF ReadEnd
    <2>. QED  BY <2>1, <1>0, OrderRun
<1>3. ASSUME NEW c \in Connections, ReadError(c) PROVE OrderInv'
    <2>1. pc'[c] = "release" /\ UNCHANGED <<queue, wire, sent>> /\ Moves(c)
        BY <1>3, <1>0, MoveTo, Movers DEF ReadError
    <2>. QED  BY <2>1, <1>0, OrderRun
<1>4. ASSUME NEW c \in Connections, Reserve(c) PROVE OrderInv'
    <2>1. pc[c] = "reserve" /\ UNCHANGED <<queue, wire, sent>> /\ Moves(c)
        BY <1>4, <1>0, Movers DEF Reserve
    <2>. QED  BY <2>1, <1>0, OrderRun
<1>5. ASSUME NEW c \in Connections, Enqueue(c) PROVE OrderInv'
    <2>. DEFINE lane == job[c].lane
    <2>1. /\ pc[c] = "enqueue" /\ pc'[c] \in {"release", "read"} /\ UNCHANGED <<wire, sent, job>>
          /\ queue' = [queue EXCEPT ![lane] = Append(@, job[c])]
          /\ \A u \in Threads \ {c} : pc'[u] = pc[u]
        BY <1>5, <1>0, MoveTo, Movers, MoveTypes DEF Enqueue, NextRead, Goto
    <2>2. /\ job[c] \in Job /\ job[c].conn = c /\ job[c].id = sent[c] /\ sent[c] \in Nat
          /\ lane \in Lanes /\ queue[lane] \in Seq(Job)
        <3>1. job[c] \in Job /\ job[c].conn = c
            BY <2>1, <1>0, InHand DEF Conn
        <3>2. job[c].id = sent[c] /\ sent[c] \in Nat /\ lane \in Lanes
            BY <2>1, <3>1, Numbers DEF OrderInv, ReadOrder
        <3>3. queue[lane] \in Seq(Job)
            BY <3>2 DEF Types
        <3>. QED  BY <3>1, <3>2, <3>3
    <2>3. Newest(c) = sent[c] - 1 /\ Newest(c)' = sent[c]
        BY <2>1 DEF Newest
    <2>4. \A d \in Connections : Newest(d)' >= Newest(d) /\ Newest(d)' \in Int
        <3>1. \A d \in Connections \ {c} : Newest(d)' = Newest(d)
            BY <1>0, <2>1 DEF Newest
        <3>. QED  BY <2>2, <2>3, <3>1, Numbers
    <2>5. /\ \A k \in Lanes \ {lane} : queue'[k] = queue[k]
          /\ queue'[lane] = Append(queue[lane], job[c])
        BY <2>1, <2>2 DEF Types
    <2>6. ASSUME NEW l \in Lanes, NEW i \in DOMAIN queue'[l]
          PROVE  /\ i \in Nat
                 /\ \/ i \in DOMAIN queue[l] /\ queue'[l][i] = queue[l][i]
                    \/ l = lane /\ i = Len(queue[lane]) + 1 /\ queue'[l][i] = job[c]
        <3>1. queue[l] \in Seq(Job)
            BY DEF Types
        <3>2. CASE l # lane
            BY <2>5, <3>1, <3>2
        <3>3. CASE l = lane
            BY <2>2, <2>5, <3>3
        <3>. QED  BY <3>2, <3>3
    <2>7. ReadOrder'
        BY <1>0, <2>1 DEF OrderInv, ReadOrder
    <2>8. \A j \in Job : Read(j) => Read(j)'
        BY <2>4, ReadKept
    <2>9. PICK new \in Job : new = job[c]
        BY <2>2
    <2>10. Read(new)' /\ \A j \in Job : Read(j) => Before(j, new)
        <3>1. \A j \in Job : j.conn = c => j.id \in Nat /\ Newest(j.conn) = sent[c] - 1
            BY <2>3, Numbers
        <3>2. Read(new)'
            BY <2>2, <2>3, <2>9 DEF Read
        <3>. QED  BY <2>2, <2>9, <3>1, <3>2 DEF Read, Before
    <2>11. ASSUME NEW l \in Lanes, NEW j \in Job, Read(j), AheadOf(j, l) PROVE AheadOf(j, l)'
        BY <2>6, <2>9, <2>10, <2>11 DEF AheadOf
    <2>12. QueueOrder'
        <3>1. ASSUME NEW l \in Lanes, NEW i \in DOMAIN queue'[l], NEW j \in DOMAIN queue'[l], i < j
              PROVE  Before(queue'[l][i], queue'[l][j])
            <4>1. i \in DOMAIN queue[l] /\ queue'[l][i] = queue[l][i]
                <5>1. i # Len(queue[lane]) + 1 \/ l # lane
                    <6>1. DOMAIN queue[lane] = 1 .. Len(queue[lane]) /\ Len(queue[lane]) \in Nat
                        BY <2>2
                    <6>. QED  BY <2>6, <3>1, <6>1
                <5>. QED  BY <2>6, <5>1
            <4>2. CASE j \in DOMAIN queue[l] /\ queue'[l][j] = queue[l][j]
                BY <3>1, <4>1, <4>2 DEF OrderInv, QueueOrder
            <4>3. CASE queue'[l][j] = new
                BY <2>10, <4>1, <4>3, Numbers DEF OrderInv, QueueOrder
            <4>. QED  BY <2>6, <2>9, <4>2, <4>3
        <3>2. ASSUME NEW l \in Lanes, NEW i \in DOMAIN queue'[l] PROVE (Read(queue[l][i]))'
            <4>1. PICK j \in Job : j = queue'[l][i] /\ (j = new \/ Read(j))
                BY <2>6, <2>9, Numbers DEF OrderInv, QueueOrder
            <4>2. Read(j)'
                BY <2>8, <2>10, <4>1
            <4>. QED  BY <4>1, <4>2
        <3>. QED  BY <3>1, <3>2 DEF QueueOrder, Before
    <2>13. JobOrder'
        <3>1. ASSUME NEW l \in Lanes, job[l] # NoJob PROVE (Read(job[l]) /\ AheadOf(job[l], l))'
            <4>1. PICK j \in Job : j = job[l]
                BY <1>0, <3>1, Numbers
            <4>2. Read(j) /\ AheadOf(j, l)
                BY <3>1, <4>1 DEF OrderInv, JobOrder
            <4>3. Read(j)' /\ AheadOf(j, l)'
                BY <2>8, <2>11, <4>2
            <4>. QED  BY <2>1, <4>1, <4>3
        <3>. QED  BY <2>1, <3>1 DEF JobOrder
    <2>14. ASSUME NEW d \in Connections, NEW l \in Lanes, NEW j \in Job, Answer(d, l, j)
           PROVE  Answer(d, l, j)'
        <3>1. Unanswered(l)' => Unanswered(l)
            BY <1>0, <2>1 DEF Unanswered
        <3>. QED  BY <2>1, <2>8, <2>11, <2>14, <3>1 DEF Answer
    <2>15. WireOrder' /\ LaneOrder'
        BY <2>1, <2>14, WireKept
    <2>. QED  BY <2>7, <2>12, <2>13, <2>15 DEF OrderInv
<1>6. ASSUME NEW l \in Lanes, TakeWork(l) PROVE OrderInv'
    <2>. DEFINE head == Head(queue[l])
    <2>1. /\ queue[l] \in Seq(Job) /\ queue[l] # <<>> /\ pc[l] = "wait" /\ pc'[l] = "execute"
          /\ queue' = [queue EXCEPT ![l] = Tail(@)] /\ job'[l] = head
          /\ \A u \in Threads \ {l} : pc'[u] = pc[u] /\ job'[u] = job[u]
          /\ UNCHANGED <<wire, sent>>
        BY <1>6, <1>0 DEF TakeWork, Types, ThreadTypes
    <2>2. /\ \A k \in Lanes \ {l} : queue'[k] = queue[k]
          /\ queue'[l] = Tail(queue[l])
        BY <2>1 DEF Types
    <2>3. /\ 1 \in DOMAIN queue[l] /\ head = queue[l][1]
          /\ \A i \in DOMAIN Tail(queue[l]) :
                i \in Nat \ {0} /\ i + 1 \in DOMAIN queue[l] /\ Tail(queue[l])[i] = queue[l][i + 1]
        BY <2>1
    <2>4. PICK next \in Job : next = head
        BY <2>3, Numbers
    <2>. HIDE DEF head
    <2>5. /\ \A c \in Connections : Newest(c)' = Newest(c)
          /\ \A j \in Job : Read(j)' = Read(j)
        <3>1. \A c \in Connections : Newest(c)' = Newest(c)
            BY <1>0, <2>1 DEF Newest
        <3>. QED  BY <3>1, Numbers DEF Read
    <2>6. ReadOrder'
        BY <1>0, <2>1 DEF OrderInv, ReadOrder
    <2>7. Read(next) /\ AheadOf(next, l)'
        BY <2>2, <2>3, <2>4 DEF OrderInv, QueueOrder, AheadOf
    <2>8. \A m \in Lanes, j \in Job : AheadOf(j, m) =>
             AheadOf(j, m)' /\ (m = l => Before(j, next))
        <3>1. ASSUME NEW j \in Job, AheadOf(j, l) PROVE AheadOf(j, l)' /\ Before(j, next)
            BY <2>2, <2>3, <2>4, <3>1 DEF AheadOf
        <3>2. ASSUME NEW m \in Lanes, m # l, NEW j \in Job, AheadOf(j, m) PROVE AheadOf(j, m)'
            BY <2>2, <3>2 DEF AheadOf
        <3>. QED  BY <3>1, <3>2
    <2>9. QueueOrder'
        <3>1. ASSUME NEW i \in DOMAIN queue'[l], NEW j \in DOMAIN queue'[l], i < j
              PROVE  Before(queue'[l][i], queue'[l][j])
            <4>1. /\ i + 1 \in DOMAIN queue[l] /\ j + 1 \in DOMAIN queue[l] /\ i + 1 < j + 1
                  /\ queue'[l][i] = queue[l][i + 1] /\ queue'[l][j] = queue[l][j + 1]
                BY <2>2, <2>3, <3>1
            <4>. QED  BY <4>1 DEF OrderInv, QueueOrder
        <3>2. \A m \in Lanes \ {l} : \A i, j \in DOMAIN queue'[m] :
                 i < j => Before(queue'[m][i], queue'[m][j])
            BY <2>2 DEF OrderInv, QueueOrder
        <3>3. ASSUME NEW m \in Lanes, NEW i \in DOMAIN queue'[m] PROVE (Read(queue[m][i]))'
            <4>1. PICK n \in DOMAIN queue[m] : queue'[m][i] = queue[m][n]
                <5>1. CASE m = l
                    BY <2>2, <2>3, <5>1
                <5>2. CASE m # l
                    BY <2>2, <5>2
                <5>. QED  BY <5>1, <5>2
            <4>2. PICK j \in Job : j = queue[m][n]
                BY Numbers
            <4>3. Read(j)'
                BY <2>5, <4>2 DEF OrderInv, QueueOrder
            <4>. QED  BY <4>1, <4>2, <4>3
        <3>. QED  BY <3>1, <3>2, <3>3 DEF QueueOrder, Before
    <2>10. JobOrder'
        <3>1. ASSUME NEW m \in Lanes, job'[m] # NoJob PROVE (Read(job[m]) /\ AheadOf(job[m], m))'
            <4>1. CASE m = l
                <5>1. Read(next)' /\ AheadOf(next, l)'
                    BY <2>5, <2>7
                <5>. QED  BY <2>1, <2>4, <4>1, <5>1
            <4>2. CASE m # l
                <5>1. UNCHANGED <<job[m], queue[m]>> /\ job[m] # NoJob
                    BY <1>0, <2>1, <2>2, <3>1, <4>2
                <5>. QED  BY <2>5, <5>1, JobKept
            <4>. QED  BY <4>1, <4>2
        <3>. QED  BY <3>1 DEF JobOrder
    <2>11. ASSUME NEW d \in Connections, NEW m \in Lanes, NEW j \in Job, Answer(d, m, j)
           PROVE  Answer(d, m, j)'
        <3>1. j.lane = m /\ j.conn = d /\ Read(j)' /\ AheadOf(j, m)'
            BY <2>5, <2>8, <2>11 DEF Answer
        <3>2. CASE m = l
            <4>1. next.conn = d => j.id < next.id
                BY <2>8, <2>11, <3>1, <3>2 DEF Answer, Before
            <4>2. job'[m] = next /\ next.id \in Nat /\ j.id \in Nat
                BY <2>1, <2>4, <3>2, Numbers
            <4>. QED  BY <3>1, <4>1, <4>2 DEF Answer
        <3>3. CASE m # l
            <4>1. job'[m] = job[m] /\ Unanswered(m)' = Unanswered(m)
                BY <1>0, <2>1, <3>3 DEF Unanswered
            <4>. QED  BY <2>11, <3>1, <4>1 DEF Answer
        <3>. QED  BY <3>2, <3>3
    <2>12. WireOrder' /\ LaneOrder'
        BY <2>1, <2>11, WireKept
    <2>. QED  BY <2>6, <2>9, <2>10, <2>12 DEF OrderInv
<1>7. ASSUME NEW l \in Lanes, ExecuteRequest(l) PROVE OrderInv'
    <2>1. pc[l] = "execute" /\ UNCHANGED <<queue, wire, sent>> /\ Moves(l)
        BY <1>7, <1>0, Movers DEF ExecuteRequest
    <2>. QED  BY <2>1, <1>0, OrderRun DEF Unanswered
<1>8. ASSUME NEW l \in Lanes, Finish(l) PROVE OrderInv'
    <2>1. /\ job'[l] = NoJob /\ UNCHANGED <<wire, sent, queue>>
          /\ \A u \in Threads \ {l} : pc'[u] = pc[u] /\ job'[u] = job[u]
        BY <1>8, <1>0 DEF Finish, ThreadTypes
    <2>2. \A c \in Connections : Newest(c)' = Newest(c)
        BY <1>0, <2>1 DEF Newest
    <2>3. ReadOrder'
        BY <1>0, <2>1 DEF OrderInv, ReadOrder
    <2>4. \A j \in Job : Read(j) => Read(j)'
        BY <2>2, Numbers, ReadKept
    <2>5. QueueOrder' /\ \A j \in Job, m \in Lanes : AheadOf(j, m)' = AheadOf(j, m)
        BY <2>1, <2>4, QueueKept
    <2>6. \A m \in Lanes : job'[m] # NoJob =>
             UNCHANGED <<job[m], queue[m]>> /\ job[m] # NoJob /\ Unanswered(m)' = Unanswered(m)
        BY <1>0, <2>1 DEF Unanswered
    <2>7. JobOrder'
        BY <2>4, <2>6, JobKept DEF JobOrder
    <2>8. ASSUME NEW d \in Connections, NEW m \in Lanes, NEW j \in Job, Answer(d, m, j)
          PROVE  Answer(d, m, j)'
        BY <2>4, <2>5, <2>6, <2>8 DEF Answer
    <2>9. WireOrder' /\ LaneOrder'
        BY <2>1, <2>8, WireKept
    <2>. QED  BY <2>3, <2>5, <2>7, <2>9 DEF OrderInv
<1>9. ASSUME NEW t \in Threads, LockWrite(t) PROVE OrderInv'
    <2>1. pc[t] = "write" /\ pc'[t] = "checkClosed" /\ UNCHANGED <<queue, wire, sent>> /\ Moves(t)
        BY <1>9, <1>0, MoveTo, Movers DEF LockWrite
    <2>. QED  BY <2>1, OrderRun DEF Unanswered, Writing
<1>10. ASSUME NEW t \in Threads, CheckClosed(t) PROVE OrderInv'
    <2>1. /\ pc[t] = "checkClosed" /\ pc'[t] \in {"send", "markClosed"}
          /\ UNCHANGED <<queue, wire, sent>> /\ Moves(t)
        BY <1>10, <1>0, MoveTo, Movers DEF CheckClosed
    <2>. QED  BY <2>1, OrderRun DEF Unanswered, Writing
<1>11. ASSUME NEW t \in Threads, Send(t) PROVE OrderInv'
    <2>. DEFINE frame == [job |-> job[t], by |-> t]
                c == Conn(t)
    <2>1. /\ pc[t] = "send" /\ pc'[t] \in {"release", "read", "markClosed"}
          /\ UNCHANGED <<queue, sent, job>> /\ Moves(t)
          /\ \A u \in Threads \ {t} : pc'[u] = pc[u]
          /\ UNCHANGED wire \/ wire' = [wire EXCEPT ![c] = Append(@, frame)]
        BY <1>11, <1>0, MoveTo, Movers, MoveTypes DEF Send, Written, NextRead, Goto, CallMarkClosed
    <2>2. CASE UNCHANGED wire
        BY <2>1, <2>2, OrderRun DEF Writing
    <2>3. CASE wire' = [wire EXCEPT ![c] = Append(@, frame)]
        <3>1. c \in Connections /\ job[t] \in Job /\ job[t].conn = c
            BY <2>1, InHand DEF Writing
        <3>2. /\ \A d \in Connections \ {c} : wire'[d] = wire[d]
              /\ wire'[c] = Append(wire[c], frame)
            BY <2>3, <3>1 DEF Types
        <3>3. ASSUME NEW d \in Connections, NEW i \in DOMAIN wire'[d]
              PROVE  \/ i \in DOMAIN wire[d] /\ wire'[d][i] = wire[d][i]
                     \/ d = c /\ i = Len(wire[c]) + 1 /\ wire'[d][i] = frame
            <4>. HIDE DEF frame, c
            <4>. DEFINE Frames == [job : Job, by : Threads]
            <4>1. wire[d] \in Seq(Frames) /\ wire[c] \in Seq(Frames)
                BY <3>1 DEF Types
            <4>. HIDE DEF Frames
            <4>2. CASE d # c
                BY <3>2, <4>2
            <4>3. CASE d = c
                BY <3>2, <4>1, <4>3
            <4>. QED  BY <4>2, <4>3
        <3>4. \A d \in Connections : Newest(d)' = Newest(d)
            BY <1>0, <2>1 DEF Newest
        <3>5. ReadOrder'
            BY <1>0, <2>1 DEF OrderInv, ReadOrder
        <3>6. \A j \in Job : Read(j) => Read(j)'
            BY <3>4, Numbers, ReadKept
        <3>7. QueueOrder' /\ \A j \in Job, m \in Lanes : AheadOf(j, m)' = AheadOf(j, m)
            BY <2>1, <3>6, QueueKept
        <3>8. JobOrder'
            BY <1>0, <2>1, <3>6, JobKept DEF JobOrder
        <3>9. PICK sentJob \in Job : sentJob = job[t]
            BY <3>1
        <3>10. ASSUME t \in Lanes
               PROVE  /\ Unanswered(t) /\ ~ Unanswered(t)' /\ job[t] # NoJob
                      /\ sentJob.lane = t /\ sentJob.conn = c /\ Read(sentJob) /\ AheadOf(sentJob, t)
            <4>1. Unanswered(t) /\ ~ Unanswered(t)' /\ job[t] # NoJob /\ sentJob.lane = t
                BY <1>0, <2>1, <3>1, <3>9, <3>10, NoJobAssumption
                   DEF Unanswered, Writing, Places, ThreadPlaces
            <4>. QED  BY <3>1, <3>9, <3>10, <4>1 DEF OrderInv, JobOrder
        <3>11. ASSUME NEW d \in Connections, NEW m \in Lanes, NEW j \in Job, Answer(d, m, j)
               PROVE  Answer(d, m, j)'
            <4>1. Unanswered(m)' => Unanswered(m)
                BY <1>0, <2>1 DEF Unanswered, Writing
            <4>. QED  BY <2>1, <3>6, <3>7, <3>11, <4>1 DEF Answer
        <3>a. PICK home \in Connections : home = c
            BY <3>1
        <3>12. ASSUME t \in Lanes PROVE Answer(home, t, sentJob)'
            <4>1. sentJob.id \in Nat /\ job'[t] = sentJob
                BY <2>1, <3>9, Numbers
            <4>2. Read(sentJob)' /\ AheadOf(sentJob, t)'
                BY <3>6, <3>7, <3>10, <3>12
            <4>. QED  BY <3>a, <3>10, <3>12, <4>1, <4>2 DEF Answer
        <3>13. WireOrder'
            <4>1. ASSUME NEW d \in Connections, NEW i \in DOMAIN wire'[d], wire'[d][i].by \in Lanes
                  PROVE  (Answer(d, wire[d][i].by, wire[d][i].job))'
                <5>1. CASE i \in DOMAIN wire[d] /\ wire'[d][i] = wire[d][i]
                    <6>1. PICK m \in Lanes, j \in Job : m = wire[d][i].by /\ j = wire[d][i].job
                        BY <4>1, <5>1, Numbers
                    <6>2. Answer(d, m, j)'
                        BY <3>11, <5>1, <6>1 DEF OrderInv, WireOrder
                    <6>. QED  BY <5>1, <6>1, <6>2
                <5>2. CASE d = c /\ wire'[d][i] = frame
                    <6>1. t \in Lanes /\ wire'[d][i].by = t /\ wire'[d][i].job = sentJob
                        BY <3>9, <4>1, <5>2
                    <6>. QED  BY <3>12, <3>a, <5>2, <6>1
                <5>. QED  BY <3>3, <5>1, <5>2
            <4>. QED  BY <4>1 DEF WireOrder
        <3>14. LaneOrder'
            <4>. SUFFICES ASSUME NEW d \in Connections, NEW i \in DOMAIN wire'[d], NEW j \in DOMAIN wire'[d],
                                 i < j, wire'[d][i].by \in Lanes, wire'[d][j].by \in Lanes,
                                 wire'[d][i].job.lane = wire'[d][j].job.lane
                 PROVE  wire'[d][i].job.id < wire'[d][j].job.id
                BY DEF LaneOrder
            <4>1. i \in DOMAIN wire[d] /\ wire'[d][i] = wire[d][i]
                <5>. DEFINE Frames == [job : Job, by : Threads]
                <5>1. wire[d] \in Seq(Frames) /\ wire[c] \in Seq(Frames) /\ wire'[d] \in Seq(Frames)
                    BY <3>1 DEF Types
                <5>. HIDE DEF Frames, frame, c
                <5>2. j \in DOMAIN wire[d] \/ j = Len(wire[c]) + 1
                    BY <3>3
                <5>3. i # Len(wire[c]) + 1 \/ d # c
                    BY <3>3, <5>1, <5>2
                <5>. QED  BY <3>3, <5>3
            <4>2. CASE j \in DOMAIN wire[d] /\ wire'[d][j] = wire[d][j]
                BY <4>1, <4>2 DEF OrderInv, LaneOrder
            <4>3. CASE d = c /\ wire'[d][j] = frame
                <5>1. t \in Lanes /\ wire'[d][j].by = t /\ wire'[d][j].job = job[t]
                    BY <4>3
                <5>2. Answer(d, wire[d][i].by, wire[d][i].job)
                    BY <4>1 DEF OrderInv, WireOrder
                <5>3. wire[d][i].by = t /\ job[t] # NoJob /\ job[t].conn = d /\ Unanswered(t)
                    BY <3>1, <3>9, <3>10, <4>1, <4>3, <5>1, <5>2 DEF Answer
                <5>. QED  BY <4>1, <5>1, <5>2, <5>3 DEF Answer
            <4>. QED  BY <3>3, <4>2, <4>3
        <3>. QED  BY <3>5, <3>7, <3>8, <3>13, <3>14 DEF OrderInv
    <2>. QED  BY <2>1, <2>2, <2>3
<1>12. ASSUME NEW t \in Threads, MarkClosed(t) PROVE OrderInv'
    <2>1. /\ pc'[t] \in {"closeSocket", "release", "destroy"}
          /\ UNCHANGED <<queue, wire, sent>> /\ Moves(t)
        BY <1>12, <1>0, <1>a, MoveTo, Movers DEF MarkClosed, Closing
    <2>. QED  BY <2>1, OrderRun DEF Writing
<1>13. ASSUME NEW t \in Threads, CloseSocket(t) PROVE OrderInv'
    <2>1. pc'[t] \in {"release", "destroy"} /\ UNCHANGED <<queue, wire, sent>> /\ Moves(t)
        BY <1>13, <1>0, <1>a, MoveTo, Movers DEF CloseSocket, Closing
    <2>. QED  BY <2>1, OrderRun DEF Writing
<1>14. ASSUME NEW t \in Threads, Release(t) PROVE OrderInv'
    <2>1. /\ pc'[t] \in {"markClosed", "exited", "finish"}
          /\ UNCHANGED <<queue, wire, sent>> /\ Moves(t)
        BY <1>14, <1>0, MoveTo, Movers DEF Release, Released
    <2>. QED  BY <2>1, OrderRun DEF Writing
<1>15. ASSUME NEW t \in Threads, Destroy(t) PROVE OrderInv'
    <2>1. /\ pc'[t] \in {"exited", "finish"}
          /\ UNCHANGED <<queue, wire, sent>> /\ Moves(t)
        BY <1>15, <1>0, MoveTo, Movers DEF Destroy, Released
    <2>. QED  BY <2>1, OrderRun DEF Writing
<1>17. ASSUME NEW c \in Connections, ClassifyFails(c) PROVE OrderInv'
    <2>1. pc'[c] = "release" /\ UNCHANGED <<queue, wire, sent>> /\ Moves(c)
        BY <1>17, <1>0, MoveTo, Movers DEF ClassifyFails
    <2>. QED  BY <2>1, <1>0, OrderRun
<1>18. ASSUME NEW c \in Connections, EnqueueFails(c) PROVE OrderInv'
    <2>1. pc'[c] = "release" /\ UNCHANGED <<queue, wire, sent>> /\ Moves(c)
        BY <1>18, <1>0, MoveTo, Movers DEF EnqueueFails
    <2>. QED  BY <2>1, <1>0, OrderRun
<1>16. CASE UNCHANGED vars
    <2>1. /\ \A c \in Connections : Newest(c)' = Newest(c)
          /\ \A l \in Lanes : UNCHANGED job[l] /\ Unanswered(l)' = Unanswered(l)
          /\ UNCHANGED <<queue, wire>> /\ ReadOrder'
        BY <1>16 DEF vars, Newest, Unanswered, OrderInv, ReadOrder
    <2>. QED  BY <2>1, Numbers, OrderMove
<1>. QED
    BY <1>1, <1>2, <1>3, <1>4, <1>5, <1>6, <1>7, <1>8, <1>9, <1>10, <1>11, <1>12, <1>13,
       <1>14, <1>15, <1>16, <1>17, <1>18
       DEF Next, Step, Client, Write, Close, Serve, Work, AllDone

-----------------------------------------------------------------------------
(* The references and the slots of a session.                              *)

LEMMA InQueue ==
    ASSUME NEW c, NEW j
    PROVE  j \in Queued(c) <=>
              j.conn = c /\ \E l \in Lanes : \E i \in DOMAIN queue[l] : j = queue[l][i]
BY DEF Queued, Range

\* A lane's request is nowhere else.
LEMMA JobIsAlone ==
    ASSUME Types, Places, OrderInv, NEW l \in Lanes, job[l] # NoJob
    PROVE  /\ \A c \in Connections : job[l] \notin Queued(c)
           /\ \A m \in Lanes \ {l} : job[m] # job[l]
<1>1. job[l] \in Job /\ job[l].lane = l
    BY Numbers DEF Threads, Places, ThreadPlaces
<1>2. ASSUME NEW c \in Connections, job[l] \in Queued(c) PROVE FALSE
    <2>1. PICK m \in Lanes : \E n \in DOMAIN queue[m] : job[l] = queue[m][n]
        BY <1>2, InQueue
    <2>2. m = l
        BY <1>1, <2>1 DEF Places
    <2>3. PICK i \in DOMAIN queue[l] : job[l] = queue[l][i]
        BY <2>1, <2>2
    <2>4. Before(job[l], job[l])
        BY <2>3 DEF OrderInv, JobOrder, AheadOf
    <2>. QED  BY <1>1, <2>4, Numbers DEF Before
<1>3. ASSUME NEW m \in Lanes \ {l}, job[m] = job[l] PROVE FALSE
    BY <1>1, <1>3 DEF Places, ThreadPlaces
<1>. QED  BY <1>2, <1>3

\* The request a connection thread is about to hand over is in no lane yet.
LEMMA JobIsNew ==
    ASSUME Types, Places, OrderInv, NEW c \in Connections, pc[c] \in {"reserve", "enqueue"}
    PROVE  /\ job[c] \in Job /\ job[c].conn = c /\ job[c] \notin Queued(c)
           /\ \A l \in Lanes : job[l] # job[c]
<1>1. job[c] \in Job /\ job[c].conn = c
    BY InHand DEF Threads, Conn
<1>2. job[c].id = sent[c] /\ Newest(c) = sent[c] - 1 /\ sent[c] \in Nat
    BY Numbers DEF Newest, OrderInv, ReadOrder
<1>3. ~ Read(job[c])
    BY <1>1, <1>2 DEF Read
<1>4. job[c] \notin Queued(c)
    BY <1>3, InQueue DEF OrderInv, QueueOrder
<1>5. ASSUME NEW l \in Lanes, job[l] = job[c] PROVE FALSE
    <2>1. job[l] # NoJob
        BY <1>1, <1>5, NoJobAssumption
    <2>. QED  BY <1>3, <1>5, <2>1 DEF OrderInv, JobOrder
<1>. QED  BY <1>1, <1>4, <1>5

\* What is waiting after an append and after a take.
LEMMA QueuedAppend ==
    ASSUME Types, NEW c \in Connections, Enqueue(c), job[c] \in Job, job[c].conn = c
    PROVE  /\ Queued(c)' = Queued(c) \cup {job[c]}
           /\ \A d \in Connections \ {c} : Queued(d)' = Queued(d)
<1>. DEFINE lane == job[c].lane
<1>1. lane \in Lanes /\ queue[lane] \in Seq(Job)
    BY Numbers DEF Types
<1>2. /\ \A k \in Lanes \ {lane} : queue'[k] = queue[k]
      /\ queue'[lane] = Append(queue[lane], job[c])
    BY <1>1 DEF Enqueue, Types
<1>3. Range(queue'[lane]) = Range(queue[lane]) \cup {job[c]}
    <2>1. DOMAIN queue'[lane] = DOMAIN queue[lane] \cup {Len(queue[lane]) + 1}
        BY <1>1, <1>2
    <2>2. /\ \A i \in DOMAIN queue[lane] : queue'[lane][i] = queue[lane][i]
          /\ queue'[lane][Len(queue[lane]) + 1] = job[c]
        BY <1>1, <1>2
    <2>. HIDE DEF lane
    <2>. QED  BY <2>1, <2>2 DEF Range
<1>4. \A j : (\E l \in Lanes : j \in Range(queue'[l]))
             <=> (\E l \in Lanes : j \in Range(queue[l])) \/ j = job[c]
    BY <1>1, <1>2, <1>3
<1>5. \A d \in Connections : \A j : j \in Queued(d)' <=> j \in Queued(d) \/ (j = job[c] /\ d = c)
    BY <1>4 DEF Queued
<1>. QED  BY <1>5

LEMMA QueuedTake ==
    ASSUME Types, NEW l \in Lanes, TakeWork(l)
    PROVE  \A c \in Connections :
              Queued(c) = Queued(c)' \cup (IF job'[l].conn = c THEN {job'[l]} ELSE {})
<1>1. /\ queue[l] \in Seq(Job) /\ queue[l] # <<>> /\ l \in Threads
      /\ queue'[l] = Tail(queue[l]) /\ job'[l] = Head(queue[l])
      /\ \A k \in Lanes \ {l} : queue'[k] = queue[k]
    BY DEF TakeWork, Types, ThreadTypes, Threads
<1>2. Range(queue[l]) = Range(queue'[l]) \cup {job'[l]}
    <2>1. /\ 1 \in DOMAIN queue[l] /\ job'[l] = queue[l][1]
          /\ \A i \in DOMAIN queue'[l] : i + 1 \in DOMAIN queue[l] /\ queue'[l][i] = queue[l][i + 1]
        BY <1>1
    <2>2. \A i \in DOMAIN queue[l] : i = 1 \/ (i - 1 \in DOMAIN queue'[l] /\ queue'[l][i - 1] = queue[l][i])
        BY <1>1
    <2>. QED  BY <2>1, <2>2 DEF Range
<1>3. \A j : (\E k \in Lanes : j \in Range(queue[k]))
             <=> (\E k \in Lanes : j \in Range(queue'[k])) \/ j = job'[l]
    BY <1>1, <1>2
<1>4. \A c \in Connections : \A j :
         j \in Queued(c) <=> j \in Queued(c)' \/ (j = job'[l] /\ job'[l].conn = c)
    BY <1>3 DEF Queued
<1>. QED  BY <1>4

\* A step that neither takes nor gives back a reference.
LEMMA HeldMove ==
    ASSUME Types, Places, HeldInv, NEW t \in Threads, Alone(t),
           t \in Lanes => job'[t] = job[t],
           UNCHANGED <<queue, refCount, freed>>,
           Holding(t)' = Holding(t), Ending(t)' => Ending(t)
    PROVE  HeldInv'
<1>0. Connections \subseteq Threads /\ Lanes \subseteq Threads
    BY DEF Threads
<1>1. /\ \A l \in Lanes : job'[l] = job[l]
      /\ \A u \in Threads : Conn(u)' = Conn(u)
      /\ \A u \in Threads : Holding(u)' = Holding(u) /\ (Ending(u)' => Ending(u))
    BY <1>0 DEF Alone, Conn, Holding, Ending, Threads
<1>2. \A c \in Connections : Held(c)' = Held(c)
    BY <1>0, <1>1 DEF Held, Queued, Serving
<1>3. RefInv'
    BY <1>0, <1>1, <1>2 DEF HeldInv, RefInv
<1>4. EndInv'
    BY <1>1 DEF HeldInv, EndInv
<1>. QED  BY <1>3, <1>4 DEF HeldInv

LEMMA HeldInit == Init => HeldInv
<1>. SUFFICES ASSUME Init PROVE HeldInv
    OBVIOUS
<1>1. \A c \in Connections : Held(c) = {} /\ Holding(c)
    <2>1. \A c \in Connections : Queued(c) = {}
        BY DEF Init, Queued, Range
    <2>2. \A c \in Connections : Serving(c) = {}
        BY DEF Init, Serving, Threads
    <2>3. \A c \in Connections : Holding(c)
        BY DEF Init, Holding, Ending, Threads, Closing
    <2>. QED  BY <2>1, <2>2, <2>3 DEF Held
<1>2. IsFiniteSet({}) /\ Cardinality({}) = 0
    BY FS_EmptySet
<1>3. RefInv
    <2>1. \A c \in Connections : refCount[c] = 1 /\ ~ freed[c]
        BY DEF Init
    <2>. QED  BY <1>1, <1>2, <2>1 DEF RefInv
<1>4. \A t \in Threads : ~ Ending(t)
    BY DEF Init, Ending, Closing
<1>. QED  BY <1>3, <1>4 DEF HeldInv, EndInv

LEMMA HeldStep == Types /\ Places /\ OrderInv /\ HeldInv /\ [Next]_vars => HeldInv'
<1>. SUFFICES ASSUME Types, Places, OrderInv, HeldInv, [Next]_vars PROVE HeldInv'
    OBVIOUS
<1>. USE DEF session, thread
<1>0. /\ Connections \subseteq Threads /\ Lanes \subseteq Threads
      /\ Connections \cap Lanes = {} /\ ThreadTypes
    BY ThreadsAssumption DEF Threads, Types
<1>a. \A t \in Threads : pc[t] \in Closing => return[t] \in {"release", "destroy"}
    BY DEF Places, ThreadPlaces
<1>1. ASSUME NEW c \in Connections, ReadRequest(c) PROVE HeldInv'
    <2>1. /\ pc[c] = "read" /\ pc'[c] = "reserve" /\ Alone(c) /\ c \notin Lanes
          /\ UNCHANGED <<queue, refCount, freed>>
        BY <1>1, <1>0 DEF ReadRequest, ThreadTypes, Alone
    <2>. QED  BY <2>1, <1>0, HeldMove DEF Holding, Ending, Closing
<1>2. ASSUME NEW c \in Connections, ReadEnd(c) PROVE HeldInv'
    <2>1. /\ pc[c] = "read" /\ pc'[c] = "markClosed" /\ return'[c] = "release"
          /\ Alone(c) /\ UNCHANGED <<job, queue, refCount, freed>>
        BY <1>2, <1>0, MoveTo, Movers, MovesAlone DEF ReadEnd, CallMarkClosed
    <2>. QED  BY <2>1, <1>0, HeldMove DEF Holding, Ending, Closing
<1>3. ASSUME NEW c \in Connections, ReadError(c) PROVE HeldInv'
    <2>1. /\ pc[c] = "read" /\ pc'[c] = "release"
          /\ Alone(c) /\ UNCHANGED <<job, queue, refCount, freed>>
        BY <1>3, <1>0, MoveTo, Movers, MovesAlone DEF ReadError, Goto
    <2>. QED  BY <2>1, <1>0, HeldMove DEF Holding, Ending, Closing
<1>4. ASSUME NEW c \in Connections, Reserve(c) PROVE HeldInv'
    <2>1. /\ pc[c] = "reserve" /\ pc'[c] \in {"write", "enqueue"}
          /\ Alone(c) /\ UNCHANGED <<job, queue, refCount, freed>>
        BY <1>4, <1>0, MoveTo, Movers, MovesAlone DEF Reserve, Goto
    <2>. QED  BY <2>1, <1>0, HeldMove DEF Holding, Ending, Closing
<1>5. ASSUME NEW c \in Connections, Enqueue(c) PROVE HeldInv'
    <2>1. /\ pc[c] = "enqueue" /\ pc'[c] \in {"release", "read"} /\ Alone(c)
          /\ UNCHANGED <<job, freed>> /\ refCount' = [refCount EXCEPT ![c] = @ + 1]
        BY <1>5, <1>0, MoveTo, Movers, MovesAlone DEF Enqueue, NextRead, Goto
    <2>2. /\ job[c] \in Job /\ job[c].conn = c /\ job[c] \notin Queued(c)
          /\ \A l \in Lanes : job[l] # job[c]
        BY <2>1, JobIsNew
    <2>3. /\ Queued(c)' = Queued(c) \cup {job[c]}
          /\ \A d \in Connections \ {c} : Queued(d)' = Queued(d)
        BY <1>5, <2>2, QueuedAppend
    <2>4. \A u \in Threads : Holding(u)' = Holding(u) /\ Ending(u)' = Ending(u) /\ Conn(u)' = Conn(u)
        BY <2>1 DEF Alone, Holding, Ending, Closing, Conn
    <2>5. /\ Held(c)' = Held(c) \cup {job[c]} /\ job[c] \notin Held(c)
          /\ \A d \in Connections \ {c} : Held(d)' = Held(d)
        BY <1>0, <2>1, <2>2, <2>3, <2>4 DEF Held, Serving
    <2>6. Holding(c) /\ ~ Ending(c) /\ Conn(c) = c
        BY <2>1 DEF Holding, Ending, Closing, Conn
    <2>7. /\ IsFiniteSet(Held(c)) /\ refCount[c] = Cardinality(Held(c)) + 1
          /\ Cardinality(Held(c)) \in Nat /\ ~ freed[c]
        BY <2>6, FS_CardinalityType DEF HeldInv, RefInv
    <2>8. IsFiniteSet(Held(c)') /\ Cardinality(Held(c)') = Cardinality(Held(c)) + 1
        BY <2>5, <2>7, FS_AddElement
    <2>9. RefInv'
        <3>1. refCount'[c] = Cardinality(Held(c)') + 1
            BY <2>1, <2>7, <2>8 DEF Types
        <3>2. \A d \in Connections \ {c} : refCount'[d] = refCount[d]
            BY <2>1 DEF Types
        <3>. QED  BY <1>0, <2>1, <2>4, <2>5, <2>6, <2>7, <2>8, <3>1, <3>2 DEF HeldInv, RefInv
    <2>10. EndInv'
        <3>1. \A u \in Threads : Ending(u) => Conn(u) # c
            BY <2>7 DEF HeldInv, EndInv
        <3>2. \A u \in Threads : Ending(u) => refCount'[Conn(u)] = refCount[Conn(u)]
            BY <2>1, <3>1 DEF Types
        <3>. QED  BY <2>1, <2>4, <3>2 DEF HeldInv, EndInv
    <2>. QED  BY <2>9, <2>10 DEF HeldInv
<1>6. ASSUME NEW l \in Lanes, TakeWork(l) PROVE HeldInv'
    <2>1. /\ pc[l] = "wait" /\ pc'[l] = "execute" /\ Alone(l) /\ UNCHANGED <<refCount, freed>>
          /\ queue[l] \in Seq(Job) /\ queue[l] # <<>> /\ job'[l] = Head(queue[l])
        BY <1>6, <1>0 DEF TakeWork, ThreadTypes, Alone, Types
    <2>2. job'[l] \in Job /\ job'[l] # NoJob /\ job[l] = NoJob
        BY <2>1, NoJobAssumption DEF Places, ThreadPlaces
    <2>3. /\ Holding(l)' /\ ~ Ending(l)'
          /\ \A u \in Threads \ {l} : /\ Holding(u)' = Holding(u) /\ Ending(u)' = Ending(u)
                                       /\ Conn(u)' = Conn(u) /\ job'[u] = job[u]
        BY <2>1 DEF Alone, Holding, Ending, Closing, Conn
    <2>4. \A c \in Connections : Held(c)' = Held(c)
        <3>1. \A c \in Connections :
                 Queued(c) = Queued(c)' \cup (IF job'[l].conn = c THEN {job'[l]} ELSE {})
            BY <1>6, QueuedTake
        <3>. QED  BY <1>0, <2>2, <2>3, <3>1 DEF Held, Serving
    <2>5. RefInv'
        BY <1>0, <2>1, <2>3, <2>4 DEF HeldInv, RefInv
    <2>6. EndInv'
        BY <2>1, <2>3 DEF HeldInv, EndInv
    <2>. QED  BY <2>5, <2>6 DEF HeldInv
<1>7. ASSUME NEW l \in Lanes, ExecuteRequest(l) PROVE HeldInv'
    <2>1. /\ pc[l] = "execute" /\ pc'[l] \in {"release", "write"}
          /\ Alone(l) /\ UNCHANGED <<job, queue, refCount, freed>>
        BY <1>7, <1>0, MoveTo, Movers, MovesAlone DEF ExecuteRequest, Goto
    <2>. QED  BY <2>1, <1>0, HeldMove DEF Holding, Ending, Closing
<1>8. ASSUME NEW l \in Lanes, Finish(l) PROVE HeldInv'
    <2>1. /\ pc[l] = "finish" /\ pc'[l] = "wait" /\ Alone(l) /\ job'[l] = NoJob
          /\ UNCHANGED <<queue, refCount, freed>>
        BY <1>8, <1>0 DEF Finish, ThreadTypes, Alone
    <2>2. /\ ~ Holding(l) /\ ~ Holding(l)' /\ ~ Ending(l)'
          /\ \A u \in Threads \ {l} : /\ Holding(u)' = Holding(u) /\ Ending(u)' = Ending(u)
                                       /\ Conn(u)' = Conn(u) /\ job'[u] = job[u]
        BY <2>1 DEF Alone, Holding, Ending, Closing, Conn
    <2>3. \A c \in Connections : Held(c)' = Held(c)
        BY <1>0, <2>1, <2>2 DEF Held, Serving, Queued
    <2>4. RefInv'
        BY <1>0, <2>1, <2>2, <2>3 DEF HeldInv, RefInv
    <2>5. EndInv'
        BY <2>1, <2>2 DEF HeldInv, EndInv
    <2>. QED  BY <2>4, <2>5 DEF HeldInv
<1>9. ASSUME NEW t \in Threads, LockWrite(t) PROVE HeldInv'
    <2>1. /\ pc[t] = "write" /\ pc'[t] = "checkClosed"
          /\ Alone(t) /\ UNCHANGED <<job, queue, refCount, freed>>
        BY <1>9, <1>0, MoveTo, Movers, MovesAlone DEF LockWrite, Goto
    <2>. QED  BY <2>1, HeldMove DEF Holding, Ending, Closing
<1>10. ASSUME NEW t \in Threads, CheckClosed(t) PROVE HeldInv'
    <2>1. /\ pc[t] = "checkClosed"
          /\ pc'[t] = "send" \/ (pc'[t] = "markClosed" /\ return'[t] = "release")
          /\ Alone(t) /\ UNCHANGED <<job, queue, refCount, freed>>
        BY <1>10, <1>0, MoveTo, Movers, MovesAlone DEF CheckClosed, Goto, CallMarkClosed
    <2>. QED  BY <2>1, HeldMove DEF Holding, Ending, Closing
<1>11. ASSUME NEW t \in Threads, Send(t) PROVE HeldInv'
    <2>1. /\ pc[t] = "send"
          /\ pc'[t] \in {"release", "read"} \/ (pc'[t] = "markClosed" /\ return'[t] = "release")
          /\ Alone(t) /\ UNCHANGED <<job, queue, refCount, freed>>
        BY <1>11, <1>0, MoveTo, Movers, MovesAlone
           DEF Send, Written, NextRead, Goto, CallMarkClosed
    <2>. QED  BY <2>1, HeldMove DEF Holding, Ending, Closing
<1>12. ASSUME NEW t \in Threads, MarkClosed(t) PROVE HeldInv'
    <2>1. /\ pc[t] = "markClosed" /\ return'[t] = return[t]
          /\ pc'[t] \in {"closeSocket", return[t]} /\ return[t] \in {"release", "destroy"}
          /\ Alone(t) /\ UNCHANGED <<job, queue, refCount, freed>>
        BY <1>12, <1>0, <1>a, MoveTo, Movers, MovesAlone DEF MarkClosed, Closing, Goto
    <2>. QED  BY <2>1, HeldMove DEF Holding, Ending, Closing
<1>13. ASSUME NEW t \in Threads, CloseSocket(t) PROVE HeldInv'
    <2>1. /\ pc[t] = "closeSocket" /\ pc'[t] = return[t] /\ return[t] \in {"release", "destroy"}
          /\ Alone(t) /\ UNCHANGED <<job, queue, refCount, freed>>
        BY <1>13, <1>0, <1>a, MoveTo, Movers, MovesAlone DEF CloseSocket, Closing, Goto
    <2>. QED  BY <2>1, HeldMove DEF Holding, Ending, Closing
<1>14. ASSUME NEW t \in Threads, Release(t) PROVE HeldInv'
    <2>2. PICK c \in Connections : c = Conn(t)
        BY <1>14, InHand DEF Release
    <2>1. /\ pc[t] = "release" /\ Alone(t) /\ UNCHANGED <<job, queue, freed>>
          /\ refCount' = [refCount EXCEPT ![c] = @ - 1]
          /\ \/ refCount[c] = 1 /\ pc'[t] = "markClosed" /\ return'[t] = "destroy"
             \/ pc'[t] \in {"exited", "finish"}
        BY <1>14, <1>0, <2>2, MoveTo, Movers, MovesAlone DEF Release, Released, Goto, CallMarkClosed
    <2>3. /\ Holding(t) /\ ~ Holding(t)' /\ ~ Ending(t)
          /\ \A u \in Threads \ {t} : Holding(u)' = Holding(u) /\ Ending(u)' = Ending(u)
          /\ \A u \in Threads : Conn(u)' = Conn(u)
        BY <2>1 DEF Alone, Holding, Ending, Closing, Conn
    <2>4. /\ refCount'[c] = refCount[c] - 1 /\ refCount[c] \in Int
          /\ \A d \in Connections \ {c} : refCount'[d] = refCount[d]
        BY <2>1, <2>2 DEF Types
    <2>5. \A d \in Connections : IsFiniteSet(Held(d)) /\ Cardinality(Held(d)) \in Nat
        BY FS_CardinalityType DEF HeldInv, RefInv
    <2>6. refCount[c] > 0
        <3>1. CASE t \in Connections
            BY <2>2, <2>3, <2>5, <3>1 DEF HeldInv, RefInv, Conn
        <3>2. CASE t \in Lanes
            <4>1. job[t] \in Held(c)
                BY <1>0, <2>1, <2>2, <2>3, <3>2 DEF Held, Serving, Conn, Places, ThreadPlaces
            <4>2. Cardinality(Held(c)) # 0
                BY <2>2, <2>5, <4>1, FS_EmptySet
            <4>. QED  BY <2>2, <2>5, <4>2 DEF HeldInv, RefInv
        <3>. QED  BY <3>1, <3>2 DEF Threads
    <2>7. RefInv'
        <3>1. CASE t \in Connections
            <4>1. c = t /\ t \notin Lanes
                BY <1>0, <2>2, <3>1 DEF Conn
            <4>2. \A d \in Connections : Held(d)' = Held(d)
                BY <1>0, <2>1, <2>3, <4>1 DEF Held, Serving, Queued
            <4>. QED  BY <1>0, <2>1, <2>3, <2>4, <2>5, <2>6, <4>1, <4>2 DEF HeldInv, RefInv
        <3>2. CASE t \in Lanes
            <4>1. job[t] # NoJob /\ job[t].conn = c /\ t \notin Connections
                BY <1>0, <2>1, <2>2, <3>2 DEF Conn, Places, ThreadPlaces
            <4>2. job[t] \notin Queued(c) /\ \A m \in Lanes \ {t} : job[m] # job[t]
                BY <2>2, <3>2, <4>1, JobIsAlone
            <4>3. job[t] \in Held(c) /\ Held(c)' = Held(c) \ {job[t]}
                BY <1>0, <2>1, <2>3, <3>2, <4>1, <4>2 DEF Held, Serving, Queued
            <4>4. \A d \in Connections \ {c} : Held(d)' = Held(d)
                BY <1>0, <2>1, <2>3, <4>1 DEF Held, Serving, Queued
            <4>5. IsFiniteSet(Held(c)') /\ Cardinality(Held(c)') = Cardinality(Held(c)) - 1
                BY <2>2, <2>5, <4>3, FS_RemoveElement
            <4>6. \A d \in Connections : Holding(d)' = Holding(d)
                BY <1>0, <2>3, <4>1
            <4>7. /\ IsFiniteSet(Held(c)') /\ ~ freed'[c]
                  /\ refCount'[c] = Cardinality(Held(c)') + (IF Holding(c)' THEN 1 ELSE 0)
                BY <2>1, <2>2, <2>4, <2>5, <2>6, <4>5, <4>6 DEF HeldInv, RefInv
            <4>8. ASSUME NEW d \in Connections, d # c
                  PROVE  /\ IsFiniteSet(Held(d)') /\ (freed'[d] => refCount'[d] = 0)
                         /\ refCount'[d] = Cardinality(Held(d)') + (IF Holding(d)' THEN 1 ELSE 0)
                BY <2>1, <2>4, <4>4, <4>6, <4>8 DEF HeldInv, RefInv
            <4>. QED  BY <4>7, <4>8 DEF RefInv
        <3>. QED  BY <3>1, <3>2 DEF Threads
    <2>8. EndInv'
        <3>1. \A u \in Threads : Ending(u) => Conn(u) # c
            BY <2>2, <2>6 DEF HeldInv, EndInv
        <3>2. \A u \in Threads \ {t} : Ending(u)' =>
                 Ending(u) /\ Conn(u) # c /\ refCount'[Conn(u)] = refCount[Conn(u)]
            BY <2>1, <2>3, <3>1 DEF Types
        <3>3. Ending(t)' => refCount'[c] = 0 /\ ~ freed'[c]
            <4>1. Ending(t)' => refCount[c] = 1
                BY <2>1 DEF Ending, Closing
            <4>. QED  BY <2>1, <2>2, <2>4, <4>1 DEF HeldInv, RefInv
        <3>. QED  BY <2>1, <2>2, <2>3, <3>2, <3>3 DEF HeldInv, EndInv
    <2>. QED  BY <2>7, <2>8 DEF HeldInv
<1>15. ASSUME NEW t \in Threads, Destroy(t) PROVE HeldInv'
    <2>. DEFINE c == Conn(t)
    <2>1. /\ pc[t] = "destroy" /\ pc'[t] \in {"exited", "finish"} /\ Alone(t)
          /\ UNCHANGED <<job, queue, refCount>> /\ freed' = [freed EXCEPT ![c] = TRUE]
        BY <1>15, <1>0, MoveTo, Movers, MovesAlone DEF Destroy, Released, Goto
    <2>2. c \in Connections
        BY <2>1, InHand
    <2>3. /\ Ending(t) /\ ~ Holding(t) /\ ~ Holding(t)' /\ ~ Ending(t)'
          /\ \A u \in Threads \ {t} : Holding(u)' = Holding(u) /\ Ending(u)' = Ending(u)
          /\ \A u \in Threads : Conn(u)' = Conn(u)
        BY <2>1 DEF Alone, Holding, Ending, Closing, Conn
    <2>4. \A d \in Connections : Held(d)' = Held(d)
        BY <1>0, <2>1, <2>3 DEF Held, Serving, Queued
    <2>5. refCount[c] = 0 /\ \A d \in Connections \ {c} : freed'[d] = freed[d]
        BY <2>1, <2>3 DEF HeldInv, EndInv, Types
    <2>6. RefInv'
        BY <1>0, <2>1, <2>3, <2>4, <2>5 DEF HeldInv, RefInv
    <2>7. EndInv'
        <3>1. \A u \in Threads : Ending(u)' => Ending(u) /\ Conn(u) # c
            BY <2>3 DEF HeldInv, EndInv
        <3>2. \A u \in Threads : Ending(u)' => freed'[Conn(u)] = freed[Conn(u)]
            <4>1. \A u \in Threads : Ending(u) => Conn(u) \in Connections
                BY InHand DEF Ending, Closing
            <4>. QED  BY <2>5, <3>1, <4>1
        <3>. QED  BY <2>1, <2>3, <3>1, <3>2 DEF HeldInv, EndInv
    <2>. QED  BY <2>6, <2>7 DEF HeldInv
<1>17. ASSUME NEW c \in Connections, ClassifyFails(c) PROVE HeldInv'
    <2>1. /\ pc[c] = "enqueue" /\ pc'[c] = "release"
          /\ Alone(c) /\ UNCHANGED <<job, queue, refCount, freed>>
        BY <1>17, <1>0, MoveTo, Movers, MovesAlone DEF ClassifyFails, Goto
    <2>. QED  BY <2>1, <1>0, HeldMove DEF Holding, Ending, Closing
<1>18. ASSUME NEW c \in Connections, EnqueueFails(c) PROVE HeldInv'
    <2>1. /\ pc[c] = "enqueue" /\ pc'[c] = "release"
          /\ Alone(c) /\ UNCHANGED <<job, queue, refCount, freed>>
        BY <1>18, <1>0, MoveTo, Movers, MovesAlone DEF EnqueueFails, Goto
    <2>. QED  BY <2>1, <1>0, HeldMove DEF Holding, Ending, Closing
<1>16. CASE UNCHANGED vars
    <2>1. UNCHANGED <<refCount, freed, queue, pc, job, return>>
        BY <1>16 DEF vars
    <2>2. /\ \A t \in Threads : UNCHANGED <<Holding(t), Ending(t), Conn(t)>>
          /\ \A c \in Connections : Held(c)' = Held(c)
        BY <2>1 DEF Held, Queued, Serving, Holding, Ending, Conn
    <2>. QED  BY <1>0, <2>1, <2>2 DEF HeldInv, RefInv, EndInv
<1>. QED
    BY <1>1, <1>2, <1>3, <1>4, <1>5, <1>6, <1>7, <1>8, <1>9, <1>10, <1>11, <1>12, <1>13,
       <1>14, <1>15, <1>16, <1>17, <1>18
       DEF Next, Step, Client, Write, Close, Serve, Work, AllDone

\* A thread that left on an error stays gone.
LEMMA LostStays ==
    ASSUME SlotInv, NEW t \in Threads, Alone(t), UNCHANGED lost,
           t \in Connections /\ pc[t] \in Gone => pc'[t] \in Gone
    PROVE  \A c \in Connections : Leaked(c)' = Leaked(c) /\ (lost'[c] => pc'[c] \in Gone)
<1>1. Connections \subseteq Threads
    BY DEF Threads
<1>. QED  BY <1>1 DEF SlotInv, Alone, Leaked

\* A step that neither takes nor gives back a slot.
LEMMA SlotMove ==
    ASSUME Types, Places, SlotInv, NEW t \in Threads, Alone(t),
           t \in Lanes => job'[t] = job[t],
           t \in Connections => pc'[t] # "enqueue" /\ pc[t] # "enqueue",
           t \in Connections /\ pc[t] \in Gone => pc'[t] \in Gone,
           UNCHANGED <<queue, pending, lost>>,
           \A c \in Connections : freed[c] => freed'[c]
    PROVE  SlotInv'
<1>0. Connections \subseteq Threads /\ Lanes \subseteq Threads
    BY DEF Threads
<1>1. \A c \in Connections : InLanes(c)' = InLanes(c)
    <2>1. \A l \in Lanes : job'[l] = job[l]
        BY <1>0 DEF Alone
    <2>2. \A c \in Connections : Queued(c)' = Queued(c) /\ Serving(c)' = Serving(c)
        BY <2>1 DEF Queued, Serving
    <2>3. \A c \in Connections :
             /\ pc'[c] = "enqueue" <=> pc[c] = "enqueue"
             /\ pc[c] = "enqueue" => job'[c] = job[c]
        BY <1>0 DEF Alone
    <2>4. \A c \in Connections : {job'[l] : l \in Serving(c)} = {job[l] : l \in Serving(c)}
        BY <2>1 DEF Serving
    <2>. QED  BY <2>2, <2>3, <2>4 DEF InLanes
<1>. QED  BY <1>1, LostStays DEF SlotInv

\* A connection thread that lets go of the request it was to hand on.
LeavesLanes(c) ==
    /\ \A d \in Connections \ {c} : InLanes(d)' = InLanes(d)
    /\ ~ freed[c] => /\ IsFiniteSet(InLanes(c)')
                     /\ Cardinality(InLanes(c)) = Cardinality(InLanes(c)') + 1
                     /\ Cardinality(InLanes(c)') \in Nat

LEMMA SlotOut ==
    ASSUME Types, Places, OrderInv, SlotInv, NEW c \in Connections,
           pc[c] = "enqueue", pc'[c] = "release", Alone(c), UNCHANGED <<job, queue>>
    PROVE  LeavesLanes(c)
<1>0. Connections \subseteq Threads /\ Lanes \subseteq Threads
    BY DEF Threads
<1>1. /\ job[c] \in Job /\ job[c].conn = c /\ job[c] \notin Queued(c)
      /\ \A l \in Lanes : job[l] # job[c]
    BY JobIsNew
<1>2. InLanes(c)' = InLanes(c) \ {job[c]} /\ job[c] \in InLanes(c)
    BY <1>0, <1>1 DEF InLanes, Queued, Serving
<1>3. \A d \in Connections \ {c} : InLanes(d)' = InLanes(d)
    BY <1>0 DEF InLanes, Queued, Serving, Alone
<1>4. ASSUME ~ freed[c]
      PROVE  /\ IsFiniteSet(InLanes(c)') /\ Cardinality(InLanes(c)') \in Nat
             /\ Cardinality(InLanes(c)) = Cardinality(InLanes(c)') + 1
    <2>1. IsFiniteSet(InLanes(c)) /\ Cardinality(InLanes(c)) \in Nat
        BY <1>4, FS_CardinalityType DEF SlotInv
    <2>2. IsFiniteSet(InLanes(c)') /\ Cardinality(InLanes(c)') = Cardinality(InLanes(c)) - 1
        BY <1>2, <2>1, FS_RemoveElement
    <2>3. Cardinality(InLanes(c)') \in Nat
        BY <2>2, FS_CardinalityType
    <2>. QED  BY <2>1, <2>2, <2>3
<1>. QED  BY <1>3, <1>4 DEF LeavesLanes

LEMMA SlotInit == Init => SlotInv
<1>. SUFFICES ASSUME Init PROVE SlotInv
    OBVIOUS
<1>1. \A c \in Connections : InLanes(c) = {}
    <2>1. \A c \in Connections : Queued(c) = {}
        BY DEF Init, Queued, Range
    <2>2. \A c \in Connections : Serving(c) = {}
        BY DEF Init, Serving, Threads
    <2>3. \A c \in Connections : pc[c] # "enqueue"
        BY DEF Init, Threads
    <2>. QED  BY <2>1, <2>2, <2>3 DEF InLanes
<1>2. IsFiniteSet({}) /\ Cardinality({}) = 0
    BY FS_EmptySet
<1>3. \A c \in Connections : pending[c] = 0 /\ ~ lost[c]
    BY DEF Init
<1>4. \A c \in Connections : Leaked(c) = 0
    BY <1>3 DEF Leaked
<1>. QED  BY <1>1, <1>2, <1>3, <1>4, CountsAssumption DEF SlotInv

LEMMA SlotStep ==
    Types /\ Places /\ OrderInv /\ HeldInv /\ SlotInv /\ [Next]_vars => SlotInv'
<1>. SUFFICES ASSUME Types, Places, OrderInv, HeldInv, SlotInv, [Next]_vars PROVE SlotInv'
    OBVIOUS
<1>. USE DEF session, thread
<1>0. /\ Connections \subseteq Threads /\ Lanes \subseteq Threads
      /\ Connections \cap Lanes = {} /\ ThreadTypes
    BY ThreadsAssumption DEF Threads, Types
<1>a. \A t \in Threads : pc[t] \in Closing => return[t] \in {"release", "destroy"}
    BY DEF Places, ThreadPlaces
<1>b. \A d \in Connections : Cardinality(InLanes(d)) \in Nat \/ freed[d]
    BY FS_CardinalityType DEF SlotInv
<1>1. ASSUME NEW c \in Connections, ReadRequest(c) PROVE SlotInv'
    <2>1. /\ pc[c] = "read" /\ pc'[c] = "reserve" /\ Alone(c) /\ c \notin Lanes
          /\ UNCHANGED <<queue, pending, lost, freed>>
        BY <1>1, <1>0 DEF ReadRequest, ThreadTypes, Alone
    <2>. QED  BY <2>1, <1>0, SlotMove DEF Gone, Leaving, Closing
<1>2. ASSUME NEW c \in Connections, ReadEnd(c) PROVE SlotInv'
    <2>1. /\ pc[c] = "read" /\ pc'[c] = "markClosed"
          /\ Alone(c) /\ UNCHANGED <<job, queue, pending, lost, freed>>
        BY <1>2, <1>0, MoveTo, Movers, MovesAlone DEF ReadEnd, CallMarkClosed
    <2>. QED  BY <2>1, <1>0, SlotMove DEF Gone, Leaving, Closing
<1>3. ASSUME NEW c \in Connections, ReadError(c) PROVE SlotInv'
    <2>1. /\ pc[c] = "read" /\ pc'[c] = "release"
          /\ Alone(c) /\ UNCHANGED <<job, queue, pending, lost, freed>>
        BY <1>3, <1>0, MoveTo, Movers, MovesAlone DEF ReadError, Goto
    <2>. QED  BY <2>1, <1>0, SlotMove DEF Gone, Leaving, Closing
<1>4. ASSUME NEW c \in Connections, Reserve(c) PROVE SlotInv'
    <2>1. /\ pc[c] = "reserve" /\ Alone(c) /\ UNCHANGED <<job, queue, lost, freed>>
          /\ \/ pc'[c] = "write" /\ UNCHANGED pending
             \/ /\ pc'[c] = "enqueue" /\ pending' = [pending EXCEPT ![c] = @ + 1]
                /\ ~ (pending[c] >= MaxPending)
        BY <1>4, <1>0, MoveTo, Movers, MovesAlone DEF Reserve, Goto
    <2>2. CASE pc'[c] = "write" /\ UNCHANGED pending
        BY <2>1, <2>2, <1>0, SlotMove DEF Gone, Leaving, Closing
    <2>3. CASE /\ pc'[c] = "enqueue" /\ pending' = [pending EXCEPT ![c] = @ + 1]
               /\ ~ (pending[c] >= MaxPending)
        <3>1. /\ job[c] \in Job /\ job[c].conn = c /\ job[c] \notin Queued(c)
              /\ \A l \in Lanes : job[l] # job[c]
            BY <2>1, JobIsNew
        <3>2. InLanes(c)' = InLanes(c) \cup {job[c]} /\ job[c] \notin InLanes(c)
            BY <1>0, <2>1, <2>3, <3>1 DEF InLanes, Queued, Serving
        <3>3. \A d \in Connections \ {c} : InLanes(d)' = InLanes(d)
            BY <1>0, <2>1 DEF InLanes, Queued, Serving, Alone
        <3>4. /\ pending'[c] = pending[c] + 1 /\ pending[c] \in Nat
              /\ \A d \in Connections \ {c} : pending'[d] = pending[d]
            BY <2>3 DEF Types, SlotInv
        <3>5. pending'[c] <= MaxPending
            BY <2>3, <3>4, CountsAssumption
        <3>6. ASSUME ~ freed[c]
              PROVE  IsFiniteSet(InLanes(c)') /\ pending'[c] = Cardinality(InLanes(c)') + Leaked(c)
            <4>1. IsFiniteSet(InLanes(c)) /\ pending[c] = Cardinality(InLanes(c)) + Leaked(c)
                BY <3>6 DEF SlotInv
            <4>2. /\ IsFiniteSet(InLanes(c) \cup {job[c]})
                  /\ Cardinality(InLanes(c) \cup {job[c]}) = Cardinality(InLanes(c)) + 1
                BY <3>2, <4>1, FS_AddElement
            <4>3. Leaked(c) \in {0, 1} /\ Cardinality(InLanes(c)) \in Nat
                BY <4>1, FS_CardinalityType DEF Leaked
            <4>. QED  BY <3>2, <3>4, <4>1, <4>2, <4>3
        <3>7. \A d \in Connections : Leaked(d)' = Leaked(d) /\ (lost'[d] => pc'[d] \in Gone)
            BY <1>0, <2>1, LostStays DEF Gone, Leaving, Closing
        <3>. QED  BY <2>1, <3>3, <3>4, <3>5, <3>6, <3>7 DEF SlotInv
    <2>. QED  BY <2>1, <2>2, <2>3
<1>5. ASSUME NEW c \in Connections, Enqueue(c) PROVE SlotInv'
    <2>1. /\ pc[c] = "enqueue" /\ pc'[c] \in {"release", "read"} /\ Alone(c)
          /\ UNCHANGED <<job, freed, pending, lost>>
        BY <1>5, <1>0, MoveTo, Movers, MovesAlone DEF Enqueue, NextRead, Goto
    <2>2. job[c] \in Job /\ job[c].conn = c
        BY <2>1, JobIsNew
    <2>3. /\ Queued(c)' = Queued(c) \cup {job[c]}
          /\ \A d \in Connections \ {c} : Queued(d)' = Queued(d)
        BY <1>5, <2>2, QueuedAppend
    <2>4. \A d \in Connections : InLanes(d)' = InLanes(d)
        BY <1>0, <2>1, <2>3 DEF InLanes, Serving, Alone
    <2>5. \A d \in Connections : Leaked(d)' = Leaked(d) /\ (lost'[d] => pc'[d] \in Gone)
        BY <1>0, <2>1, LostStays DEF Gone, Leaving, Closing
    <2>. QED  BY <2>1, <2>4, <2>5 DEF SlotInv
<1>6. ASSUME NEW l \in Lanes, TakeWork(l) PROVE SlotInv'
    <2>1. /\ pc[l] = "wait" /\ Alone(l) /\ UNCHANGED <<pending, lost, freed>>
          /\ queue[l] \in Seq(Job) /\ queue[l] # <<>> /\ job'[l] = Head(queue[l])
        BY <1>6, <1>0 DEF TakeWork, ThreadTypes, Alone, Types
    <2>2. job'[l] \in Job /\ job'[l] # NoJob /\ job[l] = NoJob
        BY <2>1, NoJobAssumption DEF Places, ThreadPlaces
    <2>3. \A c \in Connections :
             Queued(c) = Queued(c)' \cup (IF job'[l].conn = c THEN {job'[l]} ELSE {})
        BY <1>6, QueuedTake
    <2>4. \A c \in Connections : InLanes(c)' = InLanes(c)
        BY <1>0, <2>1, <2>2, <2>3 DEF InLanes, Serving, Alone
    <2>5. \A d \in Connections : Leaked(d)' = Leaked(d) /\ (lost'[d] => pc'[d] \in Gone)
        BY <1>0, <2>1, LostStays
    <2>. QED  BY <2>1, <2>4, <2>5 DEF SlotInv
<1>7. ASSUME NEW l \in Lanes, ExecuteRequest(l) PROVE SlotInv'
    <2>1. Alone(l) /\ l \notin Connections /\ UNCHANGED <<job, queue, pending, lost, freed>>
        BY <1>7, <1>0, Movers, MovesAlone DEF ExecuteRequest, Goto
    <2>. QED  BY <2>1, <1>0, SlotMove DEF Gone, Leaving, Closing
<1>8. ASSUME NEW l \in Lanes, Finish(l) PROVE SlotInv'
    <2>1. PICK c \in Connections : c = Conn(l)
        BY <1>8, <1>0, InHand DEF Finish
    <2>2. /\ pc[l] = "finish" /\ Alone(l) /\ job'[l] = NoJob /\ UNCHANGED <<queue, lost, freed>>
          /\ \/ freed[c] /\ UNCHANGED pending
             \/ ~ freed[c] /\ pending' = [pending EXCEPT ![c] = @ - 1]
        BY <1>8, <1>0, <2>1 DEF Finish, ThreadTypes, Alone
    <2>3. job[l] # NoJob /\ job[l].conn = c /\ l \notin Connections
        BY <1>0, <2>1, <2>2 DEF Conn, Places, ThreadPlaces
    <2>4. job[l] \notin Queued(c) /\ \A m \in Lanes \ {l} : job[m] # job[l]
        BY <2>3, JobIsAlone
    <2>5. pc[c] = "enqueue" => job[c] # job[l]
        BY JobIsNew
    <2>6. job[l] \in InLanes(c) /\ InLanes(c)' = InLanes(c) \ {job[l]}
        BY <1>0, <2>2, <2>3, <2>4, <2>5 DEF InLanes, Serving, Queued, Alone
    <2>7. \A d \in Connections \ {c} : InLanes(d)' = InLanes(d)
        BY <1>0, <2>2, <2>3 DEF InLanes, Serving, Queued, Alone
    <2>a. \A d \in Connections : Leaked(d)' = Leaked(d) /\ (lost'[d] => pc'[d] \in Gone)
        BY <1>0, <2>2, <2>3, LostStays
    <2>8. CASE freed[c] /\ UNCHANGED pending
        BY <2>2, <2>7, <2>8, <2>a DEF SlotInv
    <2>9. CASE ~ freed[c] /\ pending' = [pending EXCEPT ![c] = @ - 1]
        <3>1. /\ pending'[c] = pending[c] - 1 /\ pending[c] \in Nat
              /\ \A d \in Connections \ {c} : pending'[d] = pending[d]
            BY <2>9 DEF Types, SlotInv
        <3>2. IsFiniteSet(InLanes(c)) /\ pending[c] = Cardinality(InLanes(c)) + Leaked(c) /\ pending[c] <= MaxPending
            BY <2>9 DEF SlotInv
        <3>3. pending[c] # 0
            <4>1. Cardinality(InLanes(c)) \in Nat \ {0}
                BY <2>6, <3>2, FS_EmptySet, FS_CardinalityType
            <4>. QED  BY <3>2, <4>1 DEF Leaked
        <3>4. IsFiniteSet(InLanes(c)') /\ Cardinality(InLanes(c)') + Leaked(c) = pending[c] - 1
            <4>1. IsFiniteSet(InLanes(c)') /\ Cardinality(InLanes(c)') = Cardinality(InLanes(c)) - 1
                BY <2>6, <3>2, FS_RemoveElement
            <4>2. Leaked(c) \in {0, 1} /\ Cardinality(InLanes(c)) \in Nat
                BY <3>2, FS_CardinalityType DEF Leaked
            <4>. QED  BY <3>2, <4>1, <4>2
        <3>5. pending'[c] \in Nat /\ pending'[c] <= MaxPending
            BY <3>1, <3>2, <3>3, CountsAssumption
        <3>. QED  BY <2>2, <2>7, <2>a, <3>1, <3>4, <3>5 DEF SlotInv
    <2>. QED  BY <2>2, <2>8, <2>9
<1>9. ASSUME NEW t \in Threads, LockWrite(t) PROVE SlotInv'
    <2>1. /\ pc[t] = "write" /\ pc'[t] = "checkClosed"
          /\ Alone(t) /\ UNCHANGED <<job, queue, pending, lost, freed>>
        BY <1>9, <1>0, MoveTo, Movers, MovesAlone DEF LockWrite, Goto
    <2>. QED  BY <2>1, SlotMove DEF Gone, Leaving, Closing
<1>10. ASSUME NEW t \in Threads, CheckClosed(t) PROVE SlotInv'
    <2>1. /\ pc[t] = "checkClosed" /\ pc'[t] \in {"send", "markClosed"}
          /\ Alone(t) /\ UNCHANGED <<job, queue, pending, lost, freed>>
        BY <1>10, <1>0, MoveTo, Movers, MovesAlone DEF CheckClosed, Goto, CallMarkClosed
    <2>. QED  BY <2>1, SlotMove DEF Gone, Leaving, Closing
<1>11. ASSUME NEW t \in Threads, Send(t) PROVE SlotInv'
    <2>1. /\ pc[t] = "send" /\ pc'[t] \in {"release", "read", "markClosed"}
          /\ Alone(t) /\ UNCHANGED <<job, queue, pending, lost, freed>>
        BY <1>11, <1>0, MoveTo, Movers, MovesAlone
           DEF Send, Written, NextRead, Goto, CallMarkClosed
    <2>. QED  BY <2>1, SlotMove DEF Gone, Leaving, Closing
<1>12. ASSUME NEW t \in Threads, MarkClosed(t) PROVE SlotInv'
    <2>1. /\ pc[t] = "markClosed" /\ pc'[t] \in {"closeSocket", "release", "destroy"}
          /\ Alone(t) /\ UNCHANGED <<job, queue, pending, lost, freed>>
        BY <1>12, <1>0, <1>a, MoveTo, Movers, MovesAlone DEF MarkClosed, Closing, Goto
    <2>. QED  BY <2>1, SlotMove DEF Gone, Leaving, Closing
<1>13. ASSUME NEW t \in Threads, CloseSocket(t) PROVE SlotInv'
    <2>1. /\ pc[t] = "closeSocket" /\ pc'[t] \in {"release", "destroy"}
          /\ Alone(t) /\ UNCHANGED <<job, queue, pending, lost, freed>>
        BY <1>13, <1>0, <1>a, MoveTo, Movers, MovesAlone DEF CloseSocket, Closing, Goto
    <2>. QED  BY <2>1, SlotMove DEF Gone, Leaving, Closing
<1>14. ASSUME NEW t \in Threads, Release(t) PROVE SlotInv'
    <2>1. /\ pc[t] = "release" /\ pc'[t] \in {"markClosed", "exited", "finish"}
          /\ t \in Connections => pc'[t] # "finish"
          /\ Alone(t) /\ UNCHANGED <<job, queue, pending, lost, freed>>
        BY <1>14, <1>0, MoveTo, Movers, MovesAlone DEF Release, Released, Goto, CallMarkClosed
    <2>. QED  BY <2>1, SlotMove DEF Gone, Leaving, Closing
<1>15. ASSUME NEW t \in Threads, Destroy(t) PROVE SlotInv'
    <2>1. /\ pc[t] = "destroy" /\ pc'[t] \in {"exited", "finish"}
          /\ t \in Connections => pc'[t] # "finish"
          /\ Alone(t) /\ UNCHANGED <<job, queue, pending, lost>>
          /\ freed' = [freed EXCEPT ![Conn(t)] = TRUE]
        BY <1>15, <1>0, MoveTo, Movers, MovesAlone DEF Destroy, Released, Goto
    <2>2. \A c \in Connections : freed[c] => freed'[c]
        BY <2>1 DEF Types
    <2>. QED  BY <2>1, <2>2, SlotMove DEF Gone, Leaving, Closing
<1>17. ASSUME NEW c \in Connections, ClassifyFails(c) PROVE SlotInv'
    <2>1. /\ pc[c] = "enqueue" /\ pc'[c] = "release"
          /\ Alone(c) /\ UNCHANGED <<job, queue, freed, pending>>
          /\ lost' = [lost EXCEPT ![c] = TRUE]
        BY <1>17, <1>0, MoveTo, Movers, MovesAlone DEF ClassifyFails, Goto
    <2>2. LeavesLanes(c)
        BY <2>1, SlotOut
    <2>3. /\ lost'[c] /\ ~ lost[c] /\ \A d \in Connections \ {c} : lost'[d] = lost[d]
          /\ pc'[c] \in Gone
        BY <2>1 DEF Types, SlotInv, Gone, Leaving, Closing
    <2>. QED  BY <1>0, <2>1, <2>2, <2>3 DEF SlotInv, Leaked, LeavesLanes, Alone
<1>18. ASSUME NEW c \in Connections, EnqueueFails(c) PROVE SlotInv'
    <2>1. /\ pc[c] = "enqueue" /\ pc'[c] = "release"
          /\ Alone(c) /\ UNCHANGED <<job, queue, freed, lost>>
          /\ pending' = [pending EXCEPT ![c] = @ - 1]
        BY <1>18, <1>0, MoveTo, Movers, MovesAlone DEF EnqueueFails, Goto
    <2>2. LeavesLanes(c)
        BY <2>1, SlotOut
    <2>3. /\ ~ lost[c] /\ pending'[c] = pending[c] - 1 /\ pending[c] \in Nat
          /\ \A d \in Connections \ {c} : pending'[d] = pending[d]
        BY <2>1 DEF Types, SlotInv, Gone, Leaving, Closing
    <2>4. ~ freed[c] /\ Cardinality(InLanes(c)') \in Nat
        BY <1>0, <2>1, <2>2, FS_CardinalityType
           DEF HeldInv, RefInv, Holding, Ending, Closing, LeavesLanes
    <2>. QED  BY <1>0, <2>1, <2>2, <2>3, <2>4, CountsAssumption DEF SlotInv, Leaked, LeavesLanes, Alone
<1>16. CASE UNCHANGED vars
    <2>1. \A c \in Connections : InLanes(c)' = InLanes(c)
        BY <1>16 DEF vars, InLanes, Queued, Serving
    <2>2. \A c \in Connections : Leaked(c)' = Leaked(c) /\ lost'[c] = lost[c] /\ pc'[c] = pc[c]
        BY <1>16 DEF vars, Leaked
    <2>. QED  BY <1>16, <2>1, <2>2 DEF vars, SlotInv
<1>. QED
    BY <1>1, <1>2, <1>3, <1>4, <1>5, <1>6, <1>7, <1>8, <1>9, <1>10, <1>11, <1>12, <1>13,
       <1>14, <1>15, <1>16, <1>17, <1>18
       DEF Next, Step, Client, Write, Close, Serve, Work, AllDone

-----------------------------------------------------------------------------
(* The theorems.                                                           *)

LEMMA SessionInvariant == Spec => []SessionInv
<1>1. Init => SessionInv
    BY TypesInit, PlacesInit, WriterInit, OrderInit, HeldInit, SlotInit DEF SessionInv
<1>2. SessionInv /\ [Next]_vars => SessionInv'
    <2>. SUFFICES ASSUME SessionInv, [Next]_vars PROVE SessionInv'
        OBVIOUS
    <2>. USE DEF SessionInv
    <2>1. Types'
        BY TypesStep
    <2>2. Places' /\ WriterInv'
        BY PlacesStep, WriterStep
    <2>3. OrderInv'
        BY <2>1, OrderStep
    <2>4. HeldInv' /\ SlotInv'
        BY HeldStep, SlotStep
    <2>. QED  BY <2>1, <2>2, <2>3, <2>4
<1>. QED  BY <1>1, <1>2, PTL DEF Spec

\* Every count stays a natural number: a reference and a slot are given back as
\* often as they are taken, and the assertion of finishPendingRequest holds for
\* every session that is not freed.
THEOREM TypeCorrect == Spec => []TypeOK
<1>1. SessionInv => TypeOK
    <2>. SUFFICES ASSUME SessionInv PROVE TypeOK
        OBVIOUS
    <2>. USE DEF SessionInv
    <2>1. \A c \in Connections : refCount[c] \in Nat
        BY FS_CardinalityType DEF HeldInv, RefInv
    <2>2. refCount \in [Connections -> Nat] /\ pending \in [Connections -> Nat]
        BY <2>1 DEF Types, SlotInv
    <2>. QED  BY <2>2 DEF Types, ThreadTypes, TypeOK
<1>. QED  BY <1>1, SessionInvariant, PTL

\* release frees a session when its last reference is gone, and then no request of it
\* waits in a lane and no thread is anywhere but at finishPendingRequest.
THEOREM SessionsOutliveTheirUse == Spec => []FreedIsUnused
<1>1. SessionInv => FreedIsUnused
    <2>. SUFFICES ASSUME SessionInv, NEW c \in Connections, freed[c]
         PROVE  pc[c] = "exited" /\ Queued(c) = {} /\ \A l \in Serving(c) : pc[l] = "finish"
        BY DEF FreedIsUnused
    <2>. USE DEF SessionInv
    <2>0. Connections \subseteq Threads /\ Lanes \subseteq Threads /\ Connections \cap Lanes = {}
        BY ThreadsAssumption DEF Threads
    <2>1. IsFiniteSet(Held(c)) /\ Cardinality(Held(c)) = 0 /\ ~ Holding(c)
        BY FS_CardinalityType DEF HeldInv, RefInv
    <2>2. Held(c) = {}
        BY <2>1, FS_EmptySet
    <2>3. Conn(c) = c /\ ~ Ending(c)
        BY <2>0 DEF Conn, HeldInv, EndInv
    <2>4. pc[c] = "exited"
        BY <2>1, <2>3 DEF Holding, Places, ThreadPlaces, Writing, Leaving, Closing
    <2>5. ASSUME NEW l \in Serving(c) PROVE pc[l] = "finish"
        <3>1. l \in Lanes /\ Conn(l) = c /\ pc[l] # "wait"
            BY <2>0 DEF Serving, Conn, Places, ThreadPlaces
        <3>2. ~ Holding(l) /\ ~ Ending(l)
            BY <2>0, <2>2, <3>1 DEF Held, HeldInv, EndInv
        <3>. QED  BY <3>1, <3>2 DEF Holding, Places, ThreadPlaces, Writing, Leaving, Closing
    <2>. QED  BY <2>2, <2>4, <2>5 DEF Held
<1>. QED  BY <1>1, SessionInvariant, PTL

\* While a session lives, pending_requests counts the requests that hold a slot, and one
\* more when the thread left on an error that keeps it; it is never above the limit.
THEOREM SlotsAreCounted == Spec => []PendingCounts
<1>1. SessionInv => PendingCounts
    BY DEF SessionInv, SlotInv, PendingCounts, Gone, Leaving, Closing
<1>. QED  BY <1>1, SessionInvariant, PTL

\* Nobody closes the socket in the middle of a frame, and nobody else writes there.
THEOREM WholeFrames == Spec => []FramesAreWhole
<1>1. SessionInv => FramesAreWhole
    BY DEF SessionInv, WriterInv, FramesAreWhole
<1>. QED  BY <1>1, SessionInvariant, PTL

\* A lane's answers reach a client in the order of its requests, each at most once.
THEOREM LanesKeepOrder == Spec => []LaneOrder
<1>1. SessionInv => LaneOrder
    BY DEF SessionInv, OrderInv
<1>. QED  BY <1>1, SessionInvariant, PTL
=============================================================================

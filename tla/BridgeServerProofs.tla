-------------------------- MODULE BridgeServerProofs --------------------------
(***************************************************************************)
(* Proofs about BridgeServer for any set of streams and connections, any   *)
(* requests and any answers of the daemon, about BridgeStartup for any     *)
(* number of starts, which may die anywhere, and about BridgeFraming for   *)
(* any cap, streams of any length and chunks of any size.                  *)
(*                                                                         *)
(* GateInv strengthens GateInOrder with what makes sequences unique.       *)
(* LaneInv ties the guards tasks hold to the busy lanes; from it follow    *)
(* OneRequestPerLane, and that every step is one of LaneService or none.   *)
(* ServedInv follows a pin from the identity of a bridge to the daemon;    *)
(* OneIdentity says how far the identity on disk has come, unless two      *)
(* starts made one at the same time: until the key is there nobody relies  *)
(* on the files, and from then on nobody writes them.                      *)
(* FramingInv says of each reader of bytes what it has returned and keeps. *)
(***************************************************************************)
EXTENDS BridgeServer, BridgeStartup, BridgeFraming, WellFoundedInduction, TLAPS

-----------------------------------------------------------------------------
(* Types.                                                                  *)

\* The lane a request is classified into is one there is a queue for.
LEMMA LaneKeyType ==
    ASSUME NEW q \in Rpc
    PROVE  LaneKey(q) \in LaneKeys
<1>1. Named(q) \in Nodes \cup Selectors \cup {Nothing}
    BY DEF Named, Rpc
<1>2. TargetKey(q) \in Nodes \cup Selectors \cup {Nothing}
    BY <1>1 DEF TargetKey
<1>3. q.path \in Documents \cup {RootPath}
    BY DEF Rpc
<1>. QED  BY <1>2, <1>3 DEF LaneKey, LaneKeys, RootLane, RootPath

LEMMA TypeInit == Init => TypeOK
BY DEF Init, TypeOK, Commands, Phases

\* What happens to the queue of one lane leaves all queues well typed.
LEMMA LaneUpdateType ==
    ASSUME TypeOK, NEW k, NEW b \in BOOLEAN, NEW n \in Nat
    PROVE  /\ [lanes EXCEPT ![k].busy = b]
                 \in [LaneKeys -> [busy : BOOLEAN, waiting : SUBSET Nat]]
           /\ [lanes EXCEPT ![k].waiting = @ \cup {n}]
                 \in [LaneKeys -> [busy : BOOLEAN, waiting : SUBSET Nat]]
<1>1. CASE k \in LaneKeys
    <2>1. lanes[k] \in [busy : BOOLEAN, waiting : SUBSET Nat]
        BY <1>1 DEF TypeOK
    <2>2. /\ [lanes[k] EXCEPT !.busy = b] \in [busy : BOOLEAN, waiting : SUBSET Nat]
          /\ [lanes[k] EXCEPT !.waiting = @ \cup {n}]
                \in [busy : BOOLEAN, waiting : SUBSET Nat]
        BY <2>1
    <2>. QED  BY <2>2 DEF TypeOK
<1>2. CASE k \notin LaneKeys
    BY <1>2 DEF TypeOK
<1>. QED  BY <1>1, <1>2

LEMMA DropLaneType ==
    ASSUME TypeOK, NEW s \in Streams, DropLane(s)
    PROVE  /\ held' \subseteq Streams
           /\ lanes' \in [LaneKeys -> [busy : BOOLEAN, waiting : SUBSET Nat]]
BY LaneUpdateType DEF DropLane, TypeOK

LEMMA CloseHttpType ==
    ASSUME TypeOK, NEW s \in Streams, CloseHttp(s)
    PROVE  lost' \subseteq Connections
BY StreamsAssumption DEF CloseHttp, TypeOK

LEMMA EndType ==
    ASSUME TypeOK, NEW s \in Streams, End(s)
    PROVE  /\ pc' \in [Streams -> Phases]
           /\ upstream' \in [Streams -> {"none", "open", "closed"}]
           /\ waiting' \in [Streams -> Nat]
           /\ wrote' \in [Streams -> BOOLEAN]
BY DEF End, Goto, TypeOK, Phases

LEMMA TypeStep == TypeOK /\ [Next]_vars => TypeOK'
<1>. SUFFICES ASSUME TypeOK, [Next]_vars PROVE TypeOK'
    OBVIOUS
<1>. USE DEF TypeOK, Phases, task, reply
<1>1. ASSUME NEW c \in Connections, Hangup(c) PROVE TypeOK'
    BY <1>1 DEF Hangup
<1>2. ASSUME NEW c \in Connections, RefuseSession(c) PROVE TypeOK'
    BY <1>2 DEF RefuseSession, Hangup
<1>3. ASSUME NEW s \in Streams, Accept(s) PROVE TypeOK'
    BY <1>3 DEF Accept, Goto
<1>4. ASSUME NEW s \in Streams, RefuseH2Path(s) PROVE TypeOK'
    BY <1>4 DEF RefuseH2Path, End, Goto
<1>5. ASSUME NEW s \in Streams, RefuseHttpPath(s) PROVE TypeOK'
    BY <1>5 DEF RefuseHttpPath, End, Goto
<1>6. ASSUME NEW s \in Streams, AcquireGate(s) PROVE TypeOK'
    BY <1>6 DEF AcquireGate, Goto
<1>7. ASSUME NEW s \in Streams, ReadH2Body(s) PROVE TypeOK'
    BY <1>7 DEF ReadH2Body, DropGate, Goto
<1>8. ASSUME NEW s \in Streams, RefuseH2Body(s) PROVE TypeOK'
    BY <1>8 DEF RefuseH2Body, DropGate, End, Goto
<1>9. ASSUME NEW s \in Streams, ReadRequest(s) PROVE TypeOK'
    BY <1>9 DEF ReadRequest, Goto
<1>10. ASSUME NEW s \in Streams, RefuseRequest(s) PROVE TypeOK'
    BY <1>10, EndType, CloseHttpType DEF RefuseRequest
<1>11. ASSUME NEW s \in Streams, EnterLane(s) PROVE TypeOK'
    BY <1>11, LaneUpdateType DEF EnterLane, Goto
<1>12. ASSUME NEW s \in Streams, AcquireLane(s) PROVE TypeOK'
    BY <1>12 DEF AcquireLane, Goto
<1>13. ASSUME NEW s \in Streams, Submit(s) PROVE TypeOK'
    BY <1>13, DropLaneType DEF Submit, Goto
<1>14. ASSUME NEW s \in Streams, SubmitForNobody(s) PROVE TypeOK'
    BY <1>14, DropLaneType DEF SubmitForNobody, Goto
<1>15. ASSUME NEW s \in Streams, SubmitFails(s) PROVE TypeOK'
    BY <1>15, EndType, DropLaneType, CloseHttpType DEF SubmitFails
<1>16. ASSUME NEW s \in Streams, Relay(s) PROVE TypeOK'
    BY <1>16 DEF Relay
<1>17. ASSUME NEW s \in Streams, RespondHttp(s) PROVE TypeOK'
    BY <1>17 DEF RespondHttp, End, Goto
<1>18. ASSUME NEW s \in Streams, RelayFails(s) PROVE TypeOK'
    BY <1>18, EndType, DropLaneType, CloseHttpType DEF RelayFails
<1>19. ASSUME NEW s \in Streams, Finish(s) PROVE TypeOK'
    BY <1>19, EndType, DropLaneType, CloseHttpType DEF Finish
<1>20. ASSUME NEW s \in Streams, DaemonWrites(s) PROVE TypeOK'
    BY <1>20 DEF DaemonWrites
<1>21. ASSUME NEW s \in Streams, DaemonCloses(s) PROVE TypeOK'
    BY <1>21 DEF DaemonCloses
<1>22. CASE UNCHANGED vars
    BY <1>22 DEF vars
<1>. QED
    BY <1>1, <1>2, <1>3, <1>4, <1>5, <1>6, <1>7, <1>8, <1>9, <1>10, <1>11, <1>12,
       <1>13, <1>14, <1>15, <1>16, <1>17, <1>18, <1>19, <1>20, <1>21, <1>22
       DEF Next, Step

\* The state of a serving bridge stays well typed.
THEOREM TypeCorrect == Spec => []TypeOK
BY TypeInit, TypeStep, PTL DEF Spec

-----------------------------------------------------------------------------
(* The gate.                                                               *)

\* Only h2-server hands out sequences, one to each stream it accepts and none
\* twice, and the gate has not passed the last of them.
GateInv ==
    /\ TypeOK
    /\ GateInOrder
    /\ gate.next <= nextSequence
    /\ \A s \in Streams :
          /\ sequence[s] < nextSequence
          /\ sequence[s] = 0 <=> ~ H2 \/ pc[s] = "idle"
          /\ pc[s] \in {"gate", "lane", "queued"} => H2
          /\ H2 /\ pc[s] = "read" => s \notin misrouted
    /\ \A s, t \in Streams : sequence[s] = sequence[t] /\ sequence[s] # 0 => s = t

LEMMA GateInit == Init => GateInv
BY TypeInit DEF Init, GateInv, GateInOrder

LEMMA GateStep == GateInv /\ [Next]_vars => GateInv'
<1>. SUFFICES ASSUME GateInv, [Next]_vars PROVE GateInv'
    OBVIOUS
<1>1. TypeOK'
    BY TypeStep DEF GateInv
<1>. USE <1>1 DEF GateInv, GateInOrder, TypeOK, task, reply, H2
<1>2. ASSUME NEW c \in Connections, Hangup(c) PROVE GateInv'
    BY <1>2 DEF Hangup
<1>3. ASSUME NEW s \in Streams, Accept(s) PROVE GateInv'
    BY <1>3 DEF Accept, Goto
<1>4. ASSUME NEW s \in Streams, RefuseH2Path(s) \/ RefuseHttpPath(s) PROVE GateInv'
    BY <1>4 DEF RefuseH2Path, RefuseHttpPath, End, Goto, Http
<1>5. ASSUME NEW s \in Streams, AcquireGate(s) PROVE GateInv'
    BY <1>5 DEF AcquireGate, Goto
<1>6. ASSUME NEW s \in Streams, ReadH2Body(s) \/ RefuseH2Body(s) PROVE GateInv'
    <2>1. /\ H2 /\ pc[s] = "read" /\ DropGate
          /\ \E label \in {"lane", "over"} : pc' = [pc EXCEPT ![s] = label]
          /\ UNCHANGED <<command, misrouted, sequence, nextSequence>>
        BY <1>6 DEF ReadH2Body, RefuseH2Body, End, Goto
    <2>2. gate.next = sequence[s] /\ sequence[s] # 0
        BY <2>1
    <2>3. gate'.next = gate.next + 1 /\ gate'.next <= nextSequence
        BY <2>1, <2>2 DEF DropGate
    <2>4. GateInOrder'
        <3>1. ASSUME NEW t \in Streams, t # s, sequence[t] > 0, t \notin misrouted
              PROVE  /\ pc[t] = "gate" => gate'.next <= sequence[t]
                     /\ pc[t] # "read"
                     /\ pc[t] # "gate" => sequence[t] < gate'.next
            <4>1. /\ sequence[t] \in Nat /\ sequence[s] \in Nat
                  /\ sequence[t] # sequence[s]
                BY <2>2, <3>1
            <4>2. /\ pc[t] = "gate" => gate.next <= sequence[t]
                  /\ pc[t] = "read" => gate.next = sequence[t]
                  /\ pc[t] \notin {"gate", "read"} => sequence[t] < gate.next
                BY <3>1
            <4>. QED  BY ONLY <4>1, <4>2, <2>2, <2>3
        <3>2. sequence[s] < gate'.next
            BY <2>2, <2>3
        <3>. QED  BY <2>1, <3>1, <3>2
    <2>. QED  BY <2>1, <2>3, <2>4
<1>7. ASSUME NEW s \in Streams, ReadRequest(s) \/ RefuseRequest(s) PROVE GateInv'
    BY <1>7 DEF ReadRequest, RefuseRequest, End, Goto
<1>8. ASSUME NEW s \in Streams, EnterLane(s) \/ AcquireLane(s) PROVE GateInv'
    BY <1>8 DEF EnterLane, AcquireLane, Goto
<1>9. ASSUME NEW s \in Streams, Submit(s) \/ SubmitForNobody(s) \/ SubmitFails(s)
       PROVE  GateInv'
    BY <1>9 DEF Submit, SubmitForNobody, SubmitFails, End, Goto
<1>10. ASSUME NEW s \in Streams, Relay(s) \/ RespondHttp(s) \/ RelayFails(s) \/ Finish(s)
       PROVE  GateInv'
    BY <1>10 DEF Relay, RespondHttp, RelayFails, Finish, End, Goto
<1>11. ASSUME NEW s \in Streams, DaemonWrites(s) \/ DaemonCloses(s) PROVE GateInv'
    BY <1>11 DEF DaemonWrites, DaemonCloses
<1>12. CASE UNCHANGED vars
    BY <1>12 DEF vars
<1>. QED
    BY <1>2, <1>3, <1>4, <1>5, <1>6, <1>7, <1>8, <1>9, <1>10, <1>11, <1>12
       DEF Next, Step, RefuseSession

\* h2-server reads request bodies in the order of acceptance, one at a time.
THEOREM BodiesAreReadInOrder == Spec => []GateInOrder
<1>1. Spec => []GateInv
    BY GateInit, GateStep, PTL DEF Spec
<1>. QED
    BY <1>1, PTL DEF GateInv

-----------------------------------------------------------------------------
(* The lanes.                                                              *)

\* A guard is held by the h2 task that was handed a lane, the lane is busy, and
\* no other task holds one of it; a request is given up by its task only.
LaneInv ==
    /\ TypeOK
    /\ \A s \in Streams :
          /\ pc[s] \in {"idle", "gate", "read"} => rpc[s] = NoRpc
          /\ pc[s] \in {"lane", "queued", "submit", "relay"} => rpc[s] \in Requests
          /\ pc[s] \in {"gate", "lane", "queued"} => H2
          /\ H2 /\ pc[s] = "submit" => s \in held
          /\ H2 /\ pc[s] = "relay" /\ ~ IsStreamOpen(rpc[s]) => s \in held
    /\ \A s \in held :
          H2 /\ pc[s] \in {"submit", "relay"} /\ lanes[Key(s)].busy
    /\ \A s, t \in held : Key(s) = Key(t) => s = t

LEMMA LaneInit == Init => LaneInv
BY TypeInit DEF Init, LaneInv

\* The lane of a request that was read is one of the lanes.
LEMMA KeyType ==
    ASSUME NEW s \in Streams, rpc[s] \in Requests
    PROVE  Key(s) \in LaneKeys
BY LaneKeyType, RequestsAssumption DEF Key

\* A guard that is dropped frees no lane that another task holds.
LEMMA DropLaneSound ==
    ASSUME LaneInv, NEW s \in Streams, DropLane(s), NEW t \in held'
    PROVE  t \in held /\ t # s /\ lanes'[Key(t)].busy
<1>1. t \in held /\ t # s /\ t \in Streams
    BY DEF DropLane, LaneInv, TypeOK
<1>2. lanes[Key(t)].busy
    BY <1>1 DEF LaneInv
<1>3. CASE s \in held
    <2>1. Key(t) # Key(s)
        BY <1>1, <1>3 DEF LaneInv
    <2>2. rpc[t] \in Requests
        BY <1>1 DEF LaneInv
    <2>3. Key(t) \in LaneKeys
        BY <1>1, <2>2, KeyType
    <2>. QED  BY <1>1, <1>2, <1>3, <2>1, <2>3 DEF DropLane, LaneInv, TypeOK
<1>. QED  BY <1>1, <1>2, <1>3 DEF DropLane

\* A task that ends lets go of the guard it may have.
LEMMA LeaveSound ==
    ASSUME LaneInv, TypeOK', NEW s \in Streams, DropLane(s), UNCHANGED <<command, rpc>>,
           \/ pc' = [pc EXCEPT ![s] = "over"]
           \/ pc[s] = "submit" /\ IsStreamOpen(rpc[s]) /\ pc' = [pc EXCEPT ![s] = "relay"]
    PROVE  LaneInv'
<1>1. \A t \in held' : t \in held /\ t # s /\ lanes'[Key(t)].busy
    BY DropLaneSound
<1>2. held' = held \ {s}
    BY DEF DropLane
<1>. QED  BY <1>1, <1>2 DEF LaneInv, TypeOK, Key, H2

LEMMA LaneStep == LaneInv /\ [Next]_vars => LaneInv'
<1>. SUFFICES ASSUME LaneInv, [Next]_vars PROVE LaneInv'
    OBVIOUS
<1>1. TypeOK'
    BY TypeStep DEF LaneInv
<1>. USE <1>1 DEF task, reply
<1>2. ASSUME UNCHANGED <<command, pc, rpc, lanes, held>>
      PROVE  LaneInv'
    BY <1>2 DEF LaneInv, TypeOK, Key, H2
<1>3. ASSUME NEW s \in Streams, s \notin held, UNCHANGED <<command, rpc, lanes, held>>,
             \/ pc' = [pc EXCEPT ![s] = "over"]
             \/ pc[s] = "idle" /\ pc' = [pc EXCEPT ![s] = IF H2 THEN "gate" ELSE "read"]
             \/ pc[s] = "gate" /\ pc' = [pc EXCEPT ![s] = "read"]
      PROVE  LaneInv'
    BY <1>3 DEF LaneInv, TypeOK, Key, H2
<1>4. ASSUME NEW s \in Streams, ReadH2Body(s) \/ ReadRequest(s)
      PROVE  LaneInv'
    <2>1. /\ pc[s] = "read" /\ s \notin held
          /\ UNCHANGED <<command, lanes, held>>
          /\ \E q \in Requests : rpc' = [rpc EXCEPT ![s] = q]
          /\ pc' = [pc EXCEPT ![s] = IF H2 THEN "lane" ELSE "submit"]
        BY <1>4 DEF ReadH2Body, ReadRequest, Goto, LaneInv, H2
    <2>. QED  BY <2>1 DEF LaneInv, TypeOK, Key, H2
<1>5. ASSUME NEW s \in Streams, EnterLane(s) PROVE LaneInv'
    <2>1. \A t \in held : t # s /\ Key(t) \in LaneKeys /\ lanes'[Key(t)].busy
        BY <1>5, KeyType DEF EnterLane, LaneInv, TypeOK
    <2>. QED  BY <1>5, <2>1 DEF EnterLane, Goto, LaneInv, TypeOK, Key, H2
<1>6. ASSUME NEW s \in Streams, AcquireLane(s) PROVE LaneInv'
    <2>1. Key(s) \in LaneKeys /\ lanes'[Key(s)].busy
        BY <1>6, KeyType DEF AcquireLane, LaneInv, TypeOK
    <2>2. \A t \in held : t # s /\ Key(t) # Key(s) /\ lanes'[Key(t)].busy
        BY <1>6, KeyType DEF AcquireLane, LaneInv, TypeOK
    <2>. QED  BY <1>6, <2>1, <2>2 DEF AcquireLane, Goto, LaneInv, TypeOK, Key, H2
<1>7. ASSUME NEW s \in Streams, Submit(s) PROVE LaneInv'
    <2>1. CASE IsStreamOpen(rpc[s])
        BY <1>7, <2>1, LeaveSound DEF Submit, Goto
    <2>2. CASE ~ IsStreamOpen(rpc[s])
        BY <1>7, <2>2 DEF Submit, Goto, LaneInv, TypeOK, Key, H2
    <2>. QED  BY <2>1, <2>2
<1>8. ASSUME NEW s \in Streams,
             SubmitForNobody(s) \/ SubmitFails(s) \/ RelayFails(s) \/ Finish(s)
      PROVE  LaneInv'
    BY <1>8, LeaveSound DEF SubmitForNobody, SubmitFails, RelayFails, Finish, End, Goto
<1>9. ASSUME NEW s \in Streams, Accept(s) PROVE LaneInv'
    BY <1>3, <1>9 DEF Accept, Goto, LaneInv
<1>10. ASSUME NEW s \in Streams, AcquireGate(s) PROVE LaneInv'
    BY <1>3, <1>10 DEF AcquireGate, Goto, LaneInv
<1>11. ASSUME NEW s \in Streams,
              \/ RefuseH2Path(s) \/ RefuseHttpPath(s) \/ RefuseH2Body(s)
              \/ RefuseRequest(s) \/ RespondHttp(s)
       PROVE  LaneInv'
    <2>1. s \notin held
        BY <1>11 DEF RefuseH2Path, RefuseHttpPath, RefuseH2Body, RefuseRequest,
                     RespondHttp, LaneInv, H2, Http
    <2>. QED
        BY <1>3, <1>11, <2>1 DEF RefuseH2Path, RefuseHttpPath, RefuseH2Body,
                                 RefuseRequest, RespondHttp, End, Goto
<1>. QED
    BY <1>2, <1>4, <1>5, <1>6, <1>7, <1>8, <1>9, <1>10, <1>11
       DEF Next, Step, Hangup, RefuseSession, Relay, DaemonWrites, DaemonCloses, vars

LEMMA LanesHeld == Spec => []LaneInv
BY LaneInit, LaneStep, PTL DEF Spec

\* In h2-server the daemon works on one request of a lane at a time, among
\* those whose answer the bridge waits for.
THEOREM LanesServeOne == Spec => []OneRequestPerLane
<1>1. LaneInv => OneRequestPerLane
    BY DEF LaneInv, OneRequestPerLane, Watched
<1>. QED
    BY <1>1, LanesHeld, PTL

-----------------------------------------------------------------------------
(* The lanes implement LaneService.                                        *)

LEMMA ServiceInit == Init => Service!Init
BY DEF Init, Service!Init, Phase

\* What LaneService sees of a stream is its phase, and its lane once it has one.
LEMMA ServiceStutters ==
    ASSUME UNCHANGED rpc, \A t \in Streams : Phase(t)' = Phase(t)
    PROVE  UNCHANGED Service!vars
BY DEF Service!vars, Key

\* A task that gives its guard back, or ends without one, is a request that
\* leaves, or one that had left or never came.
LEMMA ServiceLeaves ==
    ASSUME LaneInv, NEW s \in Streams, DropLane(s), UNCHANGED <<command, rpc>>,
           \/ pc[s] \in {"submit", "relay"} /\ pc' = [pc EXCEPT ![s] = "over"]
           \/ pc[s] = "submit" /\ pc' = [pc EXCEPT ![s] = "relay"]
    PROVE  Service!Leave(s) \/ UNCHANGED Service!vars
<1>1. held' = held \ {s}
    BY DEF DropLane
<1>2. rpc[s] # NoRpc
    BY RequestsAssumption DEF LaneInv
<1>3. \A t \in Streams \ {s} : Phase(t)' = Phase(t)
    BY <1>1 DEF Phase, H2, LaneInv, TypeOK
<1>4. Phase(s)' = IF H2 THEN "left" ELSE "new"
    BY <1>1, <1>2 DEF Phase, H2, LaneInv, TypeOK
<1>5. CASE s \in held
    <2>1. Phase(s) = "served" /\ H2
        BY <1>5 DEF Phase, LaneInv
    <2>2. Service!Leave(s)
        BY <1>3, <1>4, <2>1 DEF Service!Leave, Key
    <2>. QED  BY <2>2
<1>6. CASE s \notin held
    <2>1. Phase(s) = IF H2 THEN "left" ELSE "new"
        BY <1>2, <1>6 DEF Phase, LaneInv
    <2>. QED  BY <1>3, <1>4, <2>1, ServiceStutters
<1>. QED  BY <1>5, <1>6

LEMMA ServiceStep == LaneInv /\ [Next]_vars => [Service!Next]_Service!vars
<1>. SUFFICES ASSUME LaneInv, [Next]_vars PROVE [Service!Next]_Service!vars
    OBVIOUS
<1>. USE DEF task, reply
<1>1. ASSUME UNCHANGED <<command, pc, rpc, held>>
      PROVE  UNCHANGED Service!vars
    BY <1>1, ServiceStutters DEF Phase, H2
<1>2. ASSUME NEW s \in Streams, rpc[s] = NoRpc \/ ~ H2,
             UNCHANGED <<command, rpc, held>>,
             \E label \in Phases \ {"queued"} : pc' = [pc EXCEPT ![s] = label]
      PROVE  UNCHANGED Service!vars
    <2>1. \A t \in Streams \ {s} : Phase(t)' = Phase(t)
        BY <1>2 DEF Phase, H2, LaneInv, TypeOK
    <2>2. Phase(s) = "new" /\ Phase(s)' = "new"
        BY <1>2, RequestsAssumption DEF Phase, H2, LaneInv, TypeOK
    <2>. QED  BY <1>2, <2>1, <2>2, ServiceStutters
<1>3. ASSUME NEW s \in Streams, ReadH2Body(s) \/ ReadRequest(s)
      PROVE  UNCHANGED Service!vars
    <2>1. /\ pc[s] = "read" /\ s \notin held /\ UNCHANGED <<command, held>>
          /\ pc' = [pc EXCEPT ![s] = IF H2 THEN "lane" ELSE "submit"]
          /\ \A t \in Streams \ {s} : rpc'[t] = rpc[t]
        BY <1>3 DEF ReadH2Body, ReadRequest, Goto, LaneInv, TypeOK, H2
    <2>2. \A t \in Streams \ {s} : Phase(t)' = Phase(t) /\ Key(t)' = Key(t)
        BY <2>1 DEF Phase, Key, H2, LaneInv, TypeOK
    <2>3. Phase(s) = "new" /\ Phase(s)' = "new"
        BY <2>1 DEF Phase, H2, LaneInv, TypeOK
    <2>. QED  BY <2>2, <2>3 DEF Service!vars
<1>4. ASSUME NEW s \in Streams, EnterLane(s) PROVE Service!Queue(s)
    <2>1. /\ pc[s] = "lane" /\ pc' = [pc EXCEPT ![s] = "queued"]
          /\ UNCHANGED <<command, rpc, held>> /\ Key(s) \in LaneKeys
        BY <1>4, KeyType DEF EnterLane, Goto, LaneInv
    <2>2. Phase(s) = "new" /\ Phase(s)' = "queued"
        BY <2>1 DEF Phase, LaneInv, TypeOK
    <2>3. \A t \in Streams \ {s} : Phase(t)' = Phase(t)
        BY <2>1 DEF Phase, H2, LaneInv, TypeOK
    <2>. QED  BY <2>1, <2>2, <2>3 DEF Service!Queue, Key
<1>5. ASSUME NEW s \in Streams, AcquireLane(s) PROVE Service!Serve(s)
    <2>1. /\ pc[s] = "queued" /\ pc' = [pc EXCEPT ![s] = "submit"]
          /\ held' = held \cup {s} /\ UNCHANGED <<command, rpc>>
          /\ ~ lanes[Key(s)].busy
        BY <1>5 DEF AcquireLane, Goto
    <2>2. Phase(s) = "queued" /\ Phase(s)' = "served"
        BY <2>1 DEF Phase, LaneInv, TypeOK
    <2>3. \A t \in Streams \ {s} : Phase(t)' = Phase(t)
        BY <2>1 DEF Phase, H2, LaneInv, TypeOK
    <2>4. ASSUME NEW t \in Streams, Phase(t) = "served" PROVE Key(t) # Key(s)
        <3>1. t \in held
            BY <2>4 DEF Phase
        <3>. QED  BY <2>1, <3>1 DEF LaneInv
    <2>. QED  BY <2>1, <2>2, <2>3, <2>4 DEF Service!Serve, Key
<1>6. ASSUME NEW s \in Streams, Submit(s)
      PROVE  Service!Leave(s) \/ UNCHANGED Service!vars
    <2>1. CASE IsStreamOpen(rpc[s])
        BY <1>6, <2>1, ServiceLeaves DEF Submit, Goto
    <2>2. CASE ~ IsStreamOpen(rpc[s])
        <3>1. \A t \in Streams : Phase(t)' = Phase(t)
            BY <1>6, <2>2 DEF Submit, Goto, Phase, H2, LaneInv, TypeOK
        <3>. QED  BY <1>6, <3>1, ServiceStutters DEF Submit
    <2>. QED  BY <2>1, <2>2
<1>7. ASSUME NEW s \in Streams,
             SubmitForNobody(s) \/ SubmitFails(s) \/ RelayFails(s) \/ Finish(s)
      PROVE  Service!Leave(s) \/ UNCHANGED Service!vars
    BY <1>7, ServiceLeaves
       DEF SubmitForNobody, SubmitFails, RelayFails, Finish, End, Goto
<1>8. ASSUME NEW s \in Streams,
             \/ Accept(s) \/ AcquireGate(s) \/ RefuseH2Path(s) \/ RefuseHttpPath(s)
             \/ RefuseH2Body(s) \/ RefuseRequest(s) \/ RespondHttp(s)
      PROVE  UNCHANGED Service!vars
    <2>1. rpc[s] = NoRpc \/ ~ H2
        BY <1>8 DEF Accept, AcquireGate, RefuseH2Path, RefuseHttpPath, RefuseH2Body,
                    RefuseRequest, RespondHttp, LaneInv, H2, Http
    <2>. QED
        BY <1>2, <1>8, <2>1
           DEF Accept, AcquireGate, RefuseH2Path, RefuseHttpPath, RefuseH2Body,
               RefuseRequest, RespondHttp, End, Goto, Phases
<1>. QED
    BY <1>1, <1>3, <1>4, <1>5, <1>6, <1>7, <1>8
       DEF Next, Step, Hangup, RefuseSession, Relay, DaemonWrites, DaemonCloses, vars,
           Service!Next

\* The lanes of h2-server implement LaneService: whatever happens to streams and
\* connections, a request waits in its lane, is handed on alone, and leaves it.
THEOREM LanesAreServed == Spec => ServesLanes
<1>1. Spec => []LaneInv
    BY LanesHeld
<1>2. LaneInv /\ [Next]_vars => [Service!Next]_Service!vars
    BY ServiceStep
<1>. QED
    BY <1>1, <1>2, ServiceInit, PTL DEF Spec, ServesLanes, Service!Spec

-----------------------------------------------------------------------------
(* How the bridge comes up.                                                *)

Labels ==
    {"look cert", "look key", "load cert", "load key", "bind", "fill ready", "accept"}
    \cup Making \cup Down

Types ==
    /\ cert \in Content /\ key \in Content
    /\ ready \in [Starts -> Content]
    /\ at \in [Starts -> Labels]
    /\ identity \in [Starts -> [cert : Content, key : Content]]
    /\ printed \in [Starts -> Starts \cup {Absent}]
    /\ raced \in BOOLEAN

\* What a daemon prints is what the ready file says, and that is the pin of the
\* certificate the bridge has had since it was bound.
ServedInv ==
    \A i \in Starts :
        /\ ready[i] \in Starts =>
               at[i] \in {"accept", "failed", "dead"} /\ ready[i] = identity[i].cert
        /\ printed[i] # Absent => printed[i] = ready[i]

\* The identity of i is one of its own making.
Own(i) == identity[i].cert = i /\ identity[i].key = i

\* How far the files are, seen from a start at each of its labels.
FilesFit(i) ==
    /\ at[i] \in {"make", "fill cert", "open key"} => key = Absent
    /\ at[i] = "fill key" => key = Torn
    /\ at[i] \in {"open key", "fill key"} => cert = i
    /\ at[i] \in {"fill cert", "open key", "fill key"} => Own(i)
    /\ at[i] \in {"load cert", "load key"} => key # Absent
    /\ at[i] = "load key" => identity[i].cert = cert
    /\ at[i] \in {"bind", "fill ready", "accept"} =>
           key \in Starts /\ identity[i].cert = cert /\ identity[i].key = cert
    /\ ready[i] \in Starts => key \in Starts /\ ready[i] = cert

OneIdentity ==
    ~ raced =>
        /\ \A i, j \in Starts : at[i] \in Making /\ at[j] \in Making => i = j
        /\ key # Absent => cert \in Starts
        /\ key \in Starts => key = cert
        /\ \A i \in Starts : FilesFit(i)

StartupInv == Types /\ ServedInv /\ OneIdentity

-----------------------------------------------------------------------------
LEMMA StartupInit == InitStartup => StartupInv
<1>. SUFFICES ASSUME InitStartup PROVE StartupInv
    OBVIOUS
<1>1. Types
    BY DEF InitStartup, Types, Labels, Down, Content
<1>2. ServedInv
    BY StartsAssumption DEF InitStartup, ServedInv
<1>3. OneIdentity
    BY StartsAssumption DEF InitStartup, OneIdentity, FilesFit, Making
<1>. QED  BY <1>1, <1>2, <1>3 DEF StartupInv

LEMMA TypesStep == Types /\ [NextStartup]_startupVars => Types'
<1>. SUFFICES ASSUME Types, [NextStartup]_startupVars PROVE Types'
    OBVIOUS
<1>. USE DEF Types, Labels, Making, Down, Content, Advance, files
<1>1. ASSUME NEW i \in Starts, Begin(i) PROVE Types'
    BY <1>1 DEF Begin
<1>2. ASSUME NEW i \in Starts, LookAtCert(i) PROVE Types'
    BY <1>2 DEF LookAtCert, Make
<1>3. ASSUME NEW i \in Starts, LookAtKey(i) PROVE Types'
    BY <1>3 DEF LookAtKey, Make
<1>4. ASSUME NEW i \in Starts, LoadCert(i) PROVE Types'
    BY <1>4 DEF LoadCert
<1>5. ASSUME NEW i \in Starts, LoadKey(i) PROVE Types'
    BY <1>5 DEF LoadKey
<1>6. ASSUME NEW i \in Starts, OpenCert(i) PROVE Types'
    BY <1>6 DEF OpenCert
<1>7. ASSUME NEW i \in Starts, FillCert(i) PROVE Types'
    BY <1>7 DEF FillCert
<1>8. ASSUME NEW i \in Starts, OpenKey(i) PROVE Types'
    BY <1>8 DEF OpenKey
<1>9. ASSUME NEW i \in Starts, FillKey(i) PROVE Types'
    BY <1>9 DEF FillKey
<1>10. ASSUME NEW i \in Starts, OpenReady(i) PROVE Types'
    BY <1>10 DEF OpenReady
<1>11. ASSUME NEW i \in Starts, FillReady(i) PROVE Types'
    BY <1>11 DEF FillReady
<1>12. ASSUME NEW i \in Starts, StartFails(i) PROVE Types'
    BY <1>12 DEF StartFails
<1>13. ASSUME NEW i \in Starts, Die(i) PROVE Types'
    BY <1>13 DEF Die
<1>14. ASSUME NEW i \in Starts, PrintPin(i) PROVE Types'
    BY <1>14 DEF PrintPin
<1>15. CASE UNCHANGED startupVars
    BY <1>15 DEF startupVars
<1>. QED
    BY <1>1, <1>2, <1>3, <1>4, <1>5, <1>6, <1>7, <1>8, <1>9, <1>10, <1>11, <1>12,
       <1>13, <1>14, <1>15 DEF NextStartup, Proceed, GiveUp

LEMMA ServedStep == Types /\ ServedInv /\ [NextStartup]_startupVars => ServedInv'
<1>. SUFFICES ASSUME Types, ServedInv, [NextStartup]_startupVars PROVE ServedInv'
    OBVIOUS
<1>. USE StartsAssumption DEF Types, ServedInv, Making, Down, Content, Advance, files
<1>1. ASSUME NEW i \in Starts, Begin(i) PROVE ServedInv'
    BY <1>1 DEF Begin
<1>2. ASSUME NEW i \in Starts, LookAtCert(i) PROVE ServedInv'
    BY <1>2 DEF LookAtCert, Make
<1>3. ASSUME NEW i \in Starts, LookAtKey(i) PROVE ServedInv'
    BY <1>3 DEF LookAtKey, Make
<1>4. ASSUME NEW i \in Starts, LoadCert(i) PROVE ServedInv'
    BY <1>4 DEF LoadCert
<1>5. ASSUME NEW i \in Starts, LoadKey(i) PROVE ServedInv'
    BY <1>5 DEF LoadKey
<1>6. ASSUME NEW i \in Starts, OpenCert(i) PROVE ServedInv'
    BY <1>6 DEF OpenCert
<1>7. ASSUME NEW i \in Starts, FillCert(i) PROVE ServedInv'
    BY <1>7 DEF FillCert
<1>8. ASSUME NEW i \in Starts, OpenKey(i) PROVE ServedInv'
    BY <1>8 DEF OpenKey
<1>9. ASSUME NEW i \in Starts, FillKey(i) PROVE ServedInv'
    BY <1>9 DEF FillKey
<1>10. ASSUME NEW i \in Starts, OpenReady(i) PROVE ServedInv'
    BY <1>10 DEF OpenReady
<1>11. ASSUME NEW i \in Starts, FillReady(i) PROVE ServedInv'
    BY <1>11 DEF FillReady
<1>12. ASSUME NEW i \in Starts, StartFails(i) PROVE ServedInv'
    BY <1>12 DEF StartFails
<1>13. ASSUME NEW i \in Starts, Die(i) PROVE ServedInv'
    BY <1>13 DEF Die
<1>14. ASSUME NEW i \in Starts, PrintPin(i) PROVE ServedInv'
    BY <1>14 DEF PrintPin
<1>15. CASE UNCHANGED startupVars
    BY <1>15 DEF startupVars
<1>. QED
    BY <1>1, <1>2, <1>3, <1>4, <1>5, <1>6, <1>7, <1>8, <1>9, <1>10, <1>11, <1>12,
       <1>13, <1>14, <1>15 DEF NextStartup, Proceed, GiveUp

\* A start that begins to make an identity is alone with it, or has raced.
LEMMA MakeStep ==
    ASSUME Types, OneIdentity, NEW i \in Starts, Make(i), key = Absent \/ cert = Absent,
           UNCHANGED <<files, ready, identity>>
    PROVE  OneIdentity'
<1>. SUFFICES ASSUME ~ raced' PROVE OneIdentity'
    BY DEF OneIdentity
<1>. USE StartsAssumption DEF Types, Making, Down, Content, Advance, files
<1>1. ~ raced /\ \A j \in Starts \ {i} : at[j] \notin Making
    BY DEF Make
<1>2. key = Absent
    BY <1>1 DEF OneIdentity
<1>3. at'[i] = "make" /\ \A j \in Starts \ {i} : at'[j] = at[j]
    BY DEF Make
<1>. QED
    BY <1>1, <1>2, <1>3 DEF OneIdentity, FilesFit, Own

\* What the two loads do to the identity in hand.
LEMMA LoadsCert ==
    ASSUME Types, NEW i \in Starts, LoadCert(i)
    PROVE  /\ identity'[i].cert = cert
           /\ \A j \in Starts \ {i} : identity'[j] = identity[j]
<1>1. identity \in [Starts -> [cert : Content, key : Content]]
    BY DEF Types
<1>2. identity' = [identity EXCEPT ![i].cert = cert]
    BY DEF LoadCert
<1>. QED  BY <1>1, <1>2

LEMMA LoadsKey ==
    ASSUME Types, NEW i \in Starts, LoadKey(i)
    PROVE  /\ identity'[i].key = key /\ identity'[i].cert = identity[i].cert
           /\ \A j \in Starts \ {i} : identity'[j] = identity[j]
<1>1. identity \in [Starts -> [cert : Content, key : Content]]
    BY DEF Types
<1>2. identity' = [identity EXCEPT ![i].key = key]
    BY DEF LoadKey
<1>. QED  BY <1>1, <1>2

LEMMA OneIdentityStep == Types /\ OneIdentity /\ [NextStartup]_startupVars => OneIdentity'
<1>. SUFFICES ASSUME Types, OneIdentity, [NextStartup]_startupVars PROVE OneIdentity'
    OBVIOUS
<1>. USE StartsAssumption
     DEF Types, OneIdentity, FilesFit, Own, Making, Down, Content, Advance, files
<1>1. ASSUME NEW i \in Starts, Begin(i) PROVE OneIdentity'
    BY <1>1 DEF Begin
<1>2. ASSUME NEW i \in Starts, LookAtCert(i) PROVE OneIdentity'
    <2>1. CASE cert = Absent
        BY <1>2, <2>1, MakeStep DEF LookAtCert
    <2>2. CASE cert # Absent
        <3>1. Advance(i, "look key") /\ UNCHANGED <<files, ready, identity, raced>>
            BY <1>2, <2>2 DEF LookAtCert
        <3>2. /\ at' = [at EXCEPT ![i] = "look key"]
              /\ cert' = cert /\ key' = key /\ ready' = ready
              /\ identity' = identity /\ raced' = raced
            BY <3>1
        <3>. QED  BY <2>2, <3>2
    <2>. QED  BY <2>1, <2>2
<1>3. ASSUME NEW i \in Starts, LookAtKey(i) PROVE OneIdentity'
    <2>1. CASE key = Absent
        BY <1>3, <2>1, MakeStep DEF LookAtKey
    <2>2. CASE key # Absent
        <3>1. Advance(i, "load cert") /\ UNCHANGED <<files, ready, identity, raced>>
            BY <1>3, <2>2 DEF LookAtKey
        <3>2. /\ at' = [at EXCEPT ![i] = "load cert"]
              /\ cert' = cert /\ key' = key /\ ready' = ready
              /\ identity' = identity /\ raced' = raced
            BY <3>1
        <3>. QED  BY <2>2, <3>2
    <2>. QED  BY <2>1, <2>2
<1>4. ASSUME NEW i \in Starts, LoadCert(i) PROVE OneIdentity'
    <2>. SUFFICES ASSUME ~ raced PROVE OneIdentity'
        BY <1>4 DEF LoadCert
    <2>1. cert \in Starts /\ key # Absent
        BY <1>4 DEF LoadCert
    <2>2. identity'[i].cert = cert /\ \A j \in Starts \ {i} : identity'[j] = identity[j]
        BY <1>4, LoadsCert
    <2>3. at'[i] = "load key" /\ \A j \in Starts \ {i} : at'[j] = at[j]
        BY <1>4, <2>1 DEF LoadCert
    <2>4. FilesFit(i)'
        BY <1>4, <2>1, <2>2, <2>3 DEF LoadCert
    <2>5. ASSUME NEW j \in Starts \ {i} PROVE FilesFit(j)'
        BY <1>4, <2>2, <2>3 DEF LoadCert
    <2>. QED  BY <1>4, <2>3, <2>4, <2>5 DEF LoadCert
<1>5. ASSUME NEW i \in Starts, LoadKey(i) PROVE OneIdentity'
    <2>. SUFFICES ASSUME ~ raced PROVE OneIdentity'
        BY <1>5 DEF LoadKey
    <2>1. cert \in Starts /\ key # Absent /\ identity[i].cert = cert
        BY <1>5 DEF LoadKey
    <2>2. /\ identity'[i].key = key /\ identity'[i].cert = identity[i].cert
          /\ \A j \in Starts \ {i} : identity'[j] = identity[j]
        BY <1>5, LoadsKey
    <2>3. /\ at'[i] = IF key \in Starts THEN "bind" ELSE "failed"
          /\ \A j \in Starts \ {i} : at'[j] = at[j]
        BY <1>5 DEF LoadKey
    <2>4. FilesFit(i)'
        BY <1>5, <2>1, <2>2, <2>3 DEF LoadKey
    <2>5. ASSUME NEW j \in Starts \ {i} PROVE FilesFit(j)'
        BY <1>5, <2>2, <2>3 DEF LoadKey
    <2>. QED  BY <1>5, <2>3, <2>4, <2>5 DEF LoadKey
<1>6. ASSUME NEW i \in Starts, OpenCert(i) PROVE OneIdentity'
    BY <1>6 DEF OpenCert
<1>7. ASSUME NEW i \in Starts, FillCert(i) PROVE OneIdentity'
    BY <1>7 DEF FillCert
<1>8. ASSUME NEW i \in Starts, OpenKey(i) PROVE OneIdentity'
    BY <1>8 DEF OpenKey
<1>9. ASSUME NEW i \in Starts, FillKey(i) PROVE OneIdentity'
    BY <1>9 DEF FillKey
<1>10. ASSUME NEW i \in Starts, OpenReady(i) PROVE OneIdentity'
    BY <1>10 DEF OpenReady
<1>11. ASSUME NEW i \in Starts, FillReady(i) PROVE OneIdentity'
    BY <1>11 DEF FillReady
<1>12. ASSUME NEW i \in Starts, StartFails(i) PROVE OneIdentity'
    BY <1>12 DEF StartFails
<1>13. ASSUME NEW i \in Starts, Die(i) PROVE OneIdentity'
    BY <1>13 DEF Die
<1>14. ASSUME NEW i \in Starts, PrintPin(i) PROVE OneIdentity'
    BY <1>14 DEF PrintPin
<1>15. CASE UNCHANGED startupVars
    BY <1>15 DEF startupVars
<1>. QED
    BY <1>1, <1>2, <1>3, <1>4, <1>5, <1>6, <1>7, <1>8, <1>9, <1>10, <1>11, <1>12,
       <1>13, <1>14, <1>15 DEF NextStartup, Proceed, GiveUp

LEMMA StartupStep == StartupInv /\ [NextStartup]_startupVars => StartupInv'
BY TypesStep, ServedStep, OneIdentityStep DEF StartupInv

\* A pin a daemon printed is that of the certificate its bridge serves, and gets
\* a client to every bridge that accepts, however many starts there were and
\* wherever they died, if no two made an identity at the same time.
THEOREM PrintedPinsConnect == Startup => []PinsAreReadyToUse
<1>1. StartupInv => PinsAreReadyToUse
    BY StartsAssumption
       DEF StartupInv, Types, ServedInv, OneIdentity, FilesFit, PinsAreReadyToUse, Connects
<1>. QED  BY <1>1, StartupInit, StartupStep, PTL DEF Startup

\* Files that hold a whole identity are a pair and are not written again.
THEOREM IdentityIsKept == Startup => StoredIdentityStays
<1>1. StartupInv /\ [NextStartup]_startupVars
        => [~ raced /\ Whole(cert) /\ Whole(key) => cert = key /\ UNCHANGED files]_startupVars
    <2>. SUFFICES ASSUME StartupInv, [NextStartup]_startupVars, ~ raced, Whole(cert), Whole(key)
                  PROVE  cert = key /\ UNCHANGED files
        OBVIOUS
    <2>1. cert = key
        BY DEF Whole, StartupInv, OneIdentity
    <2>2. \A i \in Starts : at[i] \notin Making
        BY StartsAssumption
           DEF Whole, StartupInv, OneIdentity, FilesFit, Making
    <2>3. UNCHANGED files
        BY <2>2
           DEF NextStartup, Proceed, Begin, LookAtCert, LookAtKey, LoadCert, LoadKey, OpenCert,
               FillCert, OpenKey, FillKey, OpenReady, FillReady, StartFails, Die,
               PrintPin, GiveUp, Making, files, startupVars
    <2>. QED  BY <2>1, <2>3
<1>. QED  BY <1>1, StartupInit, StartupStep, PTL DEF Startup, StoredIdentityStays

-----------------------------------------------------------------------------
(* BridgeFraming: what a fold over a list does, step by step.              *)

\* A set that has zero, and with a number the next one, has all numbers.
LEMMA NumbersFromZero ==
    ASSUME NEW T \in SUBSET Nat, 0 \in T, \A k \in T : k + 1 \in T
    PROVE  T = Nat
<1>. SUFFICES ASSUME Nat \ T # {} PROVE FALSE
    OBVIOUS
<1>. DEFINE R == OpToRel(<, Nat)
<1>1. IsWellFoundedOn(R, Nat)
    BY NatLessThanWellFounded
<1>2. PICK n \in Nat \ T : \A m \in Nat \ T : <<m, n>> \notin R
    <2>1. Nat \ T \in SUBSET Nat
        OBVIOUS
    <2>. HIDE DEF R
    <2>. QED  BY <1>1, <2>1, WFMin
<1>3. n - 1 \in Nat /\ n - 1 < n /\ (n - 1) + 1 = n
    <2>1. n \in Nat /\ n # 0
        BY <1>2
    <2>. QED  BY ONLY <2>1
<1>4. n - 1 \in T
    BY <1>2, <1>3 DEF OpToRel
<1>. QED  BY <1>2, <1>3, <1>4

\* What a fold over the first n numbers makes of each set of them.
Fills(n, base, step, g) ==
    \A t \in SUBSET (1 .. n) :
        g[t] = IF t = {} THEN base ELSE step[g[t \ {Max(t)}]][Max(t)]

\* The largest of some of the first numbers is one of them.
LEMMA MaxAmong ==
    ASSUME NEW n \in Nat, NEW t \in SUBSET (1 .. n), t # {}
    PROVE  Max(t) \in t /\ \A y \in t : Max(t) >= y
<1>. DEFINE Has(k) == \A s \in SUBSET (1 .. k) : s # {} => \E x \in s : \A y \in s : x >= y
            T == {k \in Nat : Has(k)}
<1>1. Has(0)
    <2>1. 1 .. 0 = {}
        OBVIOUS
    <2>. QED  BY <2>1
<1>2. ASSUME NEW k \in T PROVE k + 1 \in T
    <2>1. k \in Nat /\ Has(k)
        <3>. HIDE DEF Has
        <3>. QED  OBVIOUS
    <2>2. ASSUME NEW s \in SUBSET (1 .. k + 1), s # {}
          PROVE  \E x \in s : \A y \in s : x >= y
        <3>1. CASE k + 1 \in s
            BY <2>1, <3>1
        <3>2. CASE k + 1 \notin s
            <4>1. s \in SUBSET (1 .. k)
                BY <2>1, <3>2
            <4>. QED  BY <2>1, <2>2, <4>1
        <3>. QED  BY <3>1, <3>2
    <2>. QED  BY <2>1, <2>2
<1>3. T = Nat
    <2>. HIDE DEF Has
    <2>1. T \in SUBSET Nat /\ 0 \in T
        BY <1>1
    <2>. HIDE DEF T
    <2>. QED  BY <1>2, <2>1, NumbersFromZero
<1>4. Has(n)
    <2>. HIDE DEF Has
    <2>. QED  BY <1>3
<1>. QED  BY <1>4 DEF Max

LEMMA MaxIsLast ==
    ASSUME NEW k \in Nat, NEW t \in SUBSET (1 .. k + 1), k + 1 \in t
    PROVE  Max(t) = k + 1
<1>. DEFINE m == Max(t)
<1>1. m \in t /\ \A y \in t : m >= y
    BY MaxAmong, k + 1 \in Nat, t # {}
<1>. HIDE DEF m
<1>2. m = k + 1
    BY <1>1
<1>. QED  BY <1>2 DEF m

LEMMA FoldFills ==
    ASSUME NEW n \in Nat, NEW V, NEW base \in V, NEW step \in [V -> [1 .. n -> V]]
    PROVE  \E g \in [SUBSET (1 .. n) -> V] : Fills(n, base, step, g)
<1>. DEFINE Has(k) == \E g \in [SUBSET (1 .. k) -> V] : Fills(k, base, step, g)
            T == {k \in Nat : k <= n => Has(k)}
<1>1. Has(0)
    <2>. DEFINE g == [t \in SUBSET (1 .. 0) |-> base]
    <2>1. g \in [SUBSET (1 .. 0) -> V] /\ 1 .. 0 = {}
        OBVIOUS
    <2>2. Fills(0, base, step, g)
        BY <2>1 DEF Fills
    <2>. QED  BY <2>1, <2>2
<1>2. ASSUME NEW k \in T PROVE k + 1 \in T
    <2>0. k \in Nat /\ (k <= n => Has(k))
        <3>. HIDE DEF Has
        <3>. QED  OBVIOUS
    <2>. SUFFICES ASSUME k + 1 <= n PROVE Has(k + 1)
        <3>. HIDE DEF Has
        <3>. QED  BY <2>0
    <2>1. k \in Nat /\ k <= n /\ k + 1 \in 1 .. n /\ Has(k)
        <3>. HIDE DEF Has, T
        <3>. QED  BY <2>0
    <2>2. PICK g \in [SUBSET (1 .. k) -> V] : Fills(k, base, step, g)
        BY <2>1
    <2>. DEFINE D == SUBSET (1 .. k + 1)
                h == [t \in D |-> IF k + 1 \in t THEN step[g[t \ {k + 1}]][k + 1] ELSE g[t]]
    <2>3. ASSUME NEW t \in D PROVE t \ {k + 1} \in SUBSET (1 .. k)
        BY <2>1
    <2>4. ASSUME NEW t \in D PROVE h[t] \in V
        <3>1. CASE k + 1 \in t
            <4>1. g[t \ {k + 1}] \in V
                BY <2>3
            <4>2. step[g[t \ {k + 1}]] \in [1 .. n -> V]
                BY <4>1
            <4>. QED  BY <2>1, <3>1, <4>2
        <3>2. CASE k + 1 \notin t
            <4>1. t \in SUBSET (1 .. k)
                BY <2>3, <3>2
            <4>. QED  BY <3>2, <4>1
        <3>. QED  BY <3>1, <3>2
    <2>5. h \in [D -> V]
        BY <2>4
    <2>6. ASSUME NEW t \in D
          PROVE  h[t] = IF t = {} THEN base ELSE step[h[t \ {Max(t)}]][Max(t)]
        <3>1. CASE k + 1 \in t
            <4>1. Max(t) = k + 1
                BY <2>1, <3>1, MaxIsLast
            <4>2. h[t \ {k + 1}] = g[t \ {k + 1}] /\ h[t] = step[g[t \ {k + 1}]][k + 1]
                BY <3>1
            <4>. HIDE DEF h, D
            <4>. QED  BY <3>1, <4>1, <4>2
        <3>2. CASE k + 1 \notin t
            <4>1. t \in SUBSET (1 .. k) /\ t \ {Max(t)} \in D
                BY <2>3, <3>2
            <4>2. h[t] = g[t] /\ h[t \ {Max(t)}] = g[t \ {Max(t)}]
                BY <3>2, <4>1
            <4>. HIDE DEF h, D
            <4>. QED  BY <2>2, <4>1, <4>2 DEF Fills
        <3>. QED  BY <3>1, <3>2
    <2>7. Fills(k + 1, base, step, h)
        <3>. HIDE DEF h
        <3>. QED  BY <2>6 DEF Fills
    <2>. HIDE DEF h
    <2>. QED  BY <2>5, <2>7
<1>3. T = Nat
    <2>. HIDE DEF Has
    <2>1. T \in SUBSET Nat /\ 0 \in T
        BY <1>1
    <2>. HIDE DEF T
    <2>. QED  BY <1>2, <2>1, NumbersFromZero
<1>4. Has(n)
    <2>. HIDE DEF Has
    <2>. QED  BY <1>3
<1>. QED  BY <1>4

\* The first numbers but the last.
LEMMA LastOfFirst ==
    ASSUME NEW n \in Nat, NEW k \in 1 .. n
    PROVE  /\ 1 .. k \in SUBSET (1 .. n) /\ 1 .. k # {}
           /\ Max(1 .. k) = k /\ (1 .. k) \ {k} = 1 .. k - 1
<1>1. k - 1 \in Nat /\ (k - 1) + 1 = k
    OBVIOUS
<1>2. Max(1 .. k) = k
    <2>1. 1 .. k \in SUBSET (1 .. (k - 1) + 1) /\ (k - 1) + 1 \in 1 .. k
        BY <1>1
    <2>. QED  BY <1>1, <2>1, MaxIsLast
<1>. QED  BY <1>2

\* The results of a fold, of no element first and of all n in the end.
Rows(n, base, step, result, h) ==
    /\ h[0] = base /\ h[n] = result
    /\ \A k \in 1 .. n : h[k] = step[h[k - 1]][k]

\* What is computed as a fold is, has such results.
Iterates(n, V, base, step, iter) ==
    /\ iter[{}] = base
    /\ \A k \in 1 .. n : iter[1 .. k - 1] \in V
                         => iter[1 .. k] = step[iter[1 .. k - 1]][k]

LEMMA FoldRows ==
    ASSUME NEW n \in Nat, NEW V, NEW base \in V, NEW step \in [V -> [1 .. n -> V]],
           NEW iter, Iterates(n, V, base, step, iter)
    PROVE  \E h \in [0 .. n -> V] : Rows(n, base, step, iter[1 .. n], h)
<1>. USE DEF Iterates
<1>. DEFINE h == [k \in 0 .. n |-> iter[1 .. k]]
            T == {k \in Nat : k <= n => iter[1 .. k] \in V}
<1>1. 0 \in T
    <2>1. 1 .. 0 = {}
        OBVIOUS
    <2>. QED  BY <2>1
<1>2. ASSUME NEW k \in T PROVE k + 1 \in T
    <2>1. k \in Nat /\ (k <= n => iter[1 .. k] \in V)
        OBVIOUS
    <2>. SUFFICES ASSUME k + 1 <= n PROVE iter[1 .. k + 1] \in V
        <3>1. k + 1 \in Nat
            BY <2>1
        <3>. QED  BY <3>1
    <2>. HIDE DEF T
    <2>2. k + 1 \in 1 .. n /\ (k + 1) - 1 = k /\ k <= n
        BY <2>1
    <2>3. step[iter[1 .. k]] \in [1 .. n -> V]
        BY <2>1, <2>2
    <2>4. iter[1 .. k + 1] = step[iter[1 .. k]][k + 1]
        BY <2>1, <2>2
    <2>. QED  BY <2>2, <2>3, <2>4
<1>3. T = Nat
    <2>1. T \in SUBSET Nat
        OBVIOUS
    <2>. HIDE DEF T
    <2>. QED  BY <1>1, <1>2, <2>1, NumbersFromZero
<1>4. \A k \in 0 .. n : iter[1 .. k] \in V
    <2>1. \A k \in 0 .. n : k \in T
        <3>. HIDE DEF T
        <3>. QED  BY <1>3
    <2>. QED  BY <2>1
<1>5. h \in [0 .. n -> V]
    BY <1>4
<1>6. h[0] = base /\ h[n] = iter[1 .. n]
    <2>1. 1 .. 0 = {} /\ 0 \in 0 .. n /\ n \in 0 .. n
        OBVIOUS
    <2>. QED  BY <2>1
<1>7. ASSUME NEW k \in 1 .. n PROVE h[k] = step[h[k - 1]][k]
    <2>1. k - 1 \in 0 .. n /\ k \in 0 .. n
        OBVIOUS
    <2>2. h[k] = iter[1 .. k] /\ h[k - 1] = iter[1 .. k - 1]
        BY <2>1
    <2>. QED  BY <1>4, <2>1, <2>2
<1>. HIDE DEF h
<1>. QED  BY <1>5, <1>6, <1>7 DEF Rows

-----------------------------------------------------------------------------
(* BridgeFraming: where the lines of some bytes end.                       *)

\* The ends of the lines of the first bytes, for each number of them.
EndRows(bytes, h) ==
    /\ h \in [0 .. Len(bytes) -> Seq(Nat)] /\ h[0] = <<>>
    /\ \A k \in 1 .. Len(bytes) :
          h[k] = IF bytes[k] = LF THEN Append(h[k - 1], k) ELSE h[k - 1]

LEMMA EndsSteps ==
    ASSUME NEW bytes \in Seq(Bytes)
    PROVE  \E h : EndRows(bytes, h) /\ Ends(bytes) = h[Len(bytes)]
<1>. DEFINE n == Len(bytes)
            V == Seq(Nat)
            ids == [i \in 1 .. n |-> i]
            Put(ends, i) == IF bytes[i] = LF THEN Append(ends, i) ELSE ends
            step == [ends \in V |-> [i \in 1 .. n |-> Put(ends, i)]]
            Body(f) == [t \in SUBSET (1 .. n) |->
                          IF t = {} THEN <<>> ELSE Put(f[t \ {Max(t)}], ids[Max(t)])]
            iter == CHOOSE f : f = Body(f)
<1>1. n \in Nat /\ DOMAIN bytes = 1 .. n /\ DOMAIN ids = 1 .. n
    OBVIOUS
<1>2. Ends(bytes) = iter[1 .. n]
    BY <1>1 DEF Ends, FoldLeftDomain, FoldLeft, MapThenFoldSet
<1>3. ASSUME NEW ends \in V, NEW i \in 1 .. n
      PROVE  step[ends][i] = Put(ends, ids[i]) /\ ids[i] = i /\ Put(ends, i) \in V
    OBVIOUS
<1>4. step \in [V -> [1 .. n -> V]] /\ <<>> \in V
    BY <1>3
<1>5. PICK g \in [SUBSET (1 .. n) -> V] : Fills(n, <<>>, step, g)
    <2>. HIDE DEF n, V, step
    <2>. QED  BY <1>1, <1>4, FoldFills
<1>6. ASSUME NEW t \in SUBSET (1 .. n)
      PROVE  g[t] = IF t = {} THEN <<>> ELSE Put(g[t \ {Max(t)}], ids[Max(t)])
    <2>1. g[t] = IF t = {} THEN <<>> ELSE step[g[t \ {Max(t)}]][Max(t)]
        BY <1>5 DEF Fills
    <2>2. t # {} => Max(t) \in 1 .. n /\ g[t \ {Max(t)}] \in V
        BY <1>1, MaxAmong
    <2>. HIDE DEF n, V, step, Put, ids
    <2>. QED  BY <1>3, <2>1, <2>2
<1>7. iter = Body(iter)
    <2>1. g = [t \in SUBSET (1 .. n) |-> g[t]]
        OBVIOUS
    <2>2. g = Body(g)
        <3>. HIDE DEF n, V, Put, ids
        <3>. QED  BY <1>6, <2>1
    <2>. HIDE DEF Body
    <2>. QED  BY <2>2
<1>. HIDE DEF iter
<1>8. iter[{}] = <<>> /\ \A k \in 1 .. n : iter[1 .. k] = Put(iter[1 .. k - 1], ids[k])
    <2>1. \A t \in SUBSET (1 .. n) :
             iter[t] = IF t = {} THEN <<>> ELSE Put(iter[t \ {Max(t)}], ids[Max(t)])
        <3>1. \A f : f = Body(f) => \A t \in SUBSET (1 .. n) :
                 f[t] = IF t = {} THEN <<>> ELSE Put(f[t \ {Max(t)}], ids[Max(t)])
            <4>. HIDE DEF n, Put, ids
            <4>. QED  OBVIOUS
        <3>. HIDE DEF Body, n, Put, ids
        <3>. QED  BY <1>7, <3>1
    <2>2. ASSUME NEW k \in 1 .. n
          PROVE  1 .. k \in SUBSET (1 .. n) /\ 1 .. k # {} /\ Max(1 .. k) = k
                 /\ (1 .. k) \ {k} = 1 .. k - 1
        BY <1>1, LastOfFirst
    <2>. HIDE DEF n, Put, ids
    <2>. QED  BY <2>1, <2>2
<1>9. PICK h \in [0 .. n -> V] : Rows(n, <<>>, step, iter[1 .. n], h)
    <2>1. Iterates(n, V, <<>>, step, iter)
        <3>. HIDE DEF n, V, step, Put, ids
        <3>. QED  BY <1>3, <1>8 DEF Iterates
    <2>. HIDE DEF n, V, step, Put, ids
    <2>. QED  BY <1>1, <1>4, <2>1, FoldRows
<1>10. ASSUME NEW k \in 1 .. n PROVE h[k] = Put(h[k - 1], k)
    <2>1. k - 1 \in 0 .. n
        BY <1>1
    <2>2. h[k - 1] \in V /\ h[k] = step[h[k - 1]][k]
        BY <1>9, <2>1 DEF Rows
    <2>. HIDE DEF n, V, step, Put, ids
    <2>. QED  BY <1>3, <2>2
<1>11. EndRows(bytes, h)
    BY <1>9, <1>10 DEF EndRows, Rows
<1>. QED  BY <1>2, <1>9, <1>11 DEF Rows

\* What the line reader is after each byte of a chunk.
Readers == [buffer : Seq(Bytes), lines : Seq(Seq(Bytes)), refused : BOOLEAN]

LEMMA StripType == ASSUME NEW line \in Seq(Bytes) PROVE Strip(line) \in Seq(Bytes)
BY DEF Strip, Front, Last

LEMMA ReadByteType ==
    ASSUME NEW r \in Readers, NEW b \in Bytes
    PROVE  ReadByte(r, b) \in Readers
<1>. DEFINE line == Append(r.buffer, b)
            lines == Append(r.lines, Strip(line))
<1>1. line \in Seq(Bytes)
    BY DEF Readers
<1>2. Strip(line) \in Seq(Bytes)
    BY <1>1, StripType
<1>3. lines \in Seq(Seq(Bytes)) /\ <<>> \in Seq(Bytes)
    BY <1>2 DEF Readers
<1>. HIDE DEF line, lines
<1>4. /\ [r EXCEPT !.refused = TRUE] \in Readers /\ [r EXCEPT !.buffer = line] \in Readers
      /\ [r EXCEPT !.buffer = <<>>, !.lines = lines] \in Readers
    BY <1>1, <1>3 DEF Readers
<1>5. ReadByte(r, b) = IF r.refused THEN r
                       ELSE IF Len(line) > Cap THEN [r EXCEPT !.refused = TRUE]
                       ELSE IF b = LF THEN [r EXCEPT !.buffer = <<>>, !.lines = lines]
                       ELSE [r EXCEPT !.buffer = line]
    BY DEF ReadByte, line, lines
<1>. QED  BY <1>4, <1>5

ReadRows(r, chunk, h) ==
    /\ h \in [0 .. Len(chunk) -> Readers] /\ h[0] = r
    /\ \A k \in 1 .. Len(chunk) : h[k] = ReadByte(h[k - 1], chunk[k])

LEMMA ReadSteps ==
    ASSUME NEW r \in Readers, NEW chunk \in Seq(Bytes)
    PROVE  \E h : ReadRows(r, chunk, h) /\ FoldLeft(ReadByte, r, chunk) = h[Len(chunk)]
<1>. DEFINE n == Len(chunk)
            step == [s \in Readers |-> [i \in 1 .. n |-> ReadByte(s, chunk[i])]]
            Body(f) == [t \in SUBSET (1 .. n) |->
                          IF t = {} THEN r ELSE ReadByte(f[t \ {Max(t)}], chunk[Max(t)])]
            iter == CHOOSE f : f = Body(f)
<1>1. n \in Nat /\ DOMAIN chunk = 1 .. n /\ \A i \in 1 .. n : chunk[i] \in Bytes
    OBVIOUS
<1>2. FoldLeft(ReadByte, r, chunk) = iter[1 .. n]
    BY <1>1 DEF FoldLeft, MapThenFoldSet
<1>3. ASSUME NEW s \in Readers, NEW i \in 1 .. n
      PROVE  step[s][i] = ReadByte(s, chunk[i]) /\ ReadByte(s, chunk[i]) \in Readers
    BY <1>1, ReadByteType
<1>4. step \in [Readers -> [1 .. n -> Readers]]
    BY <1>3
<1>5. PICK g \in [SUBSET (1 .. n) -> Readers] : Fills(n, r, step, g)
    <2>. HIDE DEF n, step
    <2>. QED  BY <1>1, <1>4, FoldFills
<1>6. ASSUME NEW t \in SUBSET (1 .. n)
      PROVE  g[t] = IF t = {} THEN r ELSE ReadByte(g[t \ {Max(t)}], chunk[Max(t)])
    <2>1. g[t] = IF t = {} THEN r ELSE step[g[t \ {Max(t)}]][Max(t)]
        BY <1>5 DEF Fills
    <2>2. t # {} => Max(t) \in 1 .. n /\ g[t \ {Max(t)}] \in Readers
        BY <1>1, MaxAmong
    <2>. HIDE DEF n, step
    <2>. QED  BY <1>3, <2>1, <2>2
<1>7. iter = Body(iter)
    <2>1. g = [t \in SUBSET (1 .. n) |-> g[t]]
        OBVIOUS
    <2>2. g = Body(g)
        <3>. HIDE DEF n
        <3>. QED  BY <1>6, <2>1
    <2>. HIDE DEF Body
    <2>. QED  BY <2>2
<1>. HIDE DEF iter
<1>8. iter[{}] = r /\ \A k \in 1 .. n : iter[1 .. k] = ReadByte(iter[1 .. k - 1], chunk[k])
    <2>1. \A t \in SUBSET (1 .. n) :
             iter[t] = IF t = {} THEN r ELSE ReadByte(iter[t \ {Max(t)}], chunk[Max(t)])
        <3>1. \A f : f = Body(f) => \A t \in SUBSET (1 .. n) :
                 f[t] = IF t = {} THEN r ELSE ReadByte(f[t \ {Max(t)}], chunk[Max(t)])
            <4>. HIDE DEF n
            <4>. QED  OBVIOUS
        <3>. HIDE DEF Body, n
        <3>. QED  BY <1>7, <3>1
    <2>2. ASSUME NEW k \in 1 .. n
          PROVE  1 .. k \in SUBSET (1 .. n) /\ 1 .. k # {} /\ Max(1 .. k) = k
                 /\ (1 .. k) \ {k} = 1 .. k - 1
        BY <1>1, LastOfFirst
    <2>. HIDE DEF n
    <2>. QED  BY <2>1, <2>2
<1>9. PICK h \in [0 .. n -> Readers] : Rows(n, r, step, iter[1 .. n], h)
    <2>1. Iterates(n, Readers, r, step, iter)
        <3>. HIDE DEF n, step
        <3>. QED  BY <1>3, <1>8 DEF Iterates
    <2>. HIDE DEF n, step
    <2>. QED  BY <1>1, <1>4, <2>1, FoldRows
<1>10. ASSUME NEW k \in 1 .. n PROVE h[k] = ReadByte(h[k - 1], chunk[k])
    <2>1. k - 1 \in 0 .. n
        BY <1>1
    <2>2. h[k - 1] \in Readers /\ h[k] = step[h[k - 1]][k]
        BY <1>9, <2>1 DEF Rows
    <2>. HIDE DEF n, step
    <2>. QED  BY <1>3, <2>2
<1>11. ReadRows(r, chunk, h)
    BY <1>9, <1>10 DEF ReadRows, Rows
<1>. QED  BY <1>2, <1>9, <1>11 DEF Rows

-----------------------------------------------------------------------------
(* BridgeFraming: how the lines and the rest grow with a byte.             *)

\* The ends of lines in the first bytes are the same whatever follows.
LEMMA RowsAgree ==
    ASSUME NEW a \in Seq(Bytes), NEW c \in Seq(Bytes), Len(a) <= Len(c),
           \A i \in 1 .. Len(a) : a[i] = c[i],
           NEW g, EndRows(a, g), NEW h, EndRows(c, h)
    PROVE  g[Len(a)] = h[Len(a)]
<1>. DEFINE n == Len(a)
            T == {k \in Nat : k <= n => g[k] = h[k]}
<1>0. n \in Nat /\ Len(c) \in Nat /\ n <= Len(c)
    OBVIOUS
<1>1. 0 \in T
    BY DEF EndRows
<1>2. ASSUME NEW k \in T PROVE k + 1 \in T
    <2>. SUFFICES ASSUME k + 1 <= n PROVE g[k + 1] = h[k + 1]
        OBVIOUS
    <2>1. k \in Nat /\ g[k] = h[k] /\ k + 1 \in 1 .. n /\ k + 1 \in 1 .. Len(c)
        BY <1>0
    <2>2. (k + 1) - 1 = k
        BY <2>1
    <2>. HIDE DEF T, n
    <2>3. /\ g[k + 1] = IF a[k + 1] = LF THEN Append(g[k], k + 1) ELSE g[k]
          /\ h[k + 1] = IF c[k + 1] = LF THEN Append(h[k], k + 1) ELSE h[k]
        BY <2>1, <2>2 DEF EndRows, n
    <2>. QED  BY <2>1, <2>3 DEF n
<1>3. T = Nat
    <2>1. T \in SUBSET Nat
        OBVIOUS
    <2>. HIDE DEF T
    <2>. QED  BY <1>1, <1>2, <2>1, NumbersFromZero
<1>4. n \in T
    <2>. HIDE DEF T
    <2>. QED  BY <1>0, <1>3
<1>. QED  BY <1>0, <1>4

LEMMA EndsEmpty == Ends(<<>>) = <<>>
<1>1. <<>> \in Seq(Bytes) /\ Len(<<>>) = 0
    OBVIOUS
<1>2. PICK h : EndRows(<<>>, h) /\ Ends(<<>>) = h[0]
    BY <1>1, EndsSteps
<1>. QED  BY <1>2 DEF EndRows

LEMMA EndsAppend ==
    ASSUME NEW bytes \in Seq(Bytes), NEW b \in Bytes
    PROVE  Ends(Append(bytes, b)) = IF b = LF THEN Append(Ends(bytes), Len(bytes) + 1)
                                    ELSE Ends(bytes)
<1>. DEFINE more == Append(bytes, b)
            n == Len(bytes)
<1>1. /\ more \in Seq(Bytes) /\ Len(more) = n + 1 /\ more[n + 1] = b
      /\ \A i \in 1 .. n : bytes[i] = more[i]
    OBVIOUS
<1>2. n \in Nat /\ n <= n + 1 /\ n + 1 \in 1 .. n + 1 /\ (n + 1) - 1 = n
    OBVIOUS
<1>. HIDE DEF more
<1>3. PICK g : EndRows(bytes, g) /\ Ends(bytes) = g[n]
    BY EndsSteps
<1>4. PICK h : EndRows(more, h) /\ Ends(more) = h[n + 1]
    BY <1>1, EndsSteps
<1>5. g[n] = h[n]
    BY <1>1, <1>2, <1>3, <1>4, RowsAgree
<1>6. h[n + 1] = IF more[n + 1] = LF THEN Append(h[n], n + 1) ELSE h[n]
    <2>. HIDE DEF n
    <2>. QED  BY <1>1, <1>2, <1>4 DEF EndRows
<1>. QED  BY <1>1, <1>3, <1>4, <1>5, <1>6 DEF more

\* They are newlines, and none comes after the last of them.
LEMMA EndsAre ==
    ASSUME NEW bytes \in Seq(Bytes)
    PROVE  /\ Ends(bytes) \in Seq(1 .. Len(bytes))
           /\ Ends(bytes) # <<>> => bytes[Last(Ends(bytes))] = LF
           /\ \A j \in 1 .. Len(bytes) :
                 bytes[j] = LF => Ends(bytes) # <<>> /\ j <= Last(Ends(bytes))
<1>1. PICK h : EndRows(bytes, h) /\ Ends(bytes) = h[Len(bytes)]
    BY EndsSteps
<1>. DEFINE n == Len(bytes)
            Good(k) == /\ h[k] \in Seq(1 .. k)
                       /\ h[k] # <<>> => bytes[Last(h[k])] = LF
                       /\ \A j \in 1 .. k : bytes[j] = LF => h[k] # <<>> /\ j <= Last(h[k])
            T == {k \in Nat : k <= n => Good(k)}
<1>2. n \in Nat /\ h[0] = <<>>
    BY <1>1 DEF EndRows
<1>3. Good(0)
    BY <1>2
<1>4. ASSUME NEW k \in Nat, k + 1 <= n, Good(k) PROVE Good(k + 1)
    <2>1. k + 1 \in 1 .. n /\ (k + 1) - 1 = k /\ k \in 1 .. k + 1 \cup {0}
        BY <1>2, <1>4
    <2>2. h[k + 1] = IF bytes[k + 1] = LF THEN Append(h[k], k + 1) ELSE h[k]
        <3>. HIDE DEF Good
        <3>. QED  BY <1>1, <2>1 DEF EndRows
    <2>3. h[k] \in Seq(1 .. k + 1)
        <3>1. \A i \in 1 .. Len(h[k]) : h[k][i] \in 1 .. k + 1
            BY <1>4
        <3>. QED  BY <1>4, <3>1
    <2>4. CASE bytes[k + 1] = LF
        <3>1. h[k + 1] \in Seq(1 .. k + 1) /\ h[k + 1] # <<>> /\ Last(h[k + 1]) = k + 1
            <4>1. \A X : \A s \in Seq(X) : \A x \in X :
                     /\ Append(s, x) \in Seq(X) /\ Append(s, x) # <<>>
                     /\ Last(Append(s, x)) = x
                BY DEF Last
            <4>2. k + 1 \in 1 .. k + 1
                OBVIOUS
            <4>. QED  BY <2>2, <2>3, <2>4, <4>1, <4>2
        <3>. QED  BY <2>4, <3>1
    <2>5. CASE bytes[k + 1] # LF
        <3>1. h[k + 1] = h[k]
            BY <2>2, <2>5
        <3>2. \A j \in 1 .. k + 1 : bytes[j] = LF => j \in 1 .. k
            BY <2>5
        <3>. QED  BY <1>4, <2>3, <3>1, <3>2
    <2>. QED  BY <2>4, <2>5
<1>5. T = Nat
    <2>. HIDE DEF Good
    <2>1. T \in SUBSET Nat /\ 0 \in T
        BY <1>3
    <2>2. ASSUME NEW k \in T PROVE k + 1 \in T
        <3>1. k \in Nat /\ (k <= n => Good(k)) /\ (k + 1 <= n => k <= n)
            BY <1>2
        <3>. QED  BY <1>4, <3>1
    <2>. HIDE DEF T
    <2>. QED  BY <2>1, <2>2, NumbersFromZero
<1>6. Good(n)
    <2>. HIDE DEF Good
    <2>. QED  BY <1>2, <1>5
<1>. QED  BY <1>1, <1>6

\* Where the bytes after the last line begin.
RestFrom(bytes) == IF Ends(bytes) = <<>> THEN 1 ELSE Last(Ends(bytes)) + 1

LEMMA RestIs ==
    ASSUME NEW bytes \in Seq(Bytes)
    PROVE  /\ RestFrom(bytes) \in 1 .. Len(bytes) + 1
           /\ RestOf(bytes) = SubSeq(bytes, RestFrom(bytes), Len(bytes))
           /\ RestOf(bytes) \in Seq(Bytes)
           /\ Len(RestOf(bytes)) = Len(bytes) + 1 - RestFrom(bytes)
           /\ RestFrom(bytes) = 1 \/ bytes[RestFrom(bytes) - 1] = LF
           /\ \A k \in RestFrom(bytes) .. Len(bytes) : bytes[k] # LF
<1>. DEFINE n == Len(bytes)
            s == RestFrom(bytes)
            ends == Ends(bytes)
<1>1. /\ n \in Nat /\ ends \in Seq(1 .. n)
      /\ ends # <<>> => bytes[Last(ends)] = LF
      /\ \A j \in 1 .. n : bytes[j] = LF => ends # <<>> /\ j <= Last(ends)
    BY EndsAre
<1>2. CASE ends = <<>>
    <2>1. s = 1 /\ RestOf(bytes) = bytes
        BY <1>2 DEF RestFrom, RestOf
    <2>2. SubSeq(bytes, 1, n) = bytes
        BY <1>1
    <2>. HIDE DEF s, ends
    <2>. QED  BY <1>1, <1>2, <2>1, <2>2 DEF s
<1>3. CASE ends # <<>>
    <2>1. Last(ends) \in 1 .. n
        <3>. HIDE DEF n, ends
        <3>. QED  BY <1>1, <1>3 DEF Last
    <2>2. s = Last(ends) + 1 /\ RestOf(bytes) = SubSeq(bytes, Last(ends) + 1, n)
        BY <1>3 DEF RestFrom, RestOf
    <2>. HIDE DEF s, ends
    <2>3. s \in 1 .. n + 1 /\ s - 1 = Last(ends) /\ RestOf(bytes) = SubSeq(bytes, s, n)
        BY <1>1, <2>1, <2>2
    <2>4. SubSeq(bytes, s, n) \in Seq(Bytes) /\ Len(SubSeq(bytes, s, n)) = n + 1 - s
        BY <2>3
    <2>5. \A k \in s .. n : bytes[k] # LF
        <3>1. \A k \in s .. n : k \in 1 .. n /\ ~ k <= Last(ends)
            BY <1>1, <2>1, <2>3
        <3>. QED  BY <1>1, <3>1
    <2>. QED  BY <1>1, <1>3, <2>3, <2>4, <2>5 DEF s
<1>. QED  BY <1>2, <1>3

\* A newline makes a line of the rest, any other byte is added to it.
LEMMA RestAppend ==
    ASSUME NEW bytes \in Seq(Bytes), NEW b \in Bytes
    PROVE  RestOf(Append(bytes, b)) = IF b = LF THEN <<>> ELSE Append(RestOf(bytes), b)
<1>. DEFINE more == Append(bytes, b)
            n == Len(bytes)
<1>1. more \in Seq(Bytes) /\ Len(more) = n + 1 /\ n \in Nat
    OBVIOUS
<1>2. CASE b = LF
    <2>1. RestFrom(more) = n + 2
        <3>1. Ends(more) = Append(Ends(bytes), n + 1)
            BY <1>2, EndsAppend
        <3>2. Ends(bytes) \in Seq(1 .. n)
            BY EndsAre
        <3>3. Append(Ends(bytes), n + 1) # <<>> /\ Last(Append(Ends(bytes), n + 1)) = n + 1
            <4>. DEFINE e == Ends(bytes)
            <4>. HIDE DEF e
            <4>1. e \in Seq(1 .. n) /\ n + 1 \in Nat
                BY <1>1, <3>2 DEF e
            <4>2. Append(e, n + 1)[Len(e) + 1] = n + 1 /\ Len(Append(e, n + 1)) = Len(e) + 1
                BY ONLY <4>1
            <4>. QED  BY <4>1, <4>2 DEF Last, e
        <3>. HIDE DEF more
        <3>. QED  BY <1>1, <3>1, <3>3 DEF RestFrom
    <2>2. RestOf(more) \in Seq(Bytes) /\ Len(RestOf(more)) = n + 1 + 1 - (n + 2)
        BY <1>1, <2>1, RestIs
    <2>3. Len(RestOf(more)) = 0
        BY <1>1, <2>2
    <2>. QED  BY <1>2, <2>2, <2>3
<1>3. CASE b # LF
    <2>1. RestFrom(more) = RestFrom(bytes)
        BY <1>3, EndsAppend DEF RestFrom
    <2>. DEFINE s == RestFrom(bytes)
    <2>2. s \in 1 .. n + 1 /\ RestOf(bytes) = SubSeq(bytes, s, n)
        BY RestIs
    <2>3. RestOf(more) = SubSeq(more, s, n + 1)
        BY <1>1, <2>1, RestIs
    <2>. HIDE DEF s
    <2>4. SubSeq(more, s, n + 1) = Append(SubSeq(bytes, s, n), b)
        BY <1>1, <2>2
    <2>. QED  BY <1>3, <2>2, <2>3, <2>4
<1>. QED  BY <1>2, <1>3

\* A line of some bytes, with its newline, and the line of more bytes.
RawLine(bytes, ends, m) == SubSeq(bytes, IF m = 1 THEN 1 ELSE ends[m - 1] + 1, ends[m])

LEMMA RawLineIs ==
    ASSUME NEW bytes \in Seq(Bytes), NEW ends \in Seq(1 .. Len(bytes)), NEW m \in DOMAIN ends
    PROVE  /\ RawLine(bytes, ends, m) \in Seq(Bytes)
           /\ \A b \in Bytes : RawLine(Append(bytes, b), ends, m) = RawLine(bytes, ends, m)
<1>. DEFINE n == Len(bytes)
            s == IF m = 1 THEN 1 ELSE ends[m - 1] + 1
            e == ends[m]
<1>1. n \in Nat /\ s \in 1 .. n + 1 /\ e \in 1 .. n
    <2>1. n \in Nat /\ e \in 1 .. n /\ m \in 1 .. Len(ends) /\ Len(ends) \in Nat
        OBVIOUS
    <2>2. m # 1 => m - 1 \in DOMAIN ends
        BY <2>1
    <2>3. m # 1 => ends[m - 1] \in 1 .. n
        BY <2>2
    <2>. QED  BY <2>1, <2>3
<1>. HIDE DEF s, e
<1>2. SubSeq(bytes, s, e) \in Seq(Bytes)
    BY <1>1
<1>3. \A b \in Bytes : SubSeq(Append(bytes, b), s, e) = SubSeq(bytes, s, e)
    BY <1>1
<1>. QED  BY <1>2, <1>3 DEF RawLine, s, e

LEMMA LinesAre ==
    ASSUME NEW bytes \in Seq(Bytes)
    PROVE  /\ LinesOf(bytes) \in Seq(Seq(Bytes)) /\ Len(LinesOf(bytes)) = Len(Ends(bytes))
           /\ \A m \in DOMAIN Ends(bytes) :
                 LinesOf(bytes)[m] = Strip(RawLine(bytes, Ends(bytes), m))
<1>. DEFINE ends == Ends(bytes)
<1>1. ends \in Seq(1 .. Len(bytes)) /\ Len(ends) \in Nat /\ DOMAIN ends = 1 .. Len(ends)
    BY EndsAre
<1>2. LinesOf(bytes) = [m \in DOMAIN ends |-> Strip(RawLine(bytes, ends, m))]
    BY DEF LinesOf, RawLine
<1>. HIDE DEF ends
<1>3. \A m \in DOMAIN ends : Strip(RawLine(bytes, ends, m)) \in Seq(Bytes)
    BY <1>1, RawLineIs, StripType
<1>. QED  BY <1>1, <1>2, <1>3 DEF ends

LEMMA LinesAppend ==
    ASSUME NEW bytes \in Seq(Bytes), NEW b \in Bytes
    PROVE  LinesOf(Append(bytes, b)) =
              IF b = LF THEN Append(LinesOf(bytes), Strip(Append(RestOf(bytes), b)))
              ELSE LinesOf(bytes)
<1>. DEFINE more == Append(bytes, b)
            n == Len(bytes)
            ends == Ends(bytes)
            c == Len(ends)
<1>1. /\ more \in Seq(Bytes) /\ Len(more) = n + 1 /\ n \in Nat
    OBVIOUS
<1>2. ends \in Seq(1 .. n) /\ c \in Nat /\ DOMAIN ends = 1 .. c
    BY EndsAre
<1>3. LinesOf(bytes) \in Seq(Seq(Bytes)) /\ Len(LinesOf(bytes)) = c
      /\ \A m \in 1 .. c : LinesOf(bytes)[m] = Strip(RawLine(bytes, ends, m))
    BY <1>2, LinesAre
<1>4. \A m \in 1 .. c : RawLine(more, ends, m) = RawLine(bytes, ends, m)
    BY <1>2, RawLineIs
<1>5. CASE b # LF
    <2>1. Ends(more) = ends
        BY <1>5, EndsAppend
    <2>2. /\ LinesOf(more) \in Seq(Seq(Bytes)) /\ Len(LinesOf(more)) = c
          /\ \A m \in 1 .. c : LinesOf(more)[m] = Strip(RawLine(more, ends, m))
        <3>. HIDE DEF more
        <3>. QED  BY <1>1, <1>2, <2>1, LinesAre
    <2>3. LinesOf(more) = LinesOf(bytes)
        <3>. HIDE DEF more, ends, c
        <3>1. \A m \in 1 .. c : LinesOf(more)[m] = LinesOf(bytes)[m]
            BY <1>3, <1>4, <2>2
        <3>2. /\ LinesOf(more) = [m \in 1 .. c |-> LinesOf(more)[m]]
              /\ LinesOf(bytes) = [m \in 1 .. c |-> LinesOf(bytes)[m]]
            <4>1. \A X : \A s \in Seq(X) : s = [m \in 1 .. Len(s) |-> s[m]]
                OBVIOUS
            <4>. QED  BY <1>3, <2>2, <4>1
        <3>. QED  BY <3>1, <3>2
    <2>. QED  BY <1>5, <2>3
<1>6. CASE b = LF
    <2>. DEFINE last == Strip(Append(RestOf(bytes), b))
    <2>1. Ends(more) = Append(ends, n + 1)
        BY <1>6, EndsAppend
    <2>2. /\ Len(Ends(more)) = c + 1 /\ DOMAIN Ends(more) = 1 .. c + 1
          /\ \A m \in 1 .. c : Ends(more)[m] = ends[m]
          /\ Ends(more)[c + 1] = n + 1
        <3>. HIDE DEF more, n
        <3>. QED  BY <1>1, <1>2, <2>1
    <2>3. /\ LinesOf(more) \in Seq(Seq(Bytes)) /\ Len(LinesOf(more)) = c + 1
          /\ \A m \in 1 .. c + 1 : LinesOf(more)[m] = Strip(RawLine(more, Ends(more), m))
        <3>. HIDE DEF more
        <3>. QED  BY <1>1, <2>2, LinesAre
    <2>4. ASSUME NEW m \in 1 .. c PROVE LinesOf(more)[m] = LinesOf(bytes)[m]
        <3>1. m \in 1 .. c + 1 /\ (m # 1 => m - 1 \in 1 .. c)
            BY <1>2
        <3>2. RawLine(more, Ends(more), m) = RawLine(more, ends, m)
            <4>. HIDE DEF more, ends, c
            <4>. QED  BY <2>2, <3>1 DEF RawLine
        <3>. HIDE DEF more, ends, c
        <3>. QED  BY <1>3, <1>4, <2>3, <3>1, <3>2
    <2>5. LinesOf(more)[c + 1] = last
        <3>1. RawLine(more, Ends(more), c + 1) = SubSeq(more, RestFrom(bytes), n + 1)
            <4>1. c + 1 # 1 <=> ends # <<>>
                BY <1>2
            <4>2. c + 1 # 1 => (c + 1) - 1 \in 1 .. c /\ (c + 1) - 1 = c
                BY <1>2
            <4>3. Last(ends) = ends[c]
                BY DEF Last
            <4>. HIDE DEF more, ends, c
            <4>. QED  BY <2>2, <4>1, <4>2, <4>3 DEF RawLine, RestFrom, ends
        <3>. DEFINE s == RestFrom(bytes)
        <3>2. s \in 1 .. n + 1 /\ RestOf(bytes) = SubSeq(bytes, s, n)
            BY RestIs
        <3>. HIDE DEF s
        <3>3. SubSeq(more, s, n + 1) = Append(SubSeq(bytes, s, n), b)
            BY <1>1, <3>2
        <3>4. RawLine(more, Ends(more), c + 1) = Append(RestOf(bytes), b)
            BY <3>1, <3>2, <3>3 DEF s
        <3>5. c + 1 \in 1 .. c + 1
            BY <1>2
        <3>. QED  BY <2>3, <3>4, <3>5
    <2>6. last \in Seq(Bytes)
        <3>1. RestOf(bytes) \in Seq(Bytes)
            BY RestIs
        <3>2. Append(RestOf(bytes), b) \in Seq(Bytes)
            BY <3>1
        <3>. QED  BY <3>2, StripType
    <2>. HIDE DEF more, ends, c, last
    <2>7. LinesOf(more) = Append(LinesOf(bytes), last)
        BY <1>2, <1>3, <2>3, <2>4, <2>5, <2>6
    <2>. QED  BY <1>6, <2>7 DEF more, last
<1>. QED  BY <1>5, <1>6

LEMMA NothingYet == LinesOf(<<>>) = <<>> /\ RestOf(<<>>) = <<>>
BY EndsEmpty DEF LinesOf, RestOf

\* A line is too long as soon as the rest is, with the byte that comes.
LEMMA TooLongAppend ==
    ASSUME NEW bytes \in Seq(Bytes), NEW b \in Bytes
    PROVE  TooLong(Append(bytes, b)) <=> TooLong(bytes) \/ Len(RestOf(bytes)) + 1 > Cap
<1>. DEFINE more == Append(bytes, b)
            n == Len(bytes)
            s == RestFrom(bytes)
<1>0. Cap \in Nat /\ Cap # 0
    BY CapAssumption
<1>1. /\ n \in Nat /\ DOMAIN bytes = 1 .. n /\ DOMAIN more = 1 .. n + 1
      /\ \A k \in 1 .. n : more[k] = bytes[k]
    OBVIOUS
<1>2. /\ s \in 1 .. n + 1 /\ Len(RestOf(bytes)) = n + 1 - s
      /\ s = 1 \/ bytes[s - 1] = LF
      /\ \A k \in s .. n : bytes[k] # LF
    BY RestIs
<1>. HIDE DEF more, n, s
<1>3. ASSUME TooLong(bytes) PROVE TooLong(more)
    <2>1. PICK i \in 1 .. n, j \in 1 .. n :
             /\ j - i >= Cap /\ \A k \in i .. j - 1 : bytes[k] # LF
             /\ i = 1 \/ bytes[i - 1] = LF
        BY <1>1, <1>3 DEF TooLong
    <2>2. i \in 1 .. n + 1 /\ j \in 1 .. n + 1 /\ (i # 1 => i - 1 \in 1 .. n)
          /\ \A k \in i .. j - 1 : k \in 1 .. n
        BY <1>1
    <2>3. (\A k \in i .. j - 1 : more[k] # LF) /\ (i = 1 \/ more[i - 1] = LF)
        BY <1>1, <2>1, <2>2
    <2>. QED  BY <1>1, <2>1, <2>2, <2>3 DEF TooLong
<1>4. ASSUME n + 1 - s + 1 > Cap PROVE TooLong(more)
    <2>1. s \in 1 .. n + 1 /\ n + 1 \in 1 .. n + 1 /\ (n + 1) - s >= Cap
        BY <1>0, <1>1, <1>2, <1>4
    <2>2. (\A k \in s .. (n + 1) - 1 : more[k] # LF) /\ (s = 1 \/ more[s - 1] = LF)
        <3>1. (s # 1 => s - 1 \in 1 .. n) /\ \A k \in s .. (n + 1) - 1 : k \in 1 .. n /\ k \in s .. n
            BY <1>1, <1>2
        <3>. QED  BY <1>1, <1>2, <3>1
    <2>. QED  BY <1>1, <2>1, <2>2 DEF TooLong
<1>5. ASSUME TooLong(more) PROVE TooLong(bytes) \/ n + 1 - s + 1 > Cap
    <2>1. PICK i \in 1 .. n + 1, j \in 1 .. n + 1 :
             /\ j - i >= Cap /\ \A k \in i .. j - 1 : more[k] # LF
             /\ i = 1 \/ more[i - 1] = LF
        BY <1>1, <1>5 DEF TooLong
    <2>2. i \in 1 .. n /\ (i # 1 => i - 1 \in 1 .. n)
          /\ \A k \in i .. j - 1 : k \in 1 .. n
        BY <1>0, <1>1, <2>1
    <2>3. (\A k \in i .. j - 1 : bytes[k] # LF) /\ (i = 1 \/ bytes[i - 1] = LF)
        BY <1>1, <2>1, <2>2
    <2>4. CASE j \in 1 .. n
        BY <1>1, <2>1, <2>2, <2>3, <2>4 DEF TooLong
    <2>5. CASE j = n + 1
        <3>1. ~ i < s
            <4>1. SUFFICES ASSUME i < s PROVE FALSE
                OBVIOUS
            <4>2. s # 1 /\ s - 1 \in i .. j - 1
                BY <1>1, <1>2, <2>2, <2>5, <4>1
            <4>. QED  BY <1>2, <2>3, <4>2
        <3>2. ~ i > s
            <4>1. SUFFICES ASSUME i > s PROVE FALSE
                OBVIOUS
            <4>2. i # 1 /\ i - 1 \in s .. n
                BY <1>1, <1>2, <2>2, <4>1
            <4>. QED  BY <1>2, <2>3, <4>2
        <3>3. i = s
            BY <1>1, <1>2, <2>2, <3>1, <3>2
        <3>. QED  BY <1>0, <1>1, <1>2, <2>1, <2>5, <3>3
    <2>. QED  BY <1>1, <2>1, <2>4, <2>5
<1>. QED  BY <1>2, <1>3, <1>4, <1>5 DEF more

LEMMA NothingTooLong == ~ TooLong(<<>>)
BY DEF TooLong

-----------------------------------------------------------------------------
(* BridgeFraming: the line reader.                                         *)

\* What the line reader is when it was given some bytes.
ReaderIs(r, bytes) ==
    /\ r \in Readers /\ (r.refused <=> TooLong(bytes))
    /\ ~ r.refused => r.lines = LinesOf(bytes) /\ r.buffer = RestOf(bytes)

LEMMA ReadByteReads ==
    ASSUME NEW bytes \in Seq(Bytes), NEW b \in Bytes, NEW r, ReaderIs(r, bytes)
    PROVE  ReaderIs(ReadByte(r, b), Append(bytes, b))
<1>. DEFINE more == Append(bytes, b)
            rest == RestOf(bytes)
            line == Append(r.buffer, b)
            lines == Append(r.lines, Strip(line))
<1>1. /\ RestOf(more) = IF b = LF THEN <<>> ELSE Append(rest, b)
      /\ LinesOf(more) = IF b = LF THEN Append(LinesOf(bytes), Strip(Append(rest, b)))
                         ELSE LinesOf(bytes)
      /\ TooLong(more) <=> TooLong(bytes) \/ Len(rest) + 1 > Cap
      /\ TooLong(more) \in BOOLEAN
    BY RestAppend, LinesAppend, TooLongAppend DEF TooLong
<1>2. ReadByte(r, b) \in Readers /\ r \in Readers
    BY ReadByteType DEF ReaderIs
<1>3. CASE r.refused
    <2>1. ReadByte(r, b) = r
        BY <1>3 DEF ReadByte
    <2>. QED  BY <1>1, <1>2, <1>3, <2>1 DEF ReaderIs
<1>4. CASE ~ r.refused
    <2>1. r.lines = LinesOf(bytes) /\ r.buffer = rest /\ ~ TooLong(bytes)
        BY <1>4 DEF ReaderIs
    <2>2. Len(line) = Len(rest) + 1
        BY <1>2, <2>1 DEF Readers
    <2>3. ReadByte(r, b) = IF Len(line) > Cap THEN [r EXCEPT !.refused = TRUE]
                           ELSE IF b = LF THEN [r EXCEPT !.buffer = <<>>, !.lines = lines]
                           ELSE [r EXCEPT !.buffer = line]
        BY <1>4 DEF ReadByte
    <2>. HIDE DEF more, rest
    <2>4. line = Append(rest, b) /\ lines = Append(LinesOf(bytes), Strip(Append(rest, b)))
        BY <2>1
    <2>. HIDE DEF line, lines
    <2>5. CASE Len(line) > Cap
        <3>1. ReadByte(r, b).refused = TRUE
            BY <1>2, <2>3, <2>5 DEF Readers
        <3>. QED  BY <1>1, <1>2, <2>2, <2>5, <3>1 DEF ReaderIs, more
    <2>6. CASE ~ Len(line) > Cap /\ b = LF
        <3>1. /\ ReadByte(r, b).refused = FALSE /\ ReadByte(r, b).buffer = <<>>
              /\ ReadByte(r, b).lines = lines
            BY <1>2, <1>4, <2>3, <2>6 DEF Readers
        <3>. QED  BY <1>1, <1>2, <2>1, <2>2, <2>4, <2>6, <3>1 DEF ReaderIs, more
    <2>7. CASE ~ Len(line) > Cap /\ b # LF
        <3>1. /\ ReadByte(r, b).refused = FALSE /\ ReadByte(r, b).buffer = line
              /\ ReadByte(r, b).lines = r.lines
            BY <1>2, <1>4, <2>3, <2>7 DEF Readers
        <3>. QED  BY <1>1, <1>2, <2>1, <2>2, <2>4, <2>7, <3>1 DEF ReaderIs, more
    <2>. QED  BY <2>5, <2>6, <2>7
<1>. QED  BY <1>3, <1>4

\* The first bytes of a chunk, and the bytes before it with them.
First(chunk, k) == SubSeq(chunk, 1, k)

LEMMA FirstIs ==
    ASSUME NEW a \in Seq(Bytes), NEW chunk \in Seq(Bytes)
    PROVE  /\ Len(chunk) \in Nat /\ First(chunk, 0) = <<>> /\ First(chunk, Len(chunk)) = chunk
           /\ a \o First(chunk, 0) = a /\ a \o chunk \in Seq(Bytes)
           /\ \A k \in 0 .. Len(chunk) :
                 /\ First(chunk, k) \in Seq(Bytes) /\ Len(First(chunk, k)) = k
                 /\ a \o First(chunk, k) \in Seq(Bytes)
           /\ \A k \in 0 .. Len(chunk) : k + 1 <= Len(chunk) =>
                 /\ chunk[k + 1] \in Bytes
                 /\ a \o First(chunk, k + 1) = Append(a \o First(chunk, k), chunk[k + 1])
<1>. DEFINE n == Len(chunk)
<1>1. n \in Nat /\ First(chunk, 0) = <<>> /\ First(chunk, n) = chunk
    BY DEF First
<1>2. a \o First(chunk, 0) = a /\ a \o chunk \in Seq(Bytes)
    BY <1>1
<1>3. ASSUME NEW k \in 0 .. n
      PROVE  /\ First(chunk, k) \in Seq(Bytes) /\ Len(First(chunk, k)) = k
             /\ a \o First(chunk, k) \in Seq(Bytes)
    <2>1. First(chunk, k) \in Seq(Bytes) /\ Len(First(chunk, k)) = k
        BY DEF First
    <2>. QED  BY <2>1
<1>4. ASSUME NEW k \in 0 .. n, k + 1 <= n
      PROVE  /\ chunk[k + 1] \in Bytes
             /\ a \o First(chunk, k + 1) = Append(a \o First(chunk, k), chunk[k + 1])
    <2>1. k + 1 \in 1 .. n /\ k + 1 \in 0 .. n
        BY <1>4
    <2>2. chunk[k + 1] \in Bytes
        BY <2>1
    <2>3. First(chunk, k + 1) = Append(First(chunk, k), chunk[k + 1])
        BY <2>1 DEF First
    <2>4. \A s \in Seq(Bytes), b \in Bytes : a \o Append(s, b) = Append(a \o s, b)
        OBVIOUS
    <2>. QED  BY <1>3, <2>2, <2>3, <2>4
<1>. QED  BY <1>1, <1>2, <1>3, <1>4

LEMMA ReadChunkReads ==
    ASSUME NEW bytes \in Seq(Bytes), NEW chunk \in Seq(Bytes), NEW r, ReaderIs(r, bytes)
    PROVE  ReaderIs(FoldLeft(ReadByte, r, chunk), bytes \o chunk)
<1>0. r \in Readers
    BY DEF ReaderIs
<1>. DEFINE n == Len(chunk)
<1>1. PICK h : ReadRows(r, chunk, h) /\ FoldLeft(ReadByte, r, chunk) = h[n]
    BY <1>0, ReadSteps
<1>. DEFINE Good(k) == ReaderIs(h[k], bytes \o First(chunk, k))
            T == {k \in Nat : k <= n => Good(k)}
<1>2. n \in Nat
    OBVIOUS
<1>3. Good(0)
    <2>1. h[0] = r /\ bytes \o First(chunk, 0) = bytes
        BY <1>1, FirstIs DEF ReadRows
    <2>. QED  BY <2>1
<1>4. ASSUME NEW k \in Nat, k + 1 <= n, Good(k) PROVE Good(k + 1)
    <2>1. k + 1 \in 1 .. n /\ (k + 1) - 1 = k /\ k \in 0 .. n
        BY <1>2, <1>4
    <2>2. h[k + 1] = ReadByte(h[k], chunk[k + 1])
        <3>. HIDE DEF Good
        <3>. QED  BY <1>1, <2>1 DEF ReadRows
    <2>3. /\ chunk[k + 1] \in Bytes /\ bytes \o First(chunk, k) \in Seq(Bytes)
          /\ bytes \o First(chunk, k + 1) = Append(bytes \o First(chunk, k), chunk[k + 1])
        BY <1>4, <2>1, FirstIs
    <2>. QED  BY <1>4, <2>2, <2>3, ReadByteReads
<1>5. T = Nat
    <2>. HIDE DEF Good
    <2>1. T \in SUBSET Nat /\ 0 \in T
        BY <1>3
    <2>2. ASSUME NEW k \in T PROVE k + 1 \in T
        <3>1. k \in Nat /\ (k <= n => Good(k)) /\ (k + 1 <= n => k <= n)
            BY <1>2
        <3>. QED  BY <1>4, <3>1
    <2>. HIDE DEF T
    <2>. QED  BY <2>1, <2>2, NumbersFromZero
<1>6. Good(n)
    <2>. HIDE DEF Good
    <2>. QED  BY <1>2, <1>5
<1>7. First(chunk, n) = chunk
    BY FirstIs
<1>. QED  BY <1>1, <1>6, <1>7

-----------------------------------------------------------------------------
(* BridgeFraming: the decoder.                                             *)

\* A list may be appended to before or after it is put behind another.
AppendsLast(s, t, x) == Append(s \o t, x) = s \o Append(t, x)

LEMMA ConcatAppend ==
    ASSUME NEW X, NEW s \in Seq(X), NEW t \in Seq(X), NEW x \in X
    PROVE  AppendsLast(s, t, x)
BY DEF AppendsLast

\* A chunk adds the lines that end in it to those before, and what is left is
\* what is left of the rest before and the chunk.
LEMMA ChunkAdds ==
    ASSUME NEW bytes \in Seq(Bytes), NEW chunk \in Seq(Bytes)
    PROVE  /\ LinesOf(bytes \o chunk) = LinesOf(bytes) \o LinesOf(RestOf(bytes) \o chunk)
           /\ RestOf(bytes \o chunk) = RestOf(RestOf(bytes) \o chunk)
           /\ TooLong(bytes \o chunk)
                 => TooLong(bytes) \/ Len(RestOf(bytes)) + Len(chunk) > Cap
<1>. DEFINE n == Len(chunk)
            rest == RestOf(bytes)
            All(k) == bytes \o First(chunk, k)
            New(k) == rest \o First(chunk, k)
            Good(k) == /\ LinesOf(All(k)) = LinesOf(bytes) \o LinesOf(New(k))
                       /\ RestOf(All(k)) = RestOf(New(k))
                       /\ Len(RestOf(New(k))) <= Len(rest) + k
                       /\ TooLong(All(k)) => TooLong(bytes) \/ Len(rest) + k > Cap
            T == {k \in Nat : k <= n => Good(k)}
<1>1. rest \in Seq(Bytes) /\ Len(rest) \in Nat
    BY RestIs
<1>2. n \in Nat /\ First(chunk, n) = chunk /\ All(0) = bytes /\ New(0) = rest
    BY <1>1, FirstIs
<1>3. Good(0)
    <2>1. Ends(rest) = <<>>
        <3>1. Ends(rest) \in Seq(1 .. Len(rest))
              /\ (Ends(rest) # <<>> => rest[Last(Ends(rest))] = LF)
            BY <1>1, EndsAre
        <3>2. \A j \in 1 .. Len(rest) : rest[j] # LF
            <4>. DEFINE s == RestFrom(bytes)
            <4>1. /\ s \in 1 .. Len(bytes) + 1 /\ rest = SubSeq(bytes, s, Len(bytes))
                  /\ Len(rest) = Len(bytes) + 1 - s
                  /\ \A k \in s .. Len(bytes) : bytes[k] # LF
                <5>. HIDE DEF s, rest
                <5>. QED  BY RestIs DEF s, rest
            <4>. HIDE DEF s, rest
            <4>2. ASSUME NEW j \in 1 .. Len(rest)
                  PROVE  rest[j] = bytes[s + j - 1] /\ s + j - 1 \in s .. Len(bytes)
                BY <4>1
            <4>. QED  BY <4>1, <4>2
        <3>3. Ends(rest) # <<>> => Last(Ends(rest)) \in 1 .. Len(rest)
            <4>. HIDE DEF rest
            <4>1. \A X : \A s \in Seq(X) : s # <<>> => Last(s) \in X
                BY DEF Last
            <4>. QED  BY <3>1, <4>1
        <3>. QED  BY <3>1, <3>2, <3>3
    <2>2. LinesOf(rest) = <<>> /\ RestOf(rest) = rest
        BY <2>1 DEF LinesOf, RestOf
    <2>3. LinesOf(bytes) \o <<>> = LinesOf(bytes)
        BY LinesAre
    <2>4. LinesOf(All(0)) = LinesOf(bytes) \o LinesOf(New(0)) /\ RestOf(All(0)) = RestOf(New(0))
        <3>. HIDE DEF All, New
        <3>. QED  BY <1>2, <2>2, <2>3
    <2>5. Len(RestOf(New(0))) <= Len(rest) + 0
        <3>1. Len(RestOf(New(0))) = Len(rest)
            <4>. HIDE DEF New
            <4>. QED  BY <1>2, <2>2
        <3>. QED  BY ONLY <1>1, <3>1
    <2>6. TooLong(All(0)) => TooLong(bytes)
        <3>. HIDE DEF All
        <3>. QED  BY <1>2
    <2>. QED  BY <2>4, <2>5, <2>6
<1>4. ASSUME NEW k \in Nat, k + 1 <= n, Good(k) PROVE Good(k + 1)
    <2>. DEFINE b == chunk[k + 1]
    <2>1. k \in 0 .. n
        BY <1>2, <1>4
    <2>2. /\ b \in Bytes /\ All(k) \in Seq(Bytes) /\ New(k) \in Seq(Bytes)
          /\ All(k + 1) = Append(All(k), b) /\ New(k + 1) = Append(New(k), b)
        <3>1. k + 1 <= n
            BY <1>4
        <3>2. /\ b \in Bytes /\ All(k) \in Seq(Bytes) /\ All(k + 1) = Append(All(k), b)
            BY <2>1, <3>1, FirstIs
        <3>3. /\ New(k) \in Seq(Bytes) /\ New(k + 1) = Append(New(k), b)
            <4>. HIDE DEF rest
            <4>. QED  BY <1>1, <2>1, <3>1, FirstIs
        <3>. QED  BY <3>2, <3>3
    <2>. HIDE DEF b, All, New, rest
    <2>3. /\ RestOf(All(k + 1)) = IF b = LF THEN <<>> ELSE Append(RestOf(All(k)), b)
          /\ RestOf(New(k + 1)) = IF b = LF THEN <<>> ELSE Append(RestOf(New(k)), b)
        BY <2>2, RestAppend
    <2>4. /\ LinesOf(All(k + 1)) = IF b = LF THEN Append(LinesOf(All(k)),
                                                     Strip(Append(RestOf(All(k)), b)))
                                   ELSE LinesOf(All(k))
          /\ LinesOf(New(k + 1)) = IF b = LF THEN Append(LinesOf(New(k)),
                                                     Strip(Append(RestOf(New(k)), b)))
                                   ELSE LinesOf(New(k))
        BY <2>2, LinesAppend
    <2>5. TooLong(All(k + 1)) <=> TooLong(All(k)) \/ Len(RestOf(All(k))) + 1 > Cap
        BY <2>2, TooLongAppend
    <2>6. RestOf(New(k)) \in Seq(Bytes)
        BY <2>2, RestIs
    <2>7. LinesOf(All(k + 1)) = LinesOf(bytes) \o LinesOf(New(k + 1))
        <3>. DEFINE line == Strip(Append(RestOf(New(k)), b))
        <3>1. Append(RestOf(New(k)), b) \in Seq(Bytes)
            BY <2>2, <2>6
        <3>2. line \in Seq(Bytes)
            BY <3>1, StripType
        <3>3. LinesOf(bytes) \in Seq(Seq(Bytes)) /\ LinesOf(New(k)) \in Seq(Seq(Bytes))
            BY <2>2, LinesAre
        <3>. HIDE DEF line
        <3>5. Append(LinesOf(bytes) \o LinesOf(New(k)), line)
                 = LinesOf(bytes) \o Append(LinesOf(New(k)), line)
            <4>1. AppendsLast(LinesOf(bytes), LinesOf(New(k)), line)
                BY <3>2, <3>3, ConcatAppend
            <4>. QED  BY <4>1 DEF AppendsLast
        <3>. QED  BY <1>4, <2>4, <3>5 DEF line
    <2>8. Len(RestOf(New(k + 1))) <= Len(rest) + (k + 1)
        <3>1. Len(Append(RestOf(New(k)), b)) = Len(RestOf(New(k))) + 1 /\ Len(<<>>) = 0
            BY <2>2, <2>6
        <3>2. Len(RestOf(New(k))) \in Nat /\ Len(RestOf(New(k))) <= Len(rest) + k
            BY <1>4, <2>6
        <3>3. Len(RestOf(New(k + 1))) = 0
              \/ Len(RestOf(New(k + 1))) = Len(RestOf(New(k))) + 1
            BY <2>3, <3>1
        <3>. QED  BY ONLY <1>1, k \in Nat, <3>2, <3>3
    <2>9. TooLong(All(k + 1)) => TooLong(bytes) \/ Len(rest) + (k + 1) > Cap
        <3>1. Len(RestOf(All(k))) \in Nat /\ Len(RestOf(All(k))) <= Len(rest) + k
            BY <1>4, <2>6
        <3>. QED  BY <1>1, <1>4, <2>5, <3>1, CapAssumption
    <2>. QED  BY <1>4, <2>3, <2>7, <2>8, <2>9
<1>5. T = Nat
    <2>. HIDE DEF Good
    <2>1. T \in SUBSET Nat /\ 0 \in T
        BY <1>3
    <2>2. ASSUME NEW k \in T PROVE k + 1 \in T
        <3>1. k \in Nat /\ (k <= n => Good(k)) /\ (k + 1 <= n => k <= n)
            BY <1>2
        <3>. QED  BY <1>4, <3>1
    <2>. HIDE DEF T
    <2>. QED  BY <2>1, <2>2, NumbersFromZero
<1>6. Good(n)
    <2>. HIDE DEF Good
    <2>. QED  BY <1>2, <1>5
<1>. QED  BY <1>2, <1>6

\* The reader of a request body decodes too, until it is done.
BodyReaders == [buffer : Seq(Bytes), lines : Seq(Seq(Bytes)), refused : BOOLEAN, done : BOOLEAN]

LEMMA PushChunkIs ==
    ASSUME NEW d, d \in Readers \/ d \in BodyReaders, NEW chunk \in Seq(Bytes)
    PROVE  LET e == PushChunk(d, chunk)
               bytes == d.buffer \o chunk IN
           /\ d \in Readers => e \in Readers
           /\ d \in BodyReaders => e \in BodyReaders /\ e.done = d.done
           /\ d.refused => e = d
           /\ ~ d.refused /\ Len(bytes) > Cap => e.refused
           /\ ~ d.refused /\ ~ Len(bytes) > Cap =>
                 ~ e.refused /\ e.buffer = RestOf(bytes) /\ e.lines = d.lines \o LinesOf(bytes)
<1>. DEFINE e == PushChunk(d, chunk)
            bytes == d.buffer \o chunk
            rest == RestOf(bytes)
            lines == d.lines \o LinesOf(bytes)
<1>1. d.buffer \in Seq(Bytes) /\ d.lines \in Seq(Seq(Bytes)) /\ d.refused \in BOOLEAN
    BY DEF Readers, BodyReaders
<1>2. bytes \in Seq(Bytes)
    BY <1>1
<1>. HIDE DEF bytes
<1>3. rest \in Seq(Bytes) /\ LinesOf(bytes) \in Seq(Seq(Bytes))
    BY <1>2, RestIs, LinesAre
<1>4. lines \in Seq(Seq(Bytes))
    BY <1>1, <1>3
<1>5. e = IF d.refused THEN d
          ELSE IF Len(bytes) > Cap THEN [d EXCEPT !.refused = TRUE]
          ELSE [d EXCEPT !.buffer = rest, !.lines = lines]
    BY DEF PushChunk, bytes
<1>. HIDE DEF rest, lines, e
<1>6. CASE d.refused
    BY <1>5, <1>6 DEF e, bytes, rest, lines
<1>7. CASE ~ d.refused /\ Len(bytes) > Cap
    <2>1. e = [d EXCEPT !.refused = TRUE]
        BY <1>5, <1>7
    <2>2. /\ d \in Readers => e \in Readers
          /\ d \in BodyReaders => e \in BodyReaders /\ e.done = d.done
        BY <2>1 DEF Readers, BodyReaders
    <2>3. e.refused
        BY <2>1 DEF Readers, BodyReaders
    <2>. QED  BY <1>7, <2>2, <2>3 DEF e, bytes, rest, lines
<1>8. CASE ~ d.refused /\ ~ Len(bytes) > Cap
    <2>1. e = [d EXCEPT !.buffer = rest, !.lines = lines]
        BY <1>5, <1>8
    <2>2. /\ d \in Readers => e \in Readers
          /\ d \in BodyReaders => e \in BodyReaders /\ e.done = d.done
        BY <1>3, <1>4, <2>1 DEF Readers, BodyReaders
    <2>3. ~ e.refused /\ e.buffer = rest /\ e.lines = lines
        BY <1>8, <2>1 DEF Readers, BodyReaders
    <2>. QED  BY <1>8, <2>2, <2>3 DEF e, bytes, rest, lines
<1>. QED  BY <1>6, <1>7, <1>8

\* How much a chunk makes of some bytes, and of what is left of them.
ChunkFits(bytes, chunk) ==
    /\ Len(bytes) \in Nat /\ Len(chunk) \in Nat
    /\ bytes \o chunk \in Seq(Bytes) /\ Len(bytes \o chunk) = Len(bytes) + Len(chunk)
    /\ RestOf(bytes) \in Seq(Bytes) /\ Len(RestOf(bytes)) \in Nat
    /\ Len(RestOf(bytes)) <= Len(bytes)
    /\ RestOf(bytes) \o chunk \in Seq(Bytes)
    /\ Len(RestOf(bytes) \o chunk) = Len(RestOf(bytes)) + Len(chunk)

LEMMA ChunkSizes ==
    ASSUME NEW bytes \in Seq(Bytes), NEW chunk \in Seq(Bytes)
    PROVE  ChunkFits(bytes, chunk)
<1>. DEFINE n == Len(bytes)
            s == RestFrom(bytes)
            rest == RestOf(bytes)
<1>1. n \in Nat
    OBVIOUS
<1>2. rest \in Seq(Bytes) /\ Len(rest) = n + 1 - s /\ s \in 1 .. n + 1
    BY RestIs
<1>3. \A a \in Seq(Bytes) : /\ Len(a) \in Nat /\ a \o chunk \in Seq(Bytes)
                            /\ Len(a \o chunk) = Len(a) + Len(chunk)
    OBVIOUS
<1>. HIDE DEF n, s, rest
<1>4. n + 1 - s \in Nat /\ n + 1 - s <= n
    BY ONLY <1>1, <1>2
<1>. QED  BY <1>2, <1>3, <1>4 DEF ChunkFits, n, rest

\* What the decoder is when it was given some bytes.
DecoderIs(d, bytes) ==
    /\ d \in Readers /\ (TooLong(bytes) => d.refused) /\ (d.refused => Len(bytes) > Cap)
    /\ ~ d.refused => d.lines = LinesOf(bytes) /\ d.buffer = RestOf(bytes)

LEMMA PushChunkDecodes ==
    ASSUME NEW bytes \in Seq(Bytes), NEW chunk \in Seq(Bytes), NEW d, DecoderIs(d, bytes)
    PROVE  DecoderIs(PushChunk(d, chunk), bytes \o chunk)
<1>. DEFINE e == PushChunk(d, chunk)
            more == bytes \o chunk
            rest == RestOf(bytes)
<1>0. d \in Readers /\ d.refused \in BOOLEAN
    BY DEF DecoderIs, Readers
<1>1. /\ e \in Readers /\ (d.refused => e = d)
      /\ ~ d.refused /\ Len(d.buffer \o chunk) > Cap => e.refused
      /\ ~ d.refused /\ ~ Len(d.buffer \o chunk) > Cap =>
            ~ e.refused /\ e.buffer = RestOf(d.buffer \o chunk)
            /\ e.lines = d.lines \o LinesOf(d.buffer \o chunk)
    BY <1>0, PushChunkIs
<1>2. /\ LinesOf(more) = LinesOf(bytes) \o LinesOf(rest \o chunk)
      /\ RestOf(more) = RestOf(rest \o chunk)
      /\ TooLong(more) => TooLong(bytes) \/ Len(rest) + Len(chunk) > Cap
    BY ChunkAdds
<1>3. /\ Len(bytes) \in Nat /\ Len(more) = Len(bytes) + Len(chunk) /\ Len(chunk) \in Nat
      /\ Len(rest) \in Nat /\ Len(rest) <= Len(bytes)
      /\ Len(rest \o chunk) = Len(rest) + Len(chunk)
    <2>1. ChunkFits(bytes, chunk)
        BY ChunkSizes
    <2>. QED  BY ONLY <2>1 DEF ChunkFits, more, rest
<1>. HIDE DEF e, more, rest
<1>4. CASE d.refused
    <2>1. e = d
        BY <1>1, <1>4
    <2>2. Len(bytes) > Cap
        BY <1>4 DEF DecoderIs
    <2>3. Len(more) > Cap
        BY <1>3, <2>2, CapAssumption
    <2>. QED  BY <1>1, <1>4, <2>1, <2>3 DEF DecoderIs, e, more
<1>5. CASE ~ d.refused
    <2>1. d.lines = LinesOf(bytes) /\ d.buffer = rest /\ ~ TooLong(bytes)
        BY <1>5 DEF DecoderIs, rest
    <2>2. CASE Len(rest \o chunk) > Cap
        <3>1. e.refused
            BY <1>1, <1>5, <2>1, <2>2
        <3>2. Len(more) > Cap
            BY <1>3, <2>2, CapAssumption
        <3>. QED  BY <1>1, <3>1, <3>2 DEF DecoderIs, e, more
    <2>3. CASE ~ Len(rest \o chunk) > Cap
        <3>1. ~ e.refused /\ e.buffer = RestOf(more) /\ e.lines = LinesOf(more)
            BY <1>1, <1>2, <1>5, <2>1, <2>3
        <3>2. ~ TooLong(more)
            BY <1>2, <1>3, <2>1, <2>3
        <3>. QED  BY <1>1, <3>1, <3>2 DEF DecoderIs, e, more
    <2>. QED  BY <2>2, <2>3
<1>. QED  BY <1>4, <1>5

-----------------------------------------------------------------------------
(* BridgeFraming: the reader of a request body.                            *)

\* What it is when it was given some bytes that were not all.
RequestIs(r, bytes) ==
    /\ r \in BodyReaders
    /\ r.done => LinesOf(bytes) # <<>> /\ r.lines = <<Head(LinesOf(bytes))>>
    /\ ~ r.done /\ ~ r.refused =>
          LinesOf(bytes) = <<>> /\ r.lines = <<>> /\ r.buffer = RestOf(bytes)
    /\ ~ r.done /\ r.refused => Len(bytes) > Cap \/ Len(Ends(bytes)) > 1

\* Accepting a line, or refusing more than one.
LEMMA AcceptOneIs ==
    ASSUME NEW r \in BodyReaders, ~ r.done, ~ r.refused
    PROVE  /\ r.lines = <<>> => AcceptOne(r) = r
           /\ Len(r.lines) = 1 => /\ AcceptOne(r) \in BodyReaders /\ AcceptOne(r).done
                                  /\ ~ AcceptOne(r).refused /\ AcceptOne(r).lines = r.lines
           /\ Len(r.lines) > 1 => /\ AcceptOne(r) \in BodyReaders /\ ~ AcceptOne(r).done
                                  /\ AcceptOne(r).refused
<1>1. r.lines \in Seq(Seq(Bytes)) /\ (Len(r.lines) >= 1 => r.lines # <<>>)
    BY DEF BodyReaders
<1>2. r.lines = <<>> => AcceptOne(r) = r
    BY DEF AcceptOne
<1>3. ASSUME Len(r.lines) = 1
      PROVE  /\ AcceptOne(r) \in BodyReaders /\ AcceptOne(r).done
             /\ ~ AcceptOne(r).refused /\ AcceptOne(r).lines = r.lines
    <2>1. AcceptOne(r) = [r EXCEPT !.done = TRUE]
        BY <1>1, <1>3 DEF AcceptOne
    <2>. QED  BY <2>1 DEF BodyReaders
<1>4. ASSUME Len(r.lines) > 1
      PROVE  AcceptOne(r) \in BodyReaders /\ ~ AcceptOne(r).done /\ AcceptOne(r).refused
    <2>1. r.lines # <<>> /\ Len(r.lines) # 1
        <3>1. Len(r.lines) \in Nat
            BY <1>1
        <3>2. Len(r.lines) # 1 /\ Len(r.lines) # 0
            <4>. DEFINE l == Len(r.lines)
            <4>1. l \in Nat /\ l > 1
                BY <1>4, <3>1
            <4>. HIDE DEF l
            <4>2. l # 1 /\ l # 0
                BY ONLY <4>1
            <4>. QED  BY <4>2 DEF l
        <3>. QED  BY <3>2
    <2>2. AcceptOne(r) = [r EXCEPT !.refused = TRUE]
        BY <2>1 DEF AcceptOne
    <2>. QED  BY <2>2 DEF BodyReaders
<1>. QED  BY <1>2, <1>3, <1>4

LEMMA RequestChunkReads ==
    ASSUME NEW bytes \in Seq(Bytes), NEW chunk \in Seq(Bytes), NEW r, RequestIs(r, bytes)
    PROVE  RequestIs(RequestChunk(r, chunk), bytes \o chunk)
<1>. DEFINE e == PushChunk(r, chunk)
            more == bytes \o chunk
            rest == RestOf(bytes)
            old == LinesOf(bytes)
            new == LinesOf(rest \o chunk)
<1>0. r \in BodyReaders /\ r.done \in BOOLEAN /\ r.refused \in BOOLEAN
    BY DEF RequestIs, BodyReaders
<1>1. /\ e \in BodyReaders /\ e.done = r.done /\ (r.refused => e = r)
      /\ ~ r.refused /\ Len(r.buffer \o chunk) > Cap => e.refused
      /\ ~ r.refused /\ ~ Len(r.buffer \o chunk) > Cap =>
            ~ e.refused /\ e.buffer = RestOf(r.buffer \o chunk)
            /\ e.lines = r.lines \o LinesOf(r.buffer \o chunk)
    BY <1>0, PushChunkIs
<1>2. LinesOf(more) = old \o new /\ RestOf(more) = RestOf(rest \o chunk)
    BY ChunkAdds
<1>3. /\ Len(bytes) \in Nat /\ Len(more) = Len(bytes) + Len(chunk) /\ Len(chunk) \in Nat
      /\ more \in Seq(Bytes) /\ rest \in Seq(Bytes) /\ rest \o chunk \in Seq(Bytes)
      /\ Len(rest \o chunk) <= Len(more)
    <2>1. ChunkFits(bytes, chunk)
        BY ChunkSizes
    <2>2. /\ Len(rest) \in Nat /\ Len(bytes) \in Nat /\ Len(chunk) \in Nat
          /\ Len(rest) <= Len(bytes) => Len(rest) + Len(chunk) <= Len(bytes) + Len(chunk)
        <3>1. \A x, y, z \in Nat : x <= y => x + z <= y + z
            OBVIOUS
        <3>2. Len(rest) \in Nat /\ Len(bytes) \in Nat /\ Len(chunk) \in Nat
            BY ONLY <2>1 DEF ChunkFits, rest
        <3>. QED  BY ONLY <3>1, <3>2
    <2>. QED  BY ONLY <2>1, <2>2 DEF ChunkFits, more, rest
<1>. HIDE DEF e, more, rest
<1>4. /\ old \in Seq(Seq(Bytes)) /\ Len(old) = Len(Ends(bytes)) /\ new \in Seq(Seq(Bytes))
      /\ LinesOf(more) \in Seq(Seq(Bytes)) /\ Len(LinesOf(more)) = Len(Ends(more))
    BY <1>3, LinesAre
<1>. HIDE DEF old, new
<1>5. CASE r.done
    <2>1. RequestChunk(r, chunk) = r
        BY <1>5 DEF RequestChunk
    <2>2. old # <<>> /\ r.lines = <<Head(old)>>
        BY <1>5 DEF RequestIs, old
    <2>3. old \o new # <<>> /\ Head(old \o new) = Head(old)
        BY <1>4, <2>2
    <2>. QED  BY <1>0, <1>2, <1>5, <2>1, <2>2, <2>3 DEF RequestIs, more
<1>6. CASE ~ r.done /\ r.refused
    <2>1. RequestChunk(r, chunk) = r
        BY <1>1, <1>6 DEF RequestChunk, AcceptOne, e
    <2>2. Len(bytes) > Cap \/ Len(Ends(bytes)) > 1
        BY <1>6 DEF RequestIs
    <2>3. Len(old \o new) = Len(old) + Len(new) /\ Len(old) \in Nat /\ Len(new) \in Nat
        <3>1. \A X : \A s, t \in Seq(X) :
                 Len(s \o t) = Len(s) + Len(t) /\ Len(s) \in Nat /\ Len(t) \in Nat
            OBVIOUS
        <3>. QED  BY <1>4, <3>1
    <2>4. Len(more) > Cap \/ Len(Ends(more)) > 1
        BY <1>2, <1>3, <1>4, <2>2, <2>3, CapAssumption
    <2>. QED  BY <1>0, <1>6, <2>1, <2>4 DEF RequestIs, more
<1>7. CASE ~ r.done /\ ~ r.refused
    <2>1. old = <<>> /\ r.lines = <<>> /\ r.buffer = rest
        BY <1>7 DEF RequestIs, old, rest
    <2>2. RequestChunk(r, chunk) = AcceptOne(e)
        BY <1>7 DEF RequestChunk, e
    <2>3. <<>> \o new = new
        BY <1>4
    <2>4. CASE Len(rest \o chunk) > Cap
        <3>1. e.refused /\ ~ e.done
            BY <1>1, <1>7, <2>1, <2>4
        <3>2. AcceptOne(e) = e
            BY <3>1 DEF AcceptOne
        <3>3. Len(more) > Cap
            <4>1. Len(rest \o chunk) \in Nat
                BY <1>3
            <4>. QED  BY <1>3, <2>4, <4>1, CapAssumption
        <3>. QED  BY <1>1, <2>2, <3>1, <3>2, <3>3 DEF RequestIs, more
    <2>5. CASE ~ Len(rest \o chunk) > Cap
        <3>1. /\ ~ e.refused /\ ~ e.done /\ e.buffer = RestOf(more)
              /\ e.lines = LinesOf(more)
            BY <1>1, <1>2, <1>7, <2>1, <2>3, <2>5 DEF new
        <3>2. CASE LinesOf(more) = <<>>
            <4>1. AcceptOne(e) = e
                BY <1>1, <3>1, <3>2, AcceptOneIs
            <4>. QED  BY <1>1, <2>2, <3>1, <3>2, <4>1 DEF RequestIs, more
        <3>3. CASE Len(LinesOf(more)) = 1
            <4>1. /\ AcceptOne(e) \in BodyReaders /\ AcceptOne(e).done
                  /\ AcceptOne(e).lines = LinesOf(more)
                BY <1>1, <3>1, <3>3, AcceptOneIs
            <4>2. LinesOf(more) # <<>> /\ LinesOf(more) = <<Head(LinesOf(more))>>
                <5>1. \A X : \A s \in Seq(X) : Len(s) = 1 => s # <<>> /\ s = <<Head(s)>>
                    OBVIOUS
                <5>. QED  BY <1>4, <3>3, <5>1
            <4>. QED  BY <2>2, <4>1, <4>2 DEF RequestIs, more
        <3>4. CASE Len(LinesOf(more)) > 1
            <4>1. /\ AcceptOne(e) \in BodyReaders /\ ~ AcceptOne(e).done
                  /\ AcceptOne(e).refused
                BY <1>1, <3>1, <3>4, AcceptOneIs
            <4>. QED  BY <1>4, <2>2, <3>4, <4>1 DEF RequestIs, more
        <3>5. LinesOf(more) = <<>> \/ Len(LinesOf(more)) = 1 \/ Len(LinesOf(more)) > 1
            BY <1>4
        <3>. QED  BY <3>2, <3>3, <3>4, <3>5
    <2>. QED  BY <2>4, <2>5
<1>. QED  BY <1>0, <1>5, <1>6, <1>7

-----------------------------------------------------------------------------
(* BridgeFraming: the readers return the lines of their bytes.             *)

FramingInv ==
    /\ received \in Seq(Bytes) /\ ended \in BOOLEAN
    /\ ~ ended => /\ ReaderIs(reader, received) /\ DecoderIs(decoder, received)
                  /\ RequestIs(request, received)
    /\ ended => ReadersAreExact /\ RequestIsFirstLine

LEMMA FramingInit == InitFraming => FramingInv
<1>. SUFFICES ASSUME InitFraming PROVE FramingInv
    OBVIOUS
<1>1. /\ received = <<>> /\ ended = FALSE /\ reader = Fresh /\ decoder = Fresh
      /\ request = [buffer |-> <<>>, lines |-> <<>>, refused |-> FALSE, done |-> FALSE]
    BY DEF InitFraming
<1>2. <<>> \in Seq(Bytes) /\ <<>> \in Seq(Seq(Bytes))
    OBVIOUS
<1>3. Fresh \in Readers /\ request \in BodyReaders
    BY <1>1, <1>2 DEF Fresh, Readers, BodyReaders
<1>4. ReaderIs(reader, received) /\ DecoderIs(decoder, received)
    BY <1>1, <1>3, NothingYet, NothingTooLong DEF ReaderIs, DecoderIs, Fresh, TooLong
<1>5. RequestIs(request, received)
    BY <1>1, <1>3, NothingYet DEF RequestIs
<1>. QED  BY <1>1, <1>2, <1>4, <1>5 DEF FramingInv

LEMMA ReceiveReads ==
    ASSUME FramingInv, NEW chunk \in Chunks, Receive(chunk)
    PROVE  FramingInv'
<1>1. chunk \in Seq(Bytes)
    BY CapAssumption DEF Chunks
<1>2. /\ ~ ended /\ ended' = ended /\ received' = received \o chunk
      /\ reader' = FoldLeft(ReadByte, reader, chunk)
      /\ decoder' = PushChunk(decoder, chunk)
      /\ request' = RequestChunk(request, chunk)
    BY DEF Receive
<1>3. /\ received \in Seq(Bytes) /\ ReaderIs(reader, received)
      /\ DecoderIs(decoder, received) /\ RequestIs(request, received)
    BY <1>2 DEF FramingInv
<1>4. received' \in Seq(Bytes)
    BY <1>1, <1>2, <1>3
<1>5. ReaderIs(reader', received')
    BY <1>1, <1>2, <1>3, ReadChunkReads
<1>6. DecoderIs(decoder', received')
    BY <1>1, <1>2, <1>3, PushChunkDecodes
<1>7. RequestIs(request', received')
    BY <1>1, <1>2, <1>3, RequestChunkReads
<1>8. ended' = FALSE
    BY <1>2 DEF FramingInv
<1>. QED  BY <1>4, <1>5, <1>6, <1>7, <1>8 DEF FramingInv

\* The end makes a line of what is left.
LEMMA ReadEndIs ==
    ASSUME NEW r, ReaderIs(r, received), received \in Seq(Bytes)
    PROVE  /\ ReadEnd(r).refused <=> TooLong(received)
           /\ ~ ReadEnd(r).refused =>
                 IF RestOf(received) # <<>>
                 THEN ReadEnd(r).lines = Append(LinesOf(received), Strip(RestOf(received)))
                 ELSE ReadEnd(r).lines = LinesOf(received)
<1>. DEFINE lines == Append(r.lines, Strip(r.buffer))
<1>1. /\ r \in Readers /\ (r.refused <=> TooLong(received))
      /\ ~ r.refused => r.lines = LinesOf(received) /\ r.buffer = RestOf(received)
    BY DEF ReaderIs
<1>2. ReadEnd(r) = IF r.refused \/ r.buffer = <<>> THEN r
                   ELSE [r EXCEPT !.buffer = <<>>, !.lines = lines]
    BY DEF ReadEnd
<1>3. CASE r.refused \/ r.buffer = <<>>
    BY <1>1, <1>2, <1>3
<1>4. CASE ~ (r.refused \/ r.buffer = <<>>)
    <2>. HIDE DEF lines
    <2>1. ReadEnd(r).lines = lines /\ ReadEnd(r).refused = r.refused
        BY <1>1, <1>2, <1>4 DEF Readers
    <2>. QED  BY <1>1, <1>4, <2>1 DEF lines
<1>. QED  BY <1>3, <1>4

LEMMA FinishDecoderIs ==
    ASSUME NEW d, d \in Readers \/ d \in BodyReaders
    PROVE  /\ FinishDecoder(d).refused = d.refused
           /\ d.refused \/ d.buffer = <<>> => FinishDecoder(d) = d
           /\ ~ d.refused /\ d.buffer # <<>> =>
                 FinishDecoder(d).lines = Append(d.lines, d.buffer)
           /\ d \in BodyReaders => /\ FinishDecoder(d) \in BodyReaders
                                   /\ FinishDecoder(d).done = d.done
<1>. DEFINE lines == Append(d.lines, d.buffer)
<1>1. d.buffer \in Seq(Bytes) /\ d.lines \in Seq(Seq(Bytes))
    BY DEF Readers, BodyReaders
<1>2. lines \in Seq(Seq(Bytes)) /\ <<>> \in Seq(Bytes)
    BY <1>1
<1>3. FinishDecoder(d) = IF d.refused \/ d.buffer = <<>> THEN d
                         ELSE [d EXCEPT !.buffer = <<>>, !.lines = lines]
    BY DEF FinishDecoder
<1>. HIDE DEF lines
<1>4. CASE d.refused \/ d.buffer = <<>>
    BY <1>3, <1>4
<1>5. CASE ~ (d.refused \/ d.buffer = <<>>)
    <2>1. FinishDecoder(d) = [d EXCEPT !.buffer = <<>>, !.lines = lines]
        BY <1>3, <1>5
    <2>2. FinishDecoder(d).refused = d.refused /\ FinishDecoder(d).lines = lines
        BY <2>1 DEF Readers, BodyReaders
    <2>3. d \in BodyReaders => FinishDecoder(d) \in BodyReaders /\ FinishDecoder(d).done = d.done
        BY <1>2, <2>1 DEF BodyReaders
    <2>. QED  BY <1>5, <2>2, <2>3 DEF lines
<1>. QED  BY <1>4, <1>5

LEMMA RequestEndIs ==
    ASSUME NEW r, RequestIs(r, received), received \in Seq(Bytes)
    PROVE  /\ RequestEnd(r).done =>
                 RequestEnd(r).lines = << IF LinesOf(received) = <<>> THEN RestOf(received)
                                          ELSE Head(LinesOf(received)) >>
           /\ received # <<>> /\ Len(received) <= Cap /\ Len(Ends(received)) <= 1
                 => RequestEnd(r).done
<1>1. /\ r \in BodyReaders /\ r.done \in BOOLEAN /\ r.refused \in BOOLEAN
      /\ r.buffer \in Seq(Bytes)
    BY DEF RequestIs, BodyReaders
<1>2. CASE r.done
    <2>1. RequestEnd(r) = r
        BY <1>2 DEF RequestEnd
    <2>. QED  BY <1>2, <2>1 DEF RequestIs
<1>3. CASE ~ r.done /\ r.refused
    <2>1. RequestEnd(r) = r
        BY <1>3 DEF RequestEnd
    <2>2. Len(received) > Cap \/ Len(Ends(received)) > 1
        BY <1>3 DEF RequestIs
    <2>3. Len(received) \in Nat /\ Len(Ends(received)) \in Nat
        BY EndsAre
    <2>4. ~ (Len(received) <= Cap /\ Len(Ends(received)) <= 1)
        BY <2>2, <2>3, CapAssumption
    <2>. QED  BY <1>3, <2>1, <2>4
<1>4. CASE ~ r.done /\ ~ r.refused
    <2>. DEFINE f == FinishDecoder(r)
    <2>1. LinesOf(received) = <<>> /\ r.lines = <<>> /\ r.buffer = RestOf(received)
        BY <1>4 DEF RequestIs
    <2>2. /\ f \in BodyReaders /\ f.done = r.done /\ f.refused = r.refused
          /\ r.buffer = <<>> => f = r
          /\ r.buffer # <<>> => f.lines = Append(r.lines, r.buffer)
        BY <1>1, <1>4, FinishDecoderIs
    <2>. HIDE DEF f
    <2>3. CASE r.buffer = <<>>
        <3>1. RequestEnd(r) = [r EXCEPT !.refused = TRUE]
            BY <1>4, <2>1, <2>2, <2>3 DEF RequestEnd, f
        <3>2. ~ RequestEnd(r).done
            BY <1>1, <1>4, <3>1 DEF BodyReaders
        <3>3. received = <<>>
            <4>1. Len(Ends(received)) = 0 /\ Ends(received) \in Seq(1 .. Len(received))
                BY <2>1, LinesAre, EndsAre
            <4>2. Ends(received) = <<>>
                BY <4>1
            <4>3. RestOf(received) = received
                BY <4>2 DEF RestOf
            <4>. QED  BY <2>1, <2>3, <4>3
        <3>. QED  BY <3>2, <3>3
    <2>4. CASE r.buffer # <<>>
        <3>1. f.lines = <<r.buffer>> /\ Len(f.lines) = 1 /\ f.lines # <<>>
            <4>1. f.lines = Append(<<>>, r.buffer)
                BY <2>1, <2>2, <2>4
            <4>. QED  BY <1>1, <4>1
        <3>2. AcceptOne(f).done /\ AcceptOne(f).lines = f.lines
            BY <1>4, <2>2, <3>1, AcceptOneIs
        <3>3. RequestEnd(r) = AcceptOne(f)
            BY <1>4, <3>1 DEF RequestEnd, f
        <3>. QED  BY <2>1, <3>1, <3>2, <3>3
    <2>. QED  BY <2>3, <2>4
<1>. QED  BY <1>1, <1>2, <1>3, <1>4

LEMMA EndOfBytesReads ==
    ASSUME FramingInv, EndOfBytes
    PROVE  FramingInv'
<1>1. /\ ~ ended /\ ended' = TRUE /\ received' = received
      /\ reader' = ReadEnd(reader) /\ decoder' = FinishDecoder(decoder)
      /\ request' = RequestEnd(request)
    BY DEF EndOfBytes
<1>2. /\ received \in Seq(Bytes) /\ ReaderIs(reader, received)
      /\ DecoderIs(decoder, received) /\ RequestIs(request, received)
    BY <1>1 DEF FramingInv
<1>3. ReadersAreExact'
    <2>1. /\ reader'.refused <=> TooLong(received)
          /\ ~ reader'.refused =>
                IF RestOf(received) # <<>>
                THEN reader'.lines = Append(LinesOf(received), Strip(RestOf(received)))
                ELSE reader'.lines = LinesOf(received)
        BY <1>1, <1>2, ReadEndIs
    <2>2. /\ decoder \in Readers /\ (TooLong(received) => decoder.refused)
          /\ (decoder.refused => Len(received) > Cap)
          /\ ~ decoder.refused => /\ decoder.lines = LinesOf(received)
                                  /\ decoder.buffer = RestOf(received)
        BY <1>2 DEF DecoderIs
    <2>3. /\ decoder'.refused = decoder.refused
          /\ ~ decoder'.refused =>
                IF RestOf(received) # <<>>
                THEN decoder'.lines = Append(LinesOf(received), RestOf(received))
                ELSE decoder'.lines = LinesOf(received)
        BY <1>1, <2>2, FinishDecoderIs
    <2>. QED  BY <1>1, <2>1, <2>2, <2>3 DEF ReadersAreExact, Exactly
<1>4. RequestIsFirstLine'
    <2>1. /\ request'.done =>
                request'.lines = << IF LinesOf(received) = <<>> THEN RestOf(received)
                                    ELSE Head(LinesOf(received)) >>
          /\ received # <<>> /\ Len(received) <= Cap /\ Len(Ends(received)) <= 1
                => request'.done
        BY <1>1, <1>2, RequestEndIs
    <2>. QED  BY <1>1, <2>1 DEF RequestIsFirstLine
<1>. QED  BY <1>1, <1>2, <1>3, <1>4 DEF FramingInv

LEMMA FramingStep ==
    ASSUME FramingInv, [NextFraming]_framingVars
    PROVE  FramingInv'
<1>1. ASSUME NEW chunk \in Chunks, Receive(chunk) PROVE FramingInv'
    BY <1>1, ReceiveReads
<1>2. CASE EndOfBytes
    BY <1>2, EndOfBytesReads
<1>3. CASE UNCHANGED framingVars
    BY <1>3 DEF framingVars, FramingInv, ReadersAreExact, RequestIsFirstLine, Exactly
<1>. QED  BY <1>1, <1>2, <1>3 DEF NextFraming

LEMMA FramingInvariant == Framing => []FramingInv
<1>1. FramingInv /\ [NextFraming]_framingVars => FramingInv'
    BY FramingStep
<1>. QED  BY <1>1, FramingInit, PTL DEF Framing

LEMMA FramingShows == FramingInv => ReadersAreExact /\ RequestIsFirstLine
<1>. SUFFICES ASSUME FramingInv, ~ ended PROVE ReadersAreExact /\ RequestIsFirstLine
    BY DEF FramingInv
<1>1. /\ received \in Seq(Bytes) /\ ReaderIs(reader, received)
      /\ DecoderIs(decoder, received) /\ RequestIs(request, received)
    BY DEF FramingInv
<1>2. ReadersAreExact
    BY <1>1 DEF ReadersAreExact, Exactly, ReaderIs, DecoderIs
<1>3. RequestIsFirstLine
    BY <1>1 DEF RequestIsFirstLine, RequestIs
<1>. QED  BY <1>2, <1>3

\* However a stream of bytes is cut into chunks, the line reader and the decoder
\* return its lines, and refuse it for a line over the cap alone, or for lines
\* that were buffered together (read_line_message_with_cap, H2LineDecoder).
THEOREM LinesAreRead == Framing => []ReadersAreExact
BY FramingInvariant, FramingShows, PTL

\* The message of a request body is its first line, and a body that is one
\* message within the cap is accepted, however it is cut (read_h2_request_body).
THEOREM FirstLineIsRead == Framing => []RequestIsFirstLine
BY FramingInvariant, FramingShows, PTL
=============================================================================

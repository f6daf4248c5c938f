----------------------------- MODULE LaneService -----------------------------
(***************************************************************************)
(* What the lanes of a bridge promise: a request waits in its lane, is     *)
(* handed on only when no other request of that lane is, and leaves the    *)
(* lane.  Requests that need no lane never enter this picture.             *)
(***************************************************************************)
CONSTANTS Requests, Lanes, NoLane

VARIABLES phase, lane

vars == <<phase, lane>>

Init ==
    /\ phase = [r \in Requests |-> "new"]
    /\ lane = [r \in Requests |-> NoLane]

Queue(r) ==
    /\ phase[r] = "new"
    /\ phase' = [phase EXCEPT ![r] = "queued"]
    /\ \E k \in Lanes : lane' = [lane EXCEPT ![r] = k]

Serve(r) ==
    /\ phase[r] = "queued"
    /\ \A s \in Requests : phase[s] = "served" => lane[s] # lane[r]
    /\ phase' = [phase EXCEPT ![r] = "served"]
    /\ UNCHANGED lane

Leave(r) ==
    /\ phase[r] = "served"
    /\ phase' = [phase EXCEPT ![r] = "left"]
    /\ UNCHANGED lane

Next == \E r \in Requests : Queue(r) \/ Serve(r) \/ Leave(r)

Spec == Init /\ [][Next]_vars
=============================================================================

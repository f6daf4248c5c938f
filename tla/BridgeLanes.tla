----------------------------- MODULE BridgeLanes -----------------------------
(***************************************************************************)
(* The upstream lane of a request, as the transport bridge works it out    *)
(* from the bytes of the request (tools/transport_bridge/src/main.rs).     *)
(*                                                                         *)
(* The daemon behind the bridge has lanes of its own, which it finds by    *)
(* looking at the tree.  The bridge sees the request only: it can name the *)
(* node a request is about, not the domain that node is in.                *)
(*                                                                         *)
(* An Rpc is the request an envelope carries, or the bare request; bytes   *)
(* that are no JSON object are the Rpc without a method.                   *)
(***************************************************************************)
EXTENDS Naturals

CONSTANTS
    Documents,  \* paths of documents other than the root document
    Nodes,      \* node ids a request may name
    Selectors,  \* selectors a request may name
    Nothing     \* what a request does not say

ASSUME NothingAssumption == Nothing \notin Documents \cup Nodes \cup Selectors

RootPath == "/"
RootNode == 1

DocumentMethods ==
    {"document.get", "graph.get", "view.get", "projection.get", "document.status",
     "document.serialize", "document.freeze", "debug.sleep", "node.get",
     "debug.node.append", "debug.node.remove", "node.append", "node.update",
     "node.freeze", "node.remove", "view.setRoot", "view.clearRoot", "view.elide",
     "view.expand", "view.reset", "leaf.source.get", "file.capture",
     "file.followTail"}

DomainMethods ==
    {"debug.sleep", "debug.text.append", "debug.tty.push", "node.append",
     "node.remove", "debug.node.append", "debug.node.remove"}

FileKinds == {"static-file", "monitored-file"}

\* The bridge tests for the suffix ".stream.open"; these methods of the daemon
\* have it.
StreamMethods ==
    {"tty.stream.open", "projection.stream.open", "pane.capture.stream.open",
     "pane.scroll.stream.open"}

Rpc == [path : Documents \cup {RootPath},
        method : STRING,
        kind : FileKinds \cup {Nothing},
        content : BOOLEAN, title : BOOLEAN,
        node : Nodes \cup {Nothing}, selector : Selectors \cup {Nothing},
        paramNode : Nodes \cup {Nothing}, paramParent : Nodes \cup {Nothing}]

\* request_runs_on_document_lane
RunsOnDocumentLane(q) ==
    \/ q.method \in DocumentMethods
    \/ q.method = "leaf.source.attach" /\ q.kind \in FileKinds

\* request_supports_dynamic_domain_lane
SupportsDomainLane(q) ==
    \/ q.method \in DomainMethods
    \/ q.method = "node.update" /\ q.content /\ ~ q.title

\* The first of the places a target may be named in that names one.
Named(q) ==
    CASE q.node # Nothing -> q.node
      [] q.node = Nothing /\ q.selector # Nothing -> q.selector
      [] q.node = Nothing /\ q.selector = Nothing /\ q.paramNode # Nothing -> q.paramNode
      [] OTHER -> q.paramParent

\* request_target_key: the document's root node is no target of its own.
TargetKey(q) == IF Named(q) = RootNode THEN Nothing ELSE Named(q)

RootLane == [document |-> RootPath, target |-> Nothing]

\* classify_upstream_lane_key
LaneKey(q) ==
    IF q.path = RootPath \/ ~ RunsOnDocumentLane(q) THEN RootLane
    ELSE [document |-> q.path,
          target |-> IF SupportsDomainLane(q) THEN TargetKey(q) ELSE Nothing]

LaneKeys == [document : Documents \cup {RootPath},
             target : Nodes \cup Selectors \cup {Nothing}]

\* request_is_stream_open
IsStreamOpen(q) == q.method \in StreamMethods
=============================================================================

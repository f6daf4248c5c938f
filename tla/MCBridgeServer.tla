--------------------------- MODULE MCBridgeServer ---------------------------
(***************************************************************************)
(* Three streams on two connections.  Two requests share the lane of a     *)
(* node, and a stream open has the root lane.                              *)
(***************************************************************************)
EXTENDS BridgeServer

CONSTANTS Document, Client, Other

MCDocuments == {Document}
MCNodes == {1, 2}
MCStreams == 1 .. 3
MCConnectionOf == <<Client, Client, Other>>

\* A request the client library sends: its target is named in the request.
Ask(path, method, node) ==
    [path |-> path, method |-> method, kind |-> Nothing, content |-> FALSE,
     title |-> FALSE, node |-> node, selector |-> Nothing,
     paramNode |-> Nothing, paramParent |-> Nothing]

MCRequests ==
    {Ask(Document, "node.append", 2), Ask(Document, "projection.stream.open", Nothing)}
=============================================================================

SPECIFICATION FairSpec
CONSTANTS
    Document = document
    Client = client
    Other = other
    Nothing = Nothing
    NoRpc = NoRpc
    NoLane = NoLane
    Documents <- MCDocuments
    Nodes <- MCNodes
    Selectors = {}
    Streams <- MCStreams
    Connections = {client, other}
    ConnectionOf <- MCConnectionOf
    Requests <- MCRequests
    MaxWaiting = 1
CHECK_DEADLOCK FALSE
INVARIANTS TypeOK GateInOrder OneRequestPerLane
PROPERTIES StreamsEnd ServesLanes

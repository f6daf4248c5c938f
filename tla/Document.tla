------------------------------ MODULE Document ------------------------------
(***************************************************************************)
(* One live document (src/core/document.zig): the node registry, the links *)
(* both ways between parents and children, sibling names and the selectors *)
(* that use them, content accounting against the cap, shared view state,   *)
(* and the lifecycle of terminal-backed nodes.                             *)
(*                                                                         *)
(* Each operation is one action: who may call it when is RequestGuards'    *)
(* subject.  An operation refused with an error changes nothing and is a   *)
(* stuttering step, except for an append, which wastes the id it reserved. *)
(***************************************************************************)
EXTENDS DocumentTree, Integers, SequencesExt

CONSTANTS
    Titles,          \* titles of new nodes, as the names defaultNodeName makes
    NewNames,        \* names a caller may ask setNodeName for
    NewSources,      \* sources of new nodes
    MaxContentBytes, \* max_content_bytes
    MaxChunk,        \* bound: bytes of one write
    MaxId,           \* bound: the last node id handed out
    MaxElided        \* bound: nodes elided at a time

(***************************************************************************)
(* A name is a slug and the numbers hung on it with dashes: "log" is       *)
(* [slug |-> "log", tail |-> <<>>], "log-2" has the tail <<2>>.  Names with *)
(* bytes isValidNodeName refuses are left out.                             *)
(***************************************************************************)
NoName == [slug |-> "", tail |-> <<>>]
Slugs == {m.slug : m \in Titles \cup NewNames} \cup {"n-node"}
Name == [slug : Slugs, tail : Seq(Nat)]

ASSUME NamesAssumption == Titles \cup NewNames \subseteq Name
ASSUME SourcesAssumption == NewSources \subseteq {"none", "tty"}
ASSUME BoundsAssumption ==
    /\ MaxContentBytes \in Nat /\ MaxChunk \in Nat /\ MaxId \in Nat \ {0}
    /\ MaxElided \in Nat

VARIABLES
    parent,          \* Node.parent_id of every live node
    children,        \* Node.children
    name,            \* Node.name
    len,             \* Node.content, its length
    source,          \* Node.source
    lifecycle,       \* Node.lifecycle
    docLifecycle,    \* Document.lifecycle
    viewRoot,        \* view_root_node_id
    elided,          \* elided_node_ids
    contentBytes,    \* content_bytes
    liveCount,       \* live_node_count
    nextId           \* next_node_id

nodes == <<parent, children, name, len, source, lifecycle>>
view == <<viewRoot, elided>>
vars == <<nodes, docLifecycle, view, contentBytes, liveCount, nextId>>

Live == DOMAIN parent
Sources == {"none", "tty", "terminal_artifact"}
Lifecycles == {"live", "frozen", "detached"}

-----------------------------------------------------------------------------
(* Names and selectors.                                                    *)

\* looksLikeDirectNodeReference and parseDirectNodeReference: "node-42".
IsReference(m) == m.slug = "node" /\ Len(m.tail) = 1

\* defaultNodeName: a title that reads like a reference gets a prefix.
DefaultNodeName(title) ==
    IF IsReference(title) THEN [title EXCEPT !.slug = "n-node"] ELSE title

SiblingNameInUse(p, exempt, m) ==
    p \in Live /\ \E c \in ToSet(children[p]) \ {exempt} : name[c] = m

\* Variant: a second child of a name is numbered without a look.
DefaultChildNameUnchecked(p, title) ==
    LET base == DefaultNodeName(title)
    IN  IF base = NoName \/ ~ SiblingNameInUse(p, NoNode, base)
        THEN base
        ELSE [base EXCEPT !.tail = Append(@, 2)]

\* defaultChildName: the base name, or the first free of base-2, base-3...
DefaultChildName(p, title) ==
    LET base == DefaultNodeName(title)
        numbered(k) == [base EXCEPT !.tail = Append(@, k)]
        free == {k \in 2 .. Len(children[p]) + 2 :
                    ~ SiblingNameInUse(p, NoNode, numbered(k))}
    IN  IF base = NoName \/ ~ SiblingNameInUse(p, NoNode, base)
        THEN base
        ELSE numbered(CHOOSE k \in free : \A j \in free : k <= j)

\* resolveChildBySegment: the one child that matches, NoNode for an error.
ResolveChild(p, m) ==
    LET matches == {c \in ToSet(children[p]) : name[c] = m}
    IN  IF Cardinality(matches) = 1 THEN CHOOSE c \in matches : TRUE ELSE NoNode

\* One step of resolveSelector: a direct reference wins over a child's name.
ResolveSegment(p, m) ==
    IF p = NoNode THEN NoNode
    ELSE IF IsReference(m)
         THEN IF m.tail[1] \in Live THEN m.tail[1] ELSE NoNode
         ELSE ResolveChild(p, m)

ResolveSelector(path) == FoldLeft(ResolveSegment, RootId, path)

\* The names on the way from the root to n.
PathTo(n) ==
    LET path[m \in Live] ==
            IF m = RootId THEN <<>> ELSE Append(path[parent[m]], name[m])
    IN  path[n]

\* Document.init
Init ==
    /\ parent = [n \in {RootId} |-> NoNode]
    /\ children = [n \in {RootId} |-> <<>>]
    /\ \E m \in Titles : name = [n \in {RootId} |-> DefaultNodeName(m)]
    /\ len = [n \in {RootId} |-> 0]
    /\ source = [n \in {RootId} |-> "none"]
    /\ lifecycle = [n \in {RootId} |-> "live"]
    /\ docLifecycle = "live"
    /\ viewRoot = NoNode
    /\ elided = <<>>
    /\ contentBytes = 0
    /\ liveCount = 1
    /\ nextId = RootId + 1

-----------------------------------------------------------------------------
(* Nodes.                                                                  *)

With(f, n, v) == [m \in DOMAIN f \cup {n} |-> IF m = n THEN v ELSE f[m]]
Without(f, S) == [m \in DOMAIN f \ S |-> f[m]]

\* reserveNodeId
NextNodeId == nextId

\* appendNode: prepareNodeWithId, then commitPreparedNode.
AppendNode(p, title, from) ==
    LET id == NextNodeId
    IN  /\ nextId <= MaxId
        /\ nextId' = nextId + 1
        /\ IF p \in Live
           THEN /\ parent' = With(parent, id, p)
                /\ children' = With([children EXCEPT ![p] = Append(@, id)], id, <<>>)
                /\ name' = With(name, id, DefaultChildName(p, title))
                /\ len' = With(len, id, 0)
                /\ source' = With(source, id, from)
                /\ lifecycle' = With(lifecycle, id, "live")
                /\ liveCount' = liveCount + 1
           ELSE UNCHANGED <<nodes, liveCount>>
        /\ UNCHANGED <<docLifecycle, view, contentBytes>>

\* appendTextToNode, with reserveAdditionalContentBytes
AppendTextToNode(n, bytes) ==
    /\ n \in Live
    /\ contentBytes <= MaxContentBytes
    /\ bytes <= MaxContentBytes - contentBytes
    /\ len' = [len EXCEPT ![n] = @ + bytes]
    /\ contentBytes' = contentBytes + bytes
    /\ UNCHANGED <<parent, children, name, source, lifecycle, docLifecycle, view,
                   liveCount, nextId>>

\* reserveReplacementContentBytes
ReplacementFits(existing, bytes) ==
    /\ existing <= contentBytes
    /\ contentBytes - existing <= MaxContentBytes
    /\ bytes <= MaxContentBytes - (contentBytes - existing)

ReplaceContent(n, bytes) ==
    /\ ReplacementFits(len[n], bytes)
    /\ len' = [len EXCEPT ![n] = bytes]
    /\ contentBytes' = contentBytes - len[n] + bytes

SetNodeContent(n, bytes) ==
    /\ n \in Live
    /\ ReplaceContent(n, bytes)
    /\ UNCHANGED <<parent, children, name, source, lifecycle, docLifecycle, view,
                   liveCount, nextId>>

\* setNodeName and Node.setName
SetNodeName(n, m) ==
    /\ n \in Live
    /\ m = NoName \/ ~ SiblingNameInUse(parent[n], n, m)
    /\ ~ IsReference(m)
    /\ name' = [name EXCEPT ![n] = m]
    /\ UNCHANGED <<parent, children, len, source, lifecycle, docLifecycle, view,
                   contentBytes, liveCount, nextId>>

-----------------------------------------------------------------------------
(* Removal.                                                                *)

\* swapRemove: the last element takes the place of the removed one.
SwapRemove(s, e) ==
    IF ~ Contains(s, e) THEN s
    ELSE LET i == CHOOSE i \in DOMAIN s : s[i] = e
         IN  Front([s EXCEPT ![i] = Last(s)])

\* collectSubtreePostorderAlloc: descendants before their ancestors.
Postorder(n) ==
    LET order[m \in Live] ==
            FlattenSeq([i \in DOMAIN children[m] |-> order[children[m][i]]]) \o <<m>>
    IN  order[n]

\* detachChildFromParent
Detach(n) == [children EXCEPT ![parent[n]] = SwapRemove(@, n)]

\* Variant: the removed subtree is counted twice.
CountWithoutTwice(order) == liveCount - 2 * Len(order)

\* live_node_count after a removal
CountWithout(order) == liveCount - Len(order)

\* totalContentBytesForNodes: the bytes of the listed nodes, added up one by one.
TotalContentBytes(order) == SumFunction([i \in DOMAIN order |-> len[order[i]]])

\* Variant: only the removed node itself is taken out of the view state.
RemoveDetachedTopOnly(n, order, detached) ==
    LET gone == ToSet(order)
        bytes == TotalContentBytes(order)
    IN  /\ bytes <= contentBytes
        /\ parent' = Without(parent, gone)
        /\ children' = Without(detached, gone)
        /\ name' = Without(name, gone)
        /\ len' = Without(len, gone)
        /\ source' = Without(source, gone)
        /\ lifecycle' = Without(lifecycle, gone)
        /\ liveCount' = CountWithout(order)
        /\ viewRoot' = IF viewRoot = n THEN NoNode ELSE viewRoot
        /\ elided' = SwapRemove(elided, n)
        /\ contentBytes' = contentBytes - bytes

\* removeDetachedPostorder, and removeNodeRegistryOnly for every node of it
RemoveDetached(n, order, detached) ==
    LET gone == ToSet(order)
        bytes == TotalContentBytes(order)
    IN  /\ bytes <= contentBytes
        /\ parent' = Without(parent, gone)
        /\ children' = Without(detached, gone)
        /\ name' = Without(name, gone)
        /\ len' = Without(len, gone)
        /\ source' = Without(source, gone)
        /\ lifecycle' = Without(lifecycle, gone)
        /\ liveCount' = CountWithout(order)
        /\ viewRoot' = IF viewRoot \in gone THEN NoNode ELSE viewRoot
        /\ elided' = FoldLeft(SwapRemove, elided, order)
        /\ contentBytes' = contentBytes - bytes

\* removeNode; no caller names the root.
RemoveNode(n) ==
    /\ n \in Live \ {RootId}
    /\ children[n] = <<>>
    /\ RemoveDetached(n, <<n>>, Detach(n))
    /\ UNCHANGED <<docLifecycle, nextId>>

RemoveSubtree(n) ==
    /\ n \in Live \ {RootId}
    /\ RemoveDetached(n, Postorder(n), Detach(n))
    /\ UNCHANGED <<docLifecycle, nextId>>

-----------------------------------------------------------------------------
(* Lifecycle and view.                                                     *)

\* document.freeze
Freeze ==
    /\ docLifecycle' = "frozen"
    /\ UNCHANGED <<nodes, view, contentBytes, liveCount, nextId>>

(***************************************************************************)
(* Store.freezeTerminalNode: captureTerminalArtifact replaces the content  *)
(* by the capture, then freezeTtyNodeAsArtifact turns the source.          *)
(***************************************************************************)
FreezeTerminalNode(n, bytes) ==
    /\ n \in Live /\ source[n] = "tty"
    /\ ReplaceContent(n, bytes)
    /\ source' = [source EXCEPT ![n] = "terminal_artifact"]
    /\ lifecycle' = [lifecycle EXCEPT ![n] = "frozen"]
    /\ UNCHANGED <<parent, children, name, docLifecycle, view, liveCount, nextId>>

ShowFrom(n) ==
    /\ viewRoot' = n
    /\ UNCHANGED <<nodes, docLifecycle, elided, contentBytes, liveCount, nextId>>
SetViewRoot(n) == n \in Live /\ ShowFrom(n)
ClearViewRoot == ShowFrom(NoNode)

ResetView ==
    /\ viewRoot' = NoNode
    /\ elided' = <<>>
    /\ UNCHANGED <<nodes, docLifecycle, contentBytes, liveCount, nextId>>

\* setElided, and toggleElided, which asks for the opposite of what is set.
SetElided(n, enabled) ==
    /\ n \in Live
    /\ enabled => Len(elided) < MaxElided
    /\ elided' = IF ~ enabled THEN SwapRemove(elided, n)
                 ELSE IF Contains(elided, n) THEN elided ELSE Append(elided, n)
    /\ UNCHANGED <<nodes, docLifecycle, viewRoot, contentBytes, liveCount, nextId>>
ToggleElided(n) == SetElided(n, ~ Contains(elided, n))

\* Bound: ids a request may name, one of them never handed out.
Ids == 1 .. MaxId + 1

Next ==
    \/ \E p \in Ids, title \in Titles, from \in NewSources : AppendNode(p, title, from)
    \/ \E n \in Ids, bytes \in 0 .. MaxChunk :
            \/ AppendTextToNode(n, bytes) \/ SetNodeContent(n, bytes)
            \/ FreezeTerminalNode(n, bytes)
    \/ \E n \in Ids, m \in NewNames : SetNodeName(n, m)
    \/ \E n \in Ids : RemoveNode(n) \/ RemoveSubtree(n) \/ SetViewRoot(n) \/ ToggleElided(n)
    \/ \E n \in Ids, enabled \in BOOLEAN : SetElided(n, enabled)
    \/ Freeze \/ ClearViewRoot \/ ResetView

Spec == Init /\ [][Next]_vars

-----------------------------------------------------------------------------
(* Properties.                                                             *)

TypeOK ==
    /\ Live \subseteq 1 .. MaxId
    /\ parent \in [Live -> 0 .. MaxId]
    /\ children \in [Live -> Seq(1 .. MaxId)]
    /\ name \in [Live -> Name]
    /\ len \in [Live -> Nat]
    /\ source \in [Live -> Sources]
    /\ lifecycle \in [Live -> Lifecycles]
    /\ docLifecycle \in Lifecycles
    /\ viewRoot \in 0 .. MaxId
    /\ elided \in Seq(1 .. MaxId)
    /\ contentBytes \in 0 .. MaxContentBytes /\ liveCount \in Nat
    /\ nextId \in 2 .. MaxId + 1

(***************************************************************************)
(* The document always passes its own validate() (document.zig:685):       *)
(* parents and children agree, every node is reached from the root and     *)
(* counted once, the bytes add up and the view state names live nodes.     *)
(***************************************************************************)
Validates ==
    /\ RootId \in Live /\ parent[RootId] = NoNode
    /\ \A n \in Live :
        /\ IsInjective(children[n])
        /\ \A c \in ToSet(children[n]) : c \in Live /\ parent[c] = n
        /\ n # RootId => parent[n] \in Live /\ n \in ToSet(children[parent[n]])
    /\ Subtree(parent, RootId) = Live
    /\ liveCount = Cardinality(Live)
    /\ contentBytes = SumFunction(len)
    /\ viewRoot \in Live \cup {NoNode}
    /\ ToSet(elided) \subseteq Live

(***************************************************************************)
(* A selector made of names finds its node: siblings never share a name,   *)
(* however children came, went and were renamed (document.zig:183, 852,    *)
(* 884).  Names that read like a reference are left to                     *)
(* EveryPathResolves.                                                      *)
(***************************************************************************)
NamedPathsResolve ==
    \A n \in Live :
        (\A i \in DOMAIN PathTo(n) :
            PathTo(n)[i] # NoName /\ ~ IsReference(PathTo(n)[i]))
        => ResolveSelector(PathTo(n)) = n

(***************************************************************************)
(* doc/protocol.md:145, "otherwise sibling `name` matching beneath the     *)
(* current node": every node that has a name, under parents that have one, *)
(* is found by the selector made of these names.                           *)
(***************************************************************************)
EveryPathResolves ==
    \A n \in Live :
        (\A i \in DOMAIN PathTo(n) : PathTo(n)[i] # NoName)
        => ResolveSelector(PathTo(n)) = n
=============================================================================

---------------------------- MODULE DocumentTree ----------------------------
(***************************************************************************)
(* The shape of a TOM document and the questions the daemon asks about it. *)
(*                                                                         *)
(* A tree is a pair of functions on the set of its live node ids:          *)
(* parent[n], the parent's id or NoNode, and kind[n].  Ids are handed out  *)
(* in increasing order and never reused.  Every operator is a question the *)
(* code answers by walking nodes; none changes the tree.                   *)
(***************************************************************************)
EXTENDS Naturals, FiniteSets

\* The id 0 is never handed out: it stands for a null parent or node id.
NoNode == 0

\* Document.root_node_id: the root exists from Document.init on.
RootId == 1

(***************************************************************************)
(* NodeKind, as far as concurrency domains can tell kinds apart: "split"   *)
(* is h_container or v_container (enabledConcurrentContainerKinds enables  *)
(* both), "plain" is every other kind but the root's.                      *)
(***************************************************************************)
NodeKinds == {"document", "plain", "split"}

Children(parent, n) == {c \in DOMAIN parent : parent[c] = n}

\* Nodes reached from n by parent-to-child links, n included: the least set
\* of live nodes that contains n and every child of its members.
Subtree(parent, n) ==
    {m \in DOMAIN parent :
        \A S \in SUBSET (DOMAIN parent) :
            (/\ n \in S
             /\ \A c \in DOMAIN parent : parent[c] \in S => c \in S) => m \in S}

\* Whether the children of p are roots of concurrency domains of their own.
StartsDomains(kind, p) == p = RootId \/ kind[p] = "split"

(***************************************************************************)
(* concurrentContainerDomainRoot: the walk up from n to the first node     *)
(* whose parent is the root or a split container.                          *)
(***************************************************************************)
DomainRoot(parent, kind, n) ==
    LET walk[m \in DOMAIN parent] ==
            IF m = RootId \/ StartsDomains(kind, parent[m])
            THEN m
            ELSE walk[parent[m]]
    IN  IF n = RootId THEN NoNode ELSE walk[n]

\* subtreeContainsEnabledContainerKinds
ContainsSplit(parent, kind, n) ==
    \E m \in Subtree(parent, n) : kind[m] = "split"

\* RemoveExecutionMode, with "unknown" for the error UnknownNode.
RemoveModes == {"unknown", "root_policy_reject", "unsupported",
                "leaf_domain_safe", "leaf_coordinator",
                "recursive_domain_safe", "recursive_coordinator_safe"}

(***************************************************************************)
(* classifyRemoveExecutionMode: which locks a removal of n needs, decided  *)
(* by whether n has children, starts a domain, or holds domains below it.  *)
(***************************************************************************)
RemoveMode(parent, kind, n) ==
    LET leaf   == Children(parent, n) = {}
        border == StartsDomains(kind, parent[n])
    IN  CASE n \notin DOMAIN parent -> "unknown"
          [] n = RootId -> "root_policy_reject"
          [] OTHER ->
                CASE leaf /\ border  -> "leaf_coordinator"
                  [] leaf /\ ~border -> "leaf_domain_safe"
                  [] ~leaf /\ border -> "recursive_coordinator_safe"
                  [] ~leaf /\ ~border ->
                        IF DomainRoot(parent, kind, n) = n
                        THEN "unsupported"
                        ELSE IF ContainsSplit(parent, kind, n)
                             THEN "recursive_coordinator_safe"
                             ELSE "recursive_domain_safe"

RecursiveModes   == {"recursive_domain_safe", "recursive_coordinator_safe"}
DomainSafeModes  == {"leaf_domain_safe", "recursive_domain_safe"}
CoordinatorModes == {"leaf_coordinator", "recursive_coordinator_safe"}

\* collectParticipatingDeleteDomainIds: the domains a removal of n reaches.
ParticipatingDomains(parent, kind, n) ==
    {DomainRoot(parent, kind, m) : m \in Subtree(parent, n)} \ {NoNode}

\* The tree once n and everything below it are gone.
WithoutSubtree(parent, f, n) ==
    [m \in DOMAIN parent \ Subtree(parent, n) |-> f[m]]
=============================================================================

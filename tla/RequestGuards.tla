---------------------------- MODULE RequestGuards ----------------------------
(***************************************************************************)
(* The request guards of one document (src/daemon/state/store.zig).        *)
(*                                                                         *)
(* Worker threads execute requests on the same document at the same time.  *)
(* A request first acquires a RequestGuard: a writer of one concurrency    *)
(* domain plans which locks it needs under the coordinator mutex, takes    *)
(* them with the coordinator released, and keeps them only if the topology *)
(* revision is still the planned one; after DynamicGuardRetryLimit failed  *)
(* plans, or when no plan exists, it excludes everyone through the         *)
(* coordinator.  A read locks the domains known so far and lets the        *)
(* coordinator go.  The request then runs its handler, which takes the     *)
(* node registry mutex and the content bytes mutex for its short critical  *)
(* sections, and releases the guard.                                       *)
(*                                                                         *)
(* Requests on the root document carry no guard and are not modelled here. *)
(* Documents have no file or tty sources: with none, the reads that        *)
(* refresh sources first (refreshSourcesForDocument) write nothing, and    *)
(* there is no tty to push to.                                             *)
(***************************************************************************)
EXTENDS DocumentTree, Integers, Sequences, Functions, FiniteSetsExt

CONSTANTS
    Requests,    \* requests in flight, each on a worker thread of its own
    NoRequest,   \* the owner of a free lock
    Operations,  \* what a request may ask for: a set of Operation records
    NoOperation, \* the operation of a request that is not submitted yet
    InitParent,  \* the tree the document starts with
    InitKind,
    MaxContentBytes,        \* Document.max_content_bytes
    DynamicGuardRetryLimit  \* dynamic_guard_retry_limit

(***************************************************************************)
(* "text" appends bytes to a node's content (debug.text.append),           *)
(* "content" is a node.update of the content alone, "update" one of title  *)
(* and content, "title" one of the title alone; it stands for every other  *)
(* method that writes a node in place.  "append" and "remove" are          *)
(* node.append and node.remove, "read" any method of                       *)
(* requestUsesQuiescentReadGuard.                                          *)
(***************************************************************************)
ContentWrites == {"text", "content", "update"}
TitleWrites == {"title", "update"}
OperationNames == ContentWrites \cup TitleWrites \cup {"append", "remove", "read"}
Operation == [op : OperationNames, node : Nat, kind : {"plain", "split"}, bytes : Nat]

\* The operations requestSupportsDynamicDomainLane tries to plan a guard for.
PlannedNames == {"text", "content", "append", "remove"}

ASSUME RequestsAssumption == NoRequest \notin Requests
ASSUME OperationsAssumption ==
    Operations \subseteq Operation /\ NoOperation \notin Operation
ASSUME CapAssumption == MaxContentBytes \in Nat
ASSUME RetryAssumption == DynamicGuardRetryLimit \in Nat \ {0}
\* Ids are handed out in order, so that a parent has a smaller id than its children.
ASSUME TreeAssumption ==
    /\ IsFiniteSet(DOMAIN InitParent)
    /\ DOMAIN InitParent = 1 .. Cardinality(DOMAIN InitParent)
    /\ InitParent \in [DOMAIN InitParent -> Nat]
    /\ InitKind \in [DOMAIN InitParent -> NodeKinds]
    /\ RootId \in DOMAIN InitParent /\ InitParent[RootId] = NoNode
    /\ \A n \in DOMAIN InitParent \ {RootId} : InitParent[n] \in 1 .. n - 1

VARIABLES
    \* the document
    parent, kind, len,   \* functions on the live nodes
    title,               \* the requests that wrote each live node's title, in order
    contentBytes,        \* Document.content_bytes
    nextId,              \* Document.next_node_id
    \* DocumentRuntime
    revision,            \* topology_revision
    domainOwner,         \* domain_locks: who holds the lock of each known domain
    parentOwner,         \* parent_locks: who holds the lock of each known parent
    coordinator,         \* who holds coordinator_mutex
    registry,            \* who holds node_registry_mutex
    accounting,          \* who holds content_bytes_mutex
    \* one worker per request
    op, result, pc,
    guard,               \* kind of the RequestGuard or of its plan
    want, wantParent,    \* the locks of that guard
    seenRevision,        \* the revision the plan was made at
    attempts,            \* plans made so far
    doomed,              \* postorder of a removal ({}: a subtree, not collected yet)
    doomedBytes          \* its content bytes

document == <<parent, kind, len, title, contentBytes, nextId>>
locks == <<domainOwner, parentOwner, coordinator>>
mutexes == <<registry, accounting>>
planning == <<guard, want, wantParent, seenRevision, attempts>>
scratch == <<doomed, doomedBytes>>
vars == <<document, revision, locks, mutexes, op, result, pc, planning, scratch>>

DynamicGuards == {"domain_write", "structural_write", "participating_domain_write"}
GuardKinds == DynamicGuards \cup {"none", "coordinator_exclusive", "quiescent_read"}

Held(r) == {d \in DOMAIN domainOwner : domainOwner[d] = r}

\* A map of locks made on first use (ensureDomainLock, ensureParentLock).
OwnerOf(map, id) == IF id \in DOMAIN map THEN map[id] ELSE NoRequest
Ensure(map, ids) == [id \in DOMAIN map \cup ids |-> OwnerOf(map, id)]
Take(map, id, r) == [i \in DOMAIN map \cup {id} |-> IF i = id THEN r ELSE map[i]]
\* All that r holds is given back in one step: releases commute to the left.
Free(map, r) == [id \in DOMAIN map |-> IF map[id] = r THEN NoRequest ELSE map[id]]

\* Variant: the coordinator path locks its snapshot in another order.
LocksNextUnsorted(r, d) ==
    /\ d \in want[r] \ Held(r)
    /\ \A e \in want[r] \ Held(r) :
        IF guard[r] = "coordinator_exclusive" THEN d >= e ELSE d <= e

\* snapshotDomainIds and collectParticipatingDeleteDomainIds sort their ids.
LocksNext(r, d) ==
    /\ d \in want[r] \ Held(r)
    /\ \A e \in want[r] \ Held(r) : d <= e
Live == DOMAIN parent

Init ==
    /\ parent = InitParent
    /\ kind = InitKind
    /\ len = [n \in DOMAIN InitParent |-> 0]
    /\ title = [n \in DOMAIN InitParent |-> << >>]
    /\ contentBytes = 0
    /\ nextId = Cardinality(DOMAIN InitParent) + 1
    /\ revision = 0
    /\ domainOwner = [d \in {} |-> NoRequest]
    /\ parentOwner = [p \in {} |-> NoRequest]
    /\ coordinator = NoRequest
    /\ registry = NoRequest
    /\ accounting = NoRequest
    /\ op = [r \in Requests |-> NoOperation]
    /\ result = [r \in Requests |-> "none"]
    /\ pc = [r \in Requests |-> "idle"]
    /\ guard = [r \in Requests |-> "none"]
    /\ want = [r \in Requests |-> {}]
    /\ wantParent = [r \in Requests |-> NoNode]
    /\ seenRevision = [r \in Requests |-> 0]
    /\ attempts = [r \in Requests |-> 0]
    /\ doomed = [r \in Requests |-> {}]
    /\ doomedBytes = [r \in Requests |-> 0]

Goto(r, label) == pc' = [pc EXCEPT ![r] = label]
Answer(r, answer) == result' = [result EXCEPT ![r] = answer]

-----------------------------------------------------------------------------
(* Acquiring the guard: Store.acquireRequestGuard.                         *)

NoPlan == [guard |-> "none", domains |-> {}, parent |-> NoNode]

\* The content branch of resolveDomainWritePlanWithStableTopology.
ContentPlan(n) ==
    IF n \notin Live \/ n = RootId \/ kind[n] = "split" THEN NoPlan
    ELSE [guard |-> "domain_write",
          domains |-> {DomainRoot(parent, kind, n)}, parent |-> NoNode]

\* The append branch of resolveStructuralDomainWritePlanWithStableTopology.
AppendPlan(p) ==
    IF p \notin Live \/ p = RootId \/ kind[p] = "split" THEN NoPlan
    ELSE [guard |-> "structural_write",
          domains |-> {DomainRoot(parent, kind, p)}, parent |-> p]

\* Variant: a removal across domains locks only the domain of its target.
RemovePlanOwnDomain(n) ==
    IF n \notin Live \/ n = RootId THEN NoPlan
    ELSE [guard |-> "participating_domain_write",
          domains |-> {DomainRoot(parent, kind, n)}, parent |-> NoNode]

\* Its remove branch, then resolveParticipatingDeleteDomainIdsWithStableTopology.
RemovePlan(n) ==
    LET mode    == RemoveMode(parent, kind, n)
        domains == ParticipatingDomains(parent, kind, n)
    IN  IF mode \in DomainSafeModes
        THEN [guard |-> "structural_write",
              domains |-> {DomainRoot(parent, kind, n)}, parent |-> parent[n]]
        ELSE IF mode = "recursive_coordinator_safe" /\ Cardinality(domains) >= 2
        THEN [guard |-> "participating_domain_write",
              domains |-> domains, parent |-> NoNode]
        ELSE NoPlan

GuardPlan(o) ==
    CASE o.op \in {"text", "content"} -> ContentPlan(o.node)
      [] o.op = "append"  -> AppendPlan(o.node)
      [] o.op = "remove"  -> RemovePlan(o.node)
      [] OTHER            -> NoPlan

\* A worker takes the request off its lane: which guard does it ask for?
Submit(r) ==
    /\ pc[r] = "idle"
    /\ \E o \in Operations :
        /\ op' = [op EXCEPT ![r] = o]
        /\ Goto(r, IF o.op \in PlannedNames THEN "plan" ELSE "coordinate")
        /\ guard' = [guard EXCEPT ![r] =
                CASE o.op = "read" -> "quiescent_read"
                  [] o.op \in TitleWrites -> "coordinator_exclusive"
                  [] OTHER -> "none"]
    /\ UNCHANGED <<document, revision, locks, mutexes, result, want, wantParent,
                   seenRevision, attempts, scratch>>

(***************************************************************************)
(* planDynamicGuardAcquisition: under the coordinator and registry mutexes *)
(* the topology stands still; both are free again when it returns.         *)
(***************************************************************************)
Plan(r) ==
    /\ pc[r] = "plan"
    /\ coordinator = NoRequest
    /\ registry = NoRequest
    /\ LET plan == GuardPlan(op[r])
       IN  /\ want' = [want EXCEPT ![r] = plan.domains]
           /\ wantParent' = [wantParent EXCEPT ![r] = plan.parent]
           /\ domainOwner' = Ensure(domainOwner, plan.domains)
           /\ parentOwner' = Ensure(parentOwner, {plan.parent} \ {NoNode})
           /\ guard' = [guard EXCEPT ![r] =
                IF plan = NoPlan THEN "coordinator_exclusive" ELSE plan.guard]
           /\ Goto(r, IF plan = NoPlan THEN "coordinate" ELSE "lock")
    /\ seenRevision' = [seenRevision EXCEPT ![r] = revision]
    /\ UNCHANGED <<document, revision, coordinator, mutexes, op, result, attempts,
                   scratch>>

\* Where a worker goes with the last domain lock of its guard in hand.
AfterDomains(r) ==
    CASE guard[r] = "structural_write" -> "lockParent"
      [] guard[r] = "coordinator_exclusive" -> "execute"
      [] guard[r] = "quiescent_read" -> "dropCoordinator"
      [] OTHER -> "validate"

\* One more domain lock, in ascending id order.
LockDomain(r) ==
    /\ pc[r] = "lock"
    /\ \E d \in DOMAIN domainOwner :
           /\ LocksNext(r, d)
           /\ domainOwner[d] = NoRequest
           /\ domainOwner' = Take(domainOwner, d, r)
           /\ Goto(r, IF want[r] \subseteq Held(r) \cup {d}
                      THEN AfterDomains(r) ELSE "lock")
    /\ UNCHANGED <<document, revision, parentOwner, coordinator,
                   mutexes, op, result, planning, scratch>>

\* structural_write: the parent lock comes after the domain lock.
LockParent(r) ==
    /\ pc[r] = "lockParent"
    /\ OwnerOf(parentOwner, wantParent[r]) = NoRequest
    /\ parentOwner' = Take(parentOwner, wantParent[r], r)
    /\ Goto(r, "validate")
    /\ UNCHANGED <<document, revision, domainOwner, coordinator,
                   mutexes, op, result, planning, scratch>>

\* Variant: the locks are in hand, so the plan must be right.
ValidateUnchecked(r) ==
    /\ pc[r] = "validate"
    /\ Goto(r, "execute")
    /\ UNCHANGED <<document, revision, locks, mutexes, op, result, planning, scratch>>

(***************************************************************************)
(* revisionMatches with the locks held: keep the guard, or unlock and plan *)
(* again, or fall back on acquireCoordinatorExclusive.                     *)
(***************************************************************************)
Validate(r) ==
    /\ pc[r] = "validate"
    /\ \/ /\ seenRevision[r] = revision
          /\ Goto(r, "execute")
          /\ UNCHANGED <<domainOwner, parentOwner, guard, attempts>>
       \/ /\ seenRevision[r] # revision
          /\ domainOwner' = Free(domainOwner, r)
          /\ parentOwner' = Free(parentOwner, r)
          /\ attempts' = [attempts EXCEPT ![r] = @ + 1]
          /\ IF attempts[r] + 1 < DynamicGuardRetryLimit
             THEN Goto(r, "plan") /\ UNCHANGED guard
             ELSE /\ Goto(r, "coordinate")
                  /\ guard' = [guard EXCEPT ![r] = "coordinator_exclusive"]
    /\ UNCHANGED <<document, revision, coordinator, mutexes, op, result,
                   want, wantParent, seenRevision, scratch>>

\* Variant: the coordinator mutex alone is taken for exclusive access.
AcquireCoordinatorOnly(r) ==
    /\ pc[r] = "coordinate"
    /\ coordinator = NoRequest
    /\ coordinator' = r
    /\ Goto(r, AfterDomains(r))
    /\ UNCHANGED <<document, revision, domainOwner, parentOwner, mutexes,
                   op, result, planning, scratch>>

\* acquireCoordinatorExclusive and acquireQuiescentRead up to the snapshot.
AcquireCoordinator(r) ==
    /\ pc[r] = "coordinate"
    /\ coordinator = NoRequest
    /\ coordinator' = r
    /\ want' = [want EXCEPT ![r] = DOMAIN domainOwner]
    /\ Goto(r, IF DOMAIN domainOwner = {} THEN AfterDomains(r) ELSE "lock")
    /\ UNCHANGED <<document, revision, domainOwner, parentOwner, mutexes,
                   op, result, guard, wantParent, seenRevision, attempts, scratch>>

\* Variant: the read's domain locks go with the coordinator.
DropAllLocks(r) ==
    /\ pc[r] = "dropCoordinator"
    /\ coordinator' = NoRequest
    /\ domainOwner' = Free(domainOwner, r)
    /\ Goto(r, "execute")
    /\ UNCHANGED <<document, revision, parentOwner,
                   mutexes, op, result, planning, scratch>>

\* A quiescent read keeps its domain locks and lets the coordinator go.
DropCoordinator(r) ==
    /\ pc[r] = "dropCoordinator"
    /\ coordinator' = NoRequest
    /\ Goto(r, "execute")
    /\ UNCHANGED <<document, revision, domainOwner, parentOwner,
                   mutexes, op, result, planning, scratch>>

-----------------------------------------------------------------------------
(* Executing the request.                                                  *)

Executes(r, name) == pc[r] = "execute" /\ op[r].op = name

\* The handler returned an error before it wrote anything.
Refuse(r) ==
    /\ Goto(r, "release")
    /\ Answer(r, "error")

(***************************************************************************)
(* A read walks the document with neither mutex held.  What it sees while  *)
(* another request is in the middle of a write is a data race: the walk    *)
(* may fail (a child without a slot, a byte count that is off) or not.     *)
(* The document has no source to refresh, so a read writes nothing.        *)
(***************************************************************************)
Read(r) ==
    /\ Executes(r, "read")
    /\ Goto(r, "release")
    /\ \/ Answer(r, "ok")
       \/ /\ \E s \in Requests \ {r} : pc[s] \in {"retitle", "mutate"}
          /\ Answer(r, "error")
    /\ UNCHANGED <<document, revision, locks, mutexes, op, planning, scratch>>

(***************************************************************************)
(* updateNode with a title: setNodeTitle finds the node and writes it with *)
(* no mutex held.  Of an update with content too this is the first half:   *)
(* the node is then looked up again for its content.                       *)
(***************************************************************************)
BeginUpdate(r) ==
    /\ \E name \in TitleWrites : Executes(r, name)
    /\ \/ op[r].node \in Live /\ Goto(r, "retitle") /\ UNCHANGED result
       \/ op[r].node \notin Live /\ Refuse(r)
    /\ UNCHANGED <<document, revision, locks, mutexes, op, planning, scratch>>

Retitle(r) ==
    /\ pc[r] = "retitle"
    /\ title' = [title EXCEPT ![op[r].node] = Append(@, r)]
    /\ \/ op[r].op = "update" /\ Goto(r, "lookup") /\ UNCHANGED result
       \/ op[r].op = "title" /\ Goto(r, "release") /\ Answer(r, "ok")
    /\ UNCHANGED <<parent, kind, len, contentBytes, nextId, revision, locks, mutexes, op,
                   planning, scratch>>

\* Where a request looks for the node whose content it writes.
LooksForContent(r) ==
    pc[r] = "lookup" \/ \E name \in {"text", "content"} : Executes(r, name)

\* append- and replaceNodeContentWithAccounting: find the node under the registry mutex.
FindContentNode(r) ==
    /\ LooksForContent(r)
    /\ registry = NoRequest
    /\ \/ /\ op[r].node \in Live
          /\ registry' = r
          /\ Goto(r, "lockContent")
          /\ UNCHANGED result
       \/ /\ op[r].node \notin Live
          /\ Refuse(r)
          /\ UNCHANGED registry
    /\ UNCHANGED <<document, revision, locks, accounting, op, planning, scratch>>

(***************************************************************************)
(* content_bytes_mutex is always taken with the registry mutex held.  A    *)
(* content write then lets the registry go; a removal keeps both.          *)
(***************************************************************************)
LockContent(r) ==
    /\ pc[r] = "lockContent"
    /\ accounting = NoRequest
    /\ accounting' = r
    /\ registry' = IF op[r].op \in ContentWrites THEN NoRequest ELSE registry
    /\ Goto(r, "mutate")
    /\ UNCHANGED <<document, revision, locks, op, result, planning, scratch>>

\* appendNodeWithRuntime: appendNeedsCoordinatorParentLock.
BeginAppend(r) ==
    /\ Executes(r, "append")
    /\ registry = NoRequest
    /\ Goto(r, IF op[r].node \in Live /\ StartsDomains(kind, op[r].node)
               THEN "lockStructure" ELSE "link")
    /\ UNCHANGED <<document, revision, locks, mutexes, op, result, planning, scratch>>

\* Variant: every removal is planned as the removal of a leaf.
BeginRemoveLeaf(r) ==
    /\ Executes(r, "remove")
    /\ registry = NoRequest
    /\ op[r].node \in Live \ {RootId}
    /\ doomed' = [doomed EXCEPT ![r] = {op[r].node}]
    /\ wantParent' = [wantParent EXCEPT ![r] = parent[op[r].node]]
    /\ Goto(r, "unlink")
    /\ UNCHANGED <<document, revision, locks, mutexes, op, result, guard, want,
                   seenRevision, attempts, doomedBytes>>

\* removeNodeWithRuntime: classify under the registry mutex, then let it go.
BeginRemove(r) ==
    /\ Executes(r, "remove")
    /\ registry = NoRequest
    /\ LET mode == RemoveMode(parent, kind, op[r].node)
       IN  \/ /\ mode \in {"unknown", "root_policy_reject", "unsupported"}
              /\ Refuse(r)
              /\ UNCHANGED <<scratch, wantParent>>
           \/ /\ mode \in DomainSafeModes \cup CoordinatorModes
              /\ doomed' = [doomed EXCEPT ![r] =
                    IF mode \in RecursiveModes THEN {} ELSE {op[r].node}]
              /\ wantParent' = [wantParent EXCEPT ![r] = parent[op[r].node]]
              /\ Goto(r, IF mode \in CoordinatorModes THEN "lockStructure" ELSE "unlink")
              /\ UNCHANGED <<result, doomedBytes>>
    /\ UNCHANGED <<document, revision, locks, mutexes, op, guard, want,
                   seenRevision, attempts>>

\* maybeAcquireParentLock: the children of a root or split container.
LockStructure(r) ==
    /\ pc[r] = "lockStructure"
    /\ LET p == IF op[r].op = "append" THEN op[r].node ELSE wantParent[r]
       IN  /\ OwnerOf(parentOwner, p) = NoRequest
           /\ parentOwner' = Take(parentOwner, p, r)
    /\ Goto(r, IF op[r].op = "append" THEN "link" ELSE "unlink")
    /\ UNCHANGED <<document, revision, domainOwner, coordinator,
                   mutexes, op, result, planning, scratch>>

\* reserveNodeId, then prepareNodeWithId: a missing parent wastes the id.
Link(r) ==
    /\ pc[r] = "link"
    /\ registry = NoRequest
    /\ \/ /\ op[r].node \in Live
          /\ registry' = r
          /\ Goto(r, "mutate")
          /\ UNCHANGED <<nextId, result>>
       \/ /\ op[r].node \notin Live
          /\ nextId' = nextId + 1
          /\ Refuse(r)
          /\ UNCHANGED registry
    /\ UNCHANGED <<parent, kind, len, title, contentBytes, revision, locks, accounting, op,
                   planning, scratch>>

\* A leaf's postorder was fixed when it was classified, a subtree's is
\* collected now; both fail on a node that is gone (UnknownNode).
Unlink(r) ==
    /\ pc[r] = "unlink"
    /\ registry = NoRequest
    /\ \/ /\ op[r].node \in Live
          /\ registry' = r
          /\ LET nodes == IF doomed[r] = {} THEN Subtree(parent, op[r].node) ELSE doomed[r]
             IN  /\ doomed' = [doomed EXCEPT ![r] = nodes]
                 /\ doomedBytes' = [doomedBytes EXCEPT ![r] = SumFunctionOnSet(len, nodes)]
          /\ Goto(r, "lockContent")
          /\ UNCHANGED result
       \/ /\ op[r].node \notin Live
          /\ Refuse(r)
          /\ UNCHANGED <<registry, scratch>>
    /\ UNCHANGED <<document, revision, locks, accounting, op, planning>>

Without(f, S) == [n \in DOMAIN f \ S |-> f[n]]
With(f, n, v) == [m \in DOMAIN f \cup {n} |-> IF m = n THEN v ELSE f[m]]

\* What the document holds besides the bytes that a write replaces.
Retained(r) == contentBytes - (IF op[r].op = "text" THEN 0 ELSE len[op[r].node])

\* reserveAdditionalContentBytes and reserveReplacementContentBytes.
Fits(r) == Retained(r) \in 0 .. MaxContentBytes - op[r].bytes

(***************************************************************************)
(* appendTextToStableNode and setStableNodeContent: the node's bytes, then *)
(* the aggregate.  A replacement by the very content the node has returns  *)
(* early; the lengths are then the same.                                   *)
(***************************************************************************)
CommitContent(r) ==
    /\ op[r].op \in ContentWrites
    /\ Fits(r)
    /\ len' = [len EXCEPT ![op[r].node] =
                    IF op[r].op = "text" THEN @ + op[r].bytes ELSE op[r].bytes]
    /\ contentBytes' = Retained(r) + op[r].bytes
    /\ UNCHANGED <<parent, kind, title, nextId, revision>>

\* Variant: the node gets its bytes before the cap is looked at.
TooLargeTooLate(r) ==
    /\ op[r].op \in ContentWrites
    /\ ~ Fits(r)
    /\ len' = [len EXCEPT ![op[r].node] = op[r].bytes]
    /\ UNCHANGED <<parent, kind, title, contentBytes, nextId, revision>>

\* DocumentTooLarge: nothing is written here; an update has its title already.
TooLarge(r) ==
    /\ op[r].op \in ContentWrites
    /\ ~ Fits(r)
    /\ UNCHANGED <<document, revision>>

\* commitPreparedNode, with the id reserved by Link, and markTopologyChanged.
CommitAppend(r) ==
    /\ op[r].op = "append"
    /\ parent' = With(parent, nextId, op[r].node)
    /\ kind' = With(kind, nextId, op[r].kind)
    /\ len' = With(len, nextId, 0)
    /\ title' = With(title, nextId, << >>)
    /\ nextId' = nextId + 1
    /\ revision' = revision + 1
    /\ UNCHANGED contentBytes

\* Variant: the registry keeps an entry of the removed nodes.
CommitRemovePartly(r) ==
    /\ op[r].op = "remove"
    /\ parent' = Without(parent, doomed[r])
    /\ len' = Without(len, doomed[r])
    /\ title' = Without(title, doomed[r])
    /\ contentBytes' = contentBytes - doomedBytes[r]
    /\ revision' = revision + 1
    /\ UNCHANGED <<kind, nextId>>

\* detachChildFromParent, removeDetachedPostorder and markTopologyChanged.
CommitRemove(r) ==
    /\ op[r].op = "remove"
    /\ parent' = Without(parent, doomed[r])
    /\ kind' = Without(kind, doomed[r])
    /\ len' = Without(len, doomed[r])
    /\ title' = Without(title, doomed[r])
    /\ contentBytes' = contentBytes - doomedBytes[r]
    /\ revision' = revision + 1
    /\ UNCHANGED nextId

\* The write ends, or was refused; its mutexes are free again.
Mutate(r) ==
    /\ pc[r] = "mutate"
    /\ \/ (CommitContent(r) \/ CommitAppend(r) \/ CommitRemove(r)) /\ Answer(r, "ok")
       \/ TooLarge(r) /\ Answer(r, "error")
    /\ registry' = IF registry = r THEN NoRequest ELSE registry
    /\ accounting' = IF accounting = r THEN NoRequest ELSE accounting
    /\ Goto(r, "release")
    /\ UNCHANGED <<locks, op, planning, scratch>>

\* RequestGuard.release, and the parent lock the handler took.
Release(r) ==
    /\ pc[r] = "release"
    /\ domainOwner' = Free(domainOwner, r)
    /\ parentOwner' = Free(parentOwner, r)
    /\ coordinator' = IF coordinator = r THEN NoRequest ELSE coordinator
    /\ guard' = [guard EXCEPT ![r] = "none"]
    /\ Goto(r, "done")
    /\ UNCHANGED <<document, revision, mutexes, op, result, want,
                   wantParent, seenRevision, attempts, scratch>>

Acquire(r) ==
    \/ Plan(r) \/ LockDomain(r) \/ LockParent(r) \/ Validate(r)
    \/ AcquireCoordinator(r) \/ DropCoordinator(r)
Execute(r) ==
    \/ Read(r) \/ BeginUpdate(r) \/ Retitle(r) \/ FindContentNode(r) \/ LockContent(r)
    \/ BeginAppend(r) \/ BeginRemove(r) \/ LockStructure(r)
    \/ Link(r) \/ Unlink(r) \/ Mutate(r)
Work(r) == Acquire(r) \/ Execute(r) \/ Release(r)

\* Every request was answered: nothing is left to do.
AllDone == (\A r \in Requests : pc[r] = "done") /\ UNCHANGED vars

Next == (\E r \in Requests : Submit(r) \/ Work(r)) \/ AllDone

Spec == Init /\ [][Next]_vars

\* A worker thread that can take its next step eventually does.
FairSpec == Spec /\ \A r \in Requests : WF_vars(Work(r))

-----------------------------------------------------------------------------
(* Properties.                                                             *)

Labels == {"idle", "plan", "coordinate", "lock", "lockParent", "validate",
           "dropCoordinator", "execute", "retitle", "lookup", "lockContent",
           "lockStructure", "link", "unlink", "mutate", "release", "done"}

\* The title of a node, as the requests that wrote it.
Titles == Seq(Requests)

\* Every variable has its type; the two byte counts are ContentAccounted's.
TypeOK ==
    /\ Live \subseteq Nat
    /\ parent \in [Live -> Nat]
    /\ kind \in [Live -> NodeKinds]
    /\ len \in [Live -> Nat]
    /\ title \in [Live -> Titles]
    /\ nextId \in Nat
    /\ revision \in Nat
    /\ domainOwner \in [DOMAIN domainOwner -> Requests \cup {NoRequest}]
    /\ parentOwner \in [DOMAIN parentOwner -> Requests \cup {NoRequest}]
    /\ {coordinator, registry, accounting} \subseteq Requests \cup {NoRequest}
    /\ op \in [Requests -> Operations \cup {NoOperation}]
    /\ result \in [Requests -> {"none", "ok", "error"}]
    /\ pc \in [Requests -> Labels]
    /\ guard \in [Requests -> GuardKinds]
    /\ want \in [Requests -> SUBSET DOMAIN domainOwner]
    /\ wantParent \in [Requests -> Nat]
    /\ seenRevision \in [Requests -> Nat]
    /\ attempts \in [Requests -> Nat]
    /\ doomed \in [Requests -> SUBSET Nat]

\* A request that runs its handler, from the granted guard to its release.
Executing(r) == pc[r] \in {"execute", "retitle", "lookup", "lockContent",
                           "lockStructure", "link", "unlink", "mutate", "release"}
Writing(r) == Executing(r) /\ guard[r] # "quiescent_read"

(***************************************************************************)
(* Two writers run side by side only on disjoint concurrency domains, and  *)
(* a coordinator-exclusive writer runs beside no other writer: the promise *)
(* of RequestGuard (store.zig:153).                                        *)
(***************************************************************************)
WritersExcluded ==
    \A r, s \in Requests :
        (r # s /\ Writing(r) /\ Writing(s)) =>
            /\ guard[r] \in DynamicGuards /\ guard[s] \in DynamicGuards
            /\ want[r] \cap want[s] = {}

(***************************************************************************)
(* A guard granted on a validated plan stays right while the handler runs: *)
(* up to its write, planning the same request again would ask for the same *)
(* locks, whatever writers of other domains did to the tree meanwhile      *)
(* (acquireRequestGuard, store.zig:543: the revision is compared once).    *)
(***************************************************************************)
GrantedPlanHolds ==
    \A r \in Requests :
        (Executing(r) /\ guard[r] \in DynamicGuards /\ result[r] = "none") =>
            LET plan == GuardPlan(op[r])
            IN  plan.guard = guard[r] /\ plan.domains = want[r]

(***************************************************************************)
(* Nothing is left hanging in the registry: the live nodes are the root    *)
(* and children of live nodes.  removeNodeWithRuntime classifies, lets the *)
(* registry mutex go, and removes what it classified (store.zig:1691).     *)
(***************************************************************************)
NoOrphans ==
    /\ RootId \in Live
    /\ \A n \in Live \ {RootId} : parent[n] \in Live

(***************************************************************************)
(* content_bytes is the sum over the live nodes, although a removal adds   *)
(* up its nodes before it takes content_bytes_mutex (store.zig:1737), and  *)
(* never more than the cap that the writers race for (document.zig:769).   *)
(***************************************************************************)
ContentAccounted ==
    /\ contentBytes = SumFunction(len)
    /\ contentBytes <= MaxContentBytes

(***************************************************************************)
(* What a quiescent read does exclude: writers of the domains that had a   *)
(* lock when it started and, if there was one, coordinator-exclusive       *)
(* writers.  Domains locked for the first time later are not excluded      *)
(* (acquireQuiescentRead, store.zig:252).                                  *)
(***************************************************************************)
ReadersExcludeKnownDomains ==
    \A r, s \in Requests :
        (/\ Executing(r) /\ guard[r] = "quiescent_read"
         /\ Writing(s)) =>
            /\ want[r] \cap want[s] = {}
            /\ guard[s] = "coordinator_exclusive" => want[r] = {}

\* Every worker that took a request finishes it: no deadlock, no livelock
\* through the bounded retries (store.zig:544).
EveryRequestFinishes == \A r \in Requests : (pc[r] # "idle") ~> (pc[r] = "done")

\* Between the two halves of an update of title and content.
Half(r) == \/ pc[r] = "lookup"
           \/ pc[r] \in {"lockContent", "mutate"} /\ op[r].op = "update"

\* The titles without that of an update that has not come to its content.
Settled == [n \in Live |->
    IF \E r \in Requests : Half(r) /\ op[r].node = n
    THEN SubSeq(title[n], 1, Len(title[n]) - 1) ELSE title[n]]

(***************************************************************************)
(* Writes are linearizable: each takes effect, or is refused, at one       *)
(* instant.  The two writes of an update are one: nobody sees its title    *)
(* and then changes the document before its content is there or refused    *)
(* (updateNode, store.zig:1039).                                           *)
(***************************************************************************)
Atomic == INSTANCE AtomicDocument WITH title <- Settled
WritesAreAtomic == Atomic!Spec
=============================================================================

------------------------- MODULE RequestGuardsProofs -------------------------
(***************************************************************************)
(* Proofs about RequestGuards for any set of requests, any operations, any *)
(* finite tree to start with and any retry limit.                          *)
(*                                                                         *)
(* TypeCorrect shows TypeOK.  GuardInv strengthens it with what each       *)
(* worker knows of the locks at each label; it is inductive, and from it   *)
(* follow WritersExcluded and ReadersExcludeKnownDomains: whatever plans,  *)
(* retries and fallbacks interleave, the locks behind a granted guard are  *)
(* the ones the guard's kind promises.  PlanInv, DoomInv, CountInv and     *)
(* TitleInv add what a granted plan, a removal, a count of bytes and half  *)
(* an update rely on, up to WritesTakeEffectAtOnce.                        *)
(***************************************************************************)
EXTENDS RequestGuards, DocumentTreeProofs, SequenceTheorems

\* A worker past its submission has a real operation.
Submitted == \A r \in Requests : pc[r] # "idle" => op[r] \in Operations

TypeInv == TypeOK /\ Submitted

-----------------------------------------------------------------------------
(* Lemmas about the plans and the locks.                                   *)

\* A removal that is not refused names a live node.
LEMMA RemovableIsLive ==
    ASSUME NEW n, RemoveMode(parent, kind, n) \in DomainSafeModes \cup CoordinatorModes
    PROVE  n \in Live
BY DEF RemoveMode, DomainSafeModes, CoordinatorModes, Live

\* The parent whose lock a plan asks for is an id.
LEMMA PlanParentIsId ==
    ASSUME TypeOK, NEW o \in Operation
    PROVE  GuardPlan(o).parent \in Nat
<1>1. NoPlan.parent \in Nat
    BY DEF NoPlan, NoNode
<1>2. ContentPlan(o.node).parent \in Nat
    BY <1>1 DEF ContentPlan, NoNode
<1>3. AppendPlan(o.node).parent \in Nat
    BY <1>1 DEF AppendPlan, Operation
<1>4. RemovePlan(o.node).parent \in Nat
    <2>1. CASE RemoveMode(parent, kind, o.node) \in DomainSafeModes
        <3>1. o.node \in Live
            BY <2>1, RemovableIsLive
        <3>. QED  BY <2>1, <3>1 DEF RemovePlan, TypeOK
    <2>2. CASE RemoveMode(parent, kind, o.node) \notin DomainSafeModes
        BY <2>2, <1>1 DEF RemovePlan, NoNode
    <2>. QED  BY <2>1, <2>2
<1>. QED  BY <1>1, <1>2, <1>3, <1>4 DEF GuardPlan

\* A plan is one of the guards a worker validates, or there is none.
LEMMA PlanGuardIsKnown ==
    ASSUME NEW o
    PROVE  GuardPlan(o).guard \in DynamicGuards \cup {"none"}
BY DEF GuardPlan, ContentPlan, AppendPlan, RemovePlan, NoPlan, DynamicGuards

\* A granted plan asks for at least one domain.
LEMMA PlanHasDomains ==
    ASSUME NEW o, GuardPlan(o) # NoPlan
    PROVE  GuardPlan(o).guard \in DynamicGuards /\ GuardPlan(o).domains # {}
<1>1. ContentPlan(o.node) = NoPlan \/ (ContentPlan(o.node).guard \in DynamicGuards
                                       /\ ContentPlan(o.node).domains # {})
    BY DEF ContentPlan, DynamicGuards
<1>2. AppendPlan(o.node) = NoPlan \/ (AppendPlan(o.node).guard \in DynamicGuards
                                      /\ AppendPlan(o.node).domains # {})
    BY DEF AppendPlan, DynamicGuards
<1>3. RemovePlan(o.node) = NoPlan \/ (RemovePlan(o.node).guard \in DynamicGuards
                                      /\ RemovePlan(o.node).domains # {})
    <2> DEFINE D == ParticipatingDomains(parent, kind, o.node)
    <2>1. Cardinality(D) >= 2 => D # {}
        BY FS_EmptySet
    <2>. QED  BY <2>1 DEF RemovePlan, DynamicGuards
<1>. QED  BY <1>1, <1>2, <1>3 DEF GuardPlan

-----------------------------------------------------------------------------
(* Type correctness.                                                       *)

\* A document that was just created, with no request submitted, has its types.
LEMMA TypeInit == Init => TypeInv
<1>1. Cardinality(DOMAIN InitParent) \in Nat
    BY TreeAssumption, FS_CardinalityType
<1>. QED
    BY <1>1, TreeAssumption, OperationsAssumption
    DEF Init, TypeInv, TypeOK, Submitted, Live, GuardKinds, Labels, NoNode, Titles

\* Every step of a worker, from Submit to Release, keeps the types.
LEMMA TypeStep == TypeInv /\ [Next]_vars => TypeInv'
<1> SUFFICES ASSUME TypeInv, [Next]_vars PROVE TypeInv'
    OBVIOUS
<1> USE DEF TypeInv, TypeOK, Submitted, Live
<1>1. ASSUME NEW r \in Requests, Submit(r) PROVE TypeInv'
    BY <1>1 DEF Submit, Goto, GuardKinds, Labels, document, locks, mutexes, scratch
<1>2. ASSUME NEW r \in Requests, Plan(r) PROVE TypeInv'
    <2> DEFINE plan == GuardPlan(op[r])
    <2>1. op[r] \in Operation
        BY <1>2, OperationsAssumption DEF Plan
    <2>2. plan.parent \in Nat /\ plan.guard \in GuardKinds
        BY <2>1, PlanParentIsId, PlanGuardIsKnown DEF GuardKinds
    <2> HIDE DEF plan
    <2>3. /\ domainOwner' = Ensure(domainOwner, plan.domains)
          /\ parentOwner' = Ensure(parentOwner, {plan.parent} \ {NoNode})
          /\ want' = [want EXCEPT ![r] = plan.domains]
          /\ wantParent' = [wantParent EXCEPT ![r] = plan.parent]
          /\ guard' = [guard EXCEPT ![r] =
                IF plan = NoPlan THEN "coordinator_exclusive" ELSE plan.guard]
          /\ pc' = [pc EXCEPT ![r] = IF plan = NoPlan THEN "coordinate" ELSE "lock"]
          /\ seenRevision' = [seenRevision EXCEPT ![r] = revision]
          /\ UNCHANGED <<document, revision, coordinator, mutexes, op, result, attempts,
                         scratch>>
        BY <1>2 DEF Plan, Goto, plan
    <2>4. /\ domainOwner' \in [DOMAIN domainOwner' -> Requests \cup {NoRequest}]
          /\ DOMAIN domainOwner' = DOMAIN domainOwner \cup plan.domains
        BY <2>3 DEF Ensure, OwnerOf
    <2>5. parentOwner' \in [DOMAIN parentOwner' -> Requests \cup {NoRequest}]
        BY <2>3 DEF Ensure, OwnerOf
    <2>6. want' \in [Requests -> SUBSET DOMAIN domainOwner']
        BY <2>3, <2>4
    <2>7. /\ guard' \in [Requests -> GuardKinds]
          /\ wantParent' \in [Requests -> Nat]
          /\ pc' \in [Requests -> Labels]
          /\ seenRevision' \in [Requests -> Nat]
        BY <2>2, <2>3 DEF GuardKinds, Labels
    <2>8. Submitted'
        BY <1>2, <2>3 DEF Plan
    <2>. QED
        BY <2>3, <2>4, <2>5, <2>6, <2>7, <2>8 DEF document, mutexes, scratch
<1>3. ASSUME NEW r \in Requests, LockDomain(r) PROVE TypeInv'
    BY <1>3 DEF LockDomain, Goto, Labels, Take, AfterDomains, document, mutexes, planning, scratch
<1>4. ASSUME NEW r \in Requests, LockParent(r) PROVE TypeInv'
    BY <1>4 DEF LockParent, Goto, Labels, Take, document, mutexes, planning, scratch
<1>5. ASSUME NEW r \in Requests, Validate(r) PROVE TypeInv'
    <2>1. /\ pc' \in [Requests -> Labels]
          /\ \A s \in Requests : pc'[s] # "idle" => pc[s] # "idle"
        BY <1>5 DEF Validate, Goto, Labels
    <2>2. /\ Free(domainOwner, r) \in [DOMAIN domainOwner -> Requests \cup {NoRequest}]
          /\ Free(parentOwner, r) \in [DOMAIN parentOwner -> Requests \cup {NoRequest}]
        BY DEF Free
    <2>3. /\ domainOwner' \in {domainOwner, Free(domainOwner, r)}
          /\ parentOwner' \in {parentOwner, Free(parentOwner, r)}
          /\ guard' \in {guard, [guard EXCEPT ![r] = "coordinator_exclusive"]}
          /\ attempts' \in {attempts, [attempts EXCEPT ![r] = @ + 1]}
        BY <1>5 DEF Validate
    <2>4. /\ UNCHANGED <<document, revision, coordinator, mutexes, op, result,
                         want, wantParent, seenRevision, scratch>>
        BY <1>5 DEF Validate
    <2>. QED
        BY <2>1, <2>2, <2>3, <2>4 DEF GuardKinds, document, mutexes, scratch
<1>6. ASSUME NEW r \in Requests, AcquireCoordinator(r) PROVE TypeInv'
    BY <1>6 DEF AcquireCoordinator, Goto, Labels, AfterDomains, document, mutexes, scratch
<1>7. ASSUME NEW r \in Requests, DropCoordinator(r) PROVE TypeInv'
    BY <1>7 DEF DropCoordinator, Goto, Labels, document, mutexes, planning, scratch
<1>8. ASSUME NEW r \in Requests, Read(r) PROVE TypeInv'
    BY <1>8 DEF Read, Executes, Goto, Answer, Labels, document, locks, mutexes, planning, scratch
<1>9. ASSUME NEW r \in Requests, BeginUpdate(r) PROVE TypeInv'
    BY <1>9
       DEF BeginUpdate, Executes, Refuse, Goto, Answer, Labels, document, locks, mutexes, planning, scratch
<1>20. ASSUME NEW r \in Requests, Retitle(r) PROVE TypeInv'
    <2>1. \A n \in Live : Append(title[n], r) \in Titles
        BY AppendProperties DEF Titles
    <2>2. title' \in [Live -> Titles]
        BY <2>1, <1>20 DEF Retitle
    <2>. QED
        BY <2>2, <1>20 DEF Retitle, Goto, Answer, Labels, locks, mutexes, planning, scratch
<1>10. ASSUME NEW r \in Requests, FindContentNode(r) PROVE TypeInv'
    BY <1>10
       DEF FindContentNode, LooksForContent, Executes, Refuse, Goto, Answer, Labels, document, locks, planning, scratch
<1>11. ASSUME NEW r \in Requests, LockContent(r) PROVE TypeInv'
    BY <1>11 DEF LockContent, Goto, Labels, document, locks, planning, scratch
<1>12. ASSUME NEW r \in Requests, BeginAppend(r) PROVE TypeInv'
    BY <1>12 DEF BeginAppend, Executes, Goto, Labels, document, locks, mutexes, planning, scratch
<1>13. ASSUME NEW r \in Requests, BeginRemove(r) PROVE TypeInv'
    <2> DEFINE mode == RemoveMode(parent, kind, op[r].node)
    <2>1. op[r].node \in Nat
        BY <1>13, OperationsAssumption DEF BeginRemove, Executes, Operation
    <2>2. CASE /\ mode \in {"unknown", "root_policy_reject", "unsupported"}
               /\ Refuse(r) /\ UNCHANGED <<scratch, wantParent>>
        BY <2>2, <1>13 DEF BeginRemove, Executes, Refuse, Goto, Answer, Labels, document,
                           locks, mutexes, scratch
    <2>3. CASE mode \in DomainSafeModes \cup CoordinatorModes
        <3>1. parent[op[r].node] \in Nat
            BY <2>3, RemovableIsLive
        <3>2. /\ \E S \in SUBSET Nat : doomed' = [doomed EXCEPT ![r] = S]
              /\ wantParent' = [wantParent EXCEPT ![r] = parent[op[r].node]]
              /\ \E label \in Labels : pc' = [pc EXCEPT ![r] = label]
              /\ UNCHANGED result
            BY <2>1, <2>3, <1>13
            DEF BeginRemove, Goto, Labels, DomainSafeModes, CoordinatorModes
        <3>. QED
            BY <3>1, <3>2, <1>13 DEF BeginRemove, Executes, document, locks, mutexes
    <2>. QED  BY <2>2, <2>3, <1>13 DEF BeginRemove
<1>14. ASSUME NEW r \in Requests, LockStructure(r) PROVE TypeInv'
    BY <1>14 DEF LockStructure, Goto, Labels, Take, document, mutexes, planning, scratch
<1>15. ASSUME NEW r \in Requests, Link(r) PROVE TypeInv'
    BY <1>15 DEF Link, Refuse, Goto, Answer, Labels, locks, planning, scratch
<1>16. ASSUME NEW r \in Requests, Unlink(r) PROVE TypeInv'
    <2>1. Subtree(parent, op[r].node) \subseteq Nat
        BY DEF Subtree
    <2>2. \E S \in SUBSET Nat : doomed' = [doomed EXCEPT ![r] = S]
        BY <2>1, <1>16 DEF Unlink, scratch
    <2>3. registry' \in {r, registry}
        BY <1>16 DEF Unlink
    <2>4. \/ pc' = [pc EXCEPT ![r] = "lockContent"] /\ UNCHANGED result
          \/ pc' = [pc EXCEPT ![r] = "release"] /\ result' = [result EXCEPT ![r] = "error"]
        BY <1>16 DEF Unlink, Refuse, Goto, Answer
    <2>. QED
        BY <2>2, <2>3, <2>4, <1>16 DEF Unlink, Labels, document, locks, planning
<1>17. ASSUME NEW r \in Requests, Mutate(r) PROVE TypeInv'
    <2>1. /\ op[r].node \in Nat /\ op[r].kind \in NodeKinds /\ op[r].bytes \in Nat
          /\ << >> \in Titles
        BY <1>17, OperationsAssumption DEF Mutate, Operation, NodeKinds, Titles
    <2> DEFINE Trees == /\ Live' \subseteq Nat
                        /\ parent' \in [Live' -> Nat]
                        /\ kind' \in [Live' -> NodeKinds]
                        /\ len' \in [Live' -> Nat]
                        /\ title' \in [Live' -> Titles]
                        /\ nextId' \in Nat
                        /\ revision' \in Nat
    <2>2. ASSUME CommitContent(r) PROVE Trees
        <3>. DEFINE n == op[r].node
                    new == IF op[r].op = "text" THEN len[n] + op[r].bytes ELSE op[r].bytes
        <3>1. len' = [len EXCEPT ![n] = new]
            BY <2>2 DEF CommitContent
        <3>2. n \in Live => new \in Nat
            BY <2>1
        <3>. HIDE DEF n, new
        <3>3. len' \in [Live -> Nat]
            BY <3>1, <3>2
        <3>. QED  BY <3>3, <2>2 DEF CommitContent
    <2>3. ASSUME CommitAppend(r) PROVE Trees
        <3>1. title' \in [Live' -> Titles]
            BY <2>1, <2>3 DEF CommitAppend, With
        <3>2. /\ parent' \in [Live' -> Nat] /\ kind' \in [Live' -> NodeKinds]
              /\ len' \in [Live' -> Nat]
            BY <2>1, <2>3 DEF CommitAppend, With
        <3>3. /\ Live' = Live \cup {nextId} /\ nextId' = nextId + 1
              /\ revision' = revision + 1
            BY <2>3 DEF CommitAppend, With
        <3>. QED  BY <3>1, <3>2, <3>3
    <2>4. ASSUME CommitRemove(r) PROVE Trees
        BY <2>4 DEF CommitRemove, Without
    <2>5. ASSUME TooLarge(r) PROVE Trees
        BY <2>5 DEF TooLarge, document
    <2>6. Trees
        BY <2>2, <2>3, <2>4, <2>5, <1>17 DEF Mutate
    <2>7. {registry', accounting'} \subseteq Requests \cup {NoRequest}
        BY <1>17 DEF Mutate
    <2>. HIDE DEF Trees
    <2>. QED
        BY <2>6, <2>7, <1>17 DEF Trees, Mutate, Goto, Answer, Labels, locks, planning, scratch
<1>18. ASSUME NEW r \in Requests, Release(r) PROVE TypeInv'
    BY <1>18 DEF Release, Goto, Labels, Free, GuardKinds, document, mutexes, scratch
<1>19. ASSUME UNCHANGED vars PROVE TypeInv'
    BY <1>19 DEF vars, document, locks, mutexes, planning, scratch
<1>. HIDE DEF TypeInv, TypeOK, Submitted, Live
<1>. QED
    BY <1>1, <1>2, <1>3, <1>4, <1>5, <1>6, <1>7, <1>8, <1>9, <1>10, <1>11, <1>12,
       <1>13, <1>14, <1>15, <1>16, <1>17, <1>18, <1>19, <1>20
    DEF Next, Work, Acquire, Execute, AllDone

(***************************************************************************)
(* Every variable keeps its type: in particular a worker only ever wants   *)
(* locks that exist, and only a worker holds one.                          *)
(***************************************************************************)
THEOREM TypeCorrect == Spec => []TypeOK
<1>1. Spec => []TypeInv
    BY TypeInit, TypeStep, PTL DEF Spec
<1>. QED
    BY <1>1, PTL DEF TypeInv

-----------------------------------------------------------------------------
(* The locks behind a guard.                                               *)

\* A worker that has every domain lock its guard asks for.
Locked(r) == pc[r] \in {"lockParent", "validate", "dropCoordinator"} \/ Executing(r)

\* A worker whose guard has a kind and a set of domains to lock.
Planned(r) == pc[r] = "lock" \/ Locked(r)

\* A worker that keeps the coordinator until it releases it.
Coordinates(r) ==
    \/ Planned(r) /\ guard[r] = "coordinator_exclusive"
    \/ pc[r] \in {"lock", "dropCoordinator"} /\ guard[r] = "quiescent_read"

KnowsGuard(r) ==
    /\ pc[r] = "coordinate" => guard[r] \in {"coordinator_exclusive", "quiescent_read"}
    /\ pc[r] \in {"lockParent", "validate"} => guard[r] \in DynamicGuards
    /\ pc[r] = "dropCoordinator" => guard[r] = "quiescent_read"
    /\ Planned(r) => guard[r] # "none"
    /\ (Planned(r) /\ guard[r] \in DynamicGuards) => want[r] # {}

OwnsLocks(r) == Locked(r) => \A d \in want[r] : domainOwner[d] = r

OwnsCoordinator(r) ==
    Coordinates(r) => coordinator = r /\ want[r] = DOMAIN domainOwner

GuardInv == \A r \in Requests : KnowsGuard(r) /\ OwnsLocks(r) /\ OwnsCoordinator(r)

\* No worker holds or wants a lock before its request is submitted.
LEMMA GuardInit == Init => GuardInv
BY DEF Init, GuardInv, KnowsGuard, OwnsLocks, OwnsCoordinator, Coordinates, Planned,
       Locked, Executing, GuardKinds, DynamicGuards

\* A handler moves from one of its labels to another and keeps the guard.
LEMMA HandlerKeepsGuard ==
    ASSUME TypeInv, GuardInv, NEW r \in Requests, NEW label,
           Executing(r), Executing(r)', pc' = [pc EXCEPT ![r] = label],
           UNCHANGED <<domainOwner, coordinator, guard, want>>
    PROVE  GuardInv'
<1>1. \A s \in Requests : s # r => pc'[s] = pc[s]
    BY DEF TypeInv, TypeOK
<1>2. Locked(r) /\ Locked(r)'
    BY DEF Locked
<1>3. /\ pc[r] \notin {"coordinate", "lock", "lockParent", "validate", "dropCoordinator"}
      /\ pc'[r] \notin {"coordinate", "lock", "lockParent", "validate", "dropCoordinator"}
    BY DEF Executing
<1>4. \A s \in Requests : KnowsGuard(s)'
    BY <1>1, <1>2, <1>3 DEF GuardInv, KnowsGuard, Planned, Locked, Executing
<1>5. \A s \in Requests : OwnsLocks(s)'
    BY <1>1, <1>2 DEF GuardInv, OwnsLocks, Locked, Executing
<1>6. \A s \in Requests : OwnsCoordinator(s)'
    BY <1>1, <1>2, <1>3 DEF GuardInv, OwnsCoordinator, Coordinates, Planned, Locked,
                            Executing
<1>. QED  BY <1>4, <1>5, <1>6 DEF GuardInv

\* Every step of a worker keeps what GuardInv says of it and of all the others:
\* locks come one by one, and go together when a plan is stale or a request ends.
LEMMA GuardStep == TypeInv /\ TypeInv' /\ GuardInv /\ [Next]_vars => GuardInv'
<1> SUFFICES ASSUME TypeInv, TypeInv', GuardInv, [Next]_vars PROVE GuardInv'
    OBVIOUS
<1>1. ASSUME NEW r \in Requests, Submit(r) PROVE GuardInv'
    <2>1. /\ pc'[r] = "plan" \/ (/\ pc'[r] = "coordinate"
                                 /\ guard'[r] \in {"coordinator_exclusive", "quiescent_read"})
          /\ \A s \in Requests : s # r => pc'[s] = pc[s] /\ guard'[s] = guard[s]
          /\ UNCHANGED <<want, domainOwner, coordinator>>
        <3>1. PICK o \in Operations :
                /\ pc' = [pc EXCEPT ![r] = IF o.op \in PlannedNames
                                           THEN "plan" ELSE "coordinate"]
                /\ guard' = [guard EXCEPT ![r] =
                        CASE o.op = "read" -> "quiescent_read"
                          [] o.op \in TitleWrites -> "coordinator_exclusive"
                          [] OTHER -> "none"]
            BY <1>1 DEF Submit, Goto
        <3>2. o.op \in OperationNames
            BY OperationsAssumption DEF Operation
        <3>. QED
            BY <1>1, <3>1, <3>2 DEF Submit, locks, TypeInv, TypeOK, OperationNames,
                                    PlannedNames, ContentWrites, TitleWrites
    <2>. QED
        BY <2>1 DEF GuardInv, KnowsGuard, OwnsLocks, OwnsCoordinator, Coordinates,
                    Planned, Locked, Executing
<1>2. ASSUME NEW r \in Requests, Plan(r) PROVE GuardInv'
    <2> DEFINE plan == GuardPlan(op[r])
    <2>1. plan # NoPlan => plan.guard \in DynamicGuards /\ plan.domains # {}
        BY PlanHasDomains
    <2> HIDE DEF plan
    <2>2. /\ pc' = [pc EXCEPT ![r] = IF plan = NoPlan THEN "coordinate" ELSE "lock"]
          /\ guard' = [guard EXCEPT ![r] =
                IF plan = NoPlan THEN "coordinator_exclusive" ELSE plan.guard]
          /\ want' = [want EXCEPT ![r] = plan.domains]
          /\ domainOwner' = Ensure(domainOwner, plan.domains)
          /\ coordinator = NoRequest /\ coordinator' = NoRequest
        BY <1>2 DEF Plan, Goto, plan
    <2>3. \A s \in Requests : s # r => pc'[s] = pc[s] /\ guard'[s] = guard[s]
                                       /\ want'[s] = want[s]
        BY <2>2 DEF TypeInv, TypeOK
    <2>4. \/ pc'[r] = "coordinate" /\ guard'[r] = "coordinator_exclusive"
          \/ pc'[r] = "lock" /\ guard'[r] \in DynamicGuards /\ want'[r] # {}
        BY <2>1, <2>2 DEF TypeInv, TypeOK
    <2>5. \A s \in Requests : \A d \in want[s] : domainOwner'[d] = domainOwner[d]
        BY <2>2 DEF Ensure, OwnerOf, TypeInv, TypeOK
    <2>6. \A s \in Requests : ~ Coordinates(s)
        BY <2>2, RequestsAssumption DEF GuardInv, OwnsCoordinator
    <2>7. \A s \in Requests : KnowsGuard(s)'
        BY <2>3, <2>4 DEF GuardInv, KnowsGuard, Planned, Locked, Executing, DynamicGuards
    <2>8. \A s \in Requests : OwnsLocks(s)'
        BY <2>3, <2>4, <2>5 DEF GuardInv, OwnsLocks, Locked, Executing
    <2>9. \A s \in Requests : ~ Coordinates(s)'
        BY <2>3, <2>4, <2>6 DEF Coordinates, Planned, Locked, Executing, DynamicGuards
    <2>. QED  BY <2>7, <2>8, <2>9 DEF GuardInv, OwnsCoordinator
<1>3. ASSUME NEW r \in Requests, LockDomain(r) PROVE GuardInv'
    <2>1. PICK d \in DOMAIN domainOwner :
            /\ LocksNext(r, d)
            /\ domainOwner[d] = NoRequest
            /\ domainOwner' = Take(domainOwner, d, r)
            /\ pc' = [pc EXCEPT ![r] = IF want[r] \subseteq Held(r) \cup {d}
                                       THEN AfterDomains(r) ELSE "lock"]
        BY <1>3 DEF LockDomain, Goto
    <2>2. pc[r] = "lock" /\ UNCHANGED <<coordinator, guard, want>>
        BY <1>3 DEF LockDomain, planning
    <2>3. /\ DOMAIN domainOwner' = DOMAIN domainOwner
          /\ domainOwner'[d] = r
          /\ \A e \in DOMAIN domainOwner : domainOwner[e] # NoRequest => domainOwner'[e] = domainOwner[e]
        BY <2>1 DEF Take
    <2>4. \A s \in Requests : s # r => pc'[s] = pc[s]
        BY <2>1 DEF TypeInv, TypeOK
    <2>5. \/ pc'[r] = "lock"
          \/ pc'[r] = AfterDomains(r) /\ \A e \in want[r] : domainOwner'[e] = r
        BY <2>1, <2>3, RequestsAssumption DEF Held, TypeInv, TypeOK
    <2>6. Planned(r) /\ guard[r] \in GuardKinds
        BY <2>2 DEF Planned, TypeInv, TypeOK
    <2>7. \A s \in Requests : KnowsGuard(s)'
        BY <2>2, <2>4, <2>5, <2>6 DEF GuardInv, KnowsGuard, AfterDomains, Planned, Locked,
                               Executing, DynamicGuards, GuardKinds
    <2>8. \A s \in Requests : OwnsLocks(s)'
        BY <2>2, <2>3, <2>4, <2>5, RequestsAssumption
        DEF GuardInv, OwnsLocks, Locked, Executing, TypeInv, TypeOK
    <2>9. \A s \in Requests : Coordinates(s)' => Coordinates(s)
        BY <2>2, <2>4, <2>5, <2>6 DEF Coordinates, AfterDomains, Planned, Locked, Executing
    <2>. QED  BY <2>2, <2>3, <2>7, <2>8, <2>9 DEF GuardInv, OwnsCoordinator
<1>4. ASSUME NEW r \in Requests, LockParent(r) PROVE GuardInv'
    BY <1>4 DEF LockParent, Goto, planning, GuardInv, KnowsGuard, OwnsLocks,
                OwnsCoordinator, Coordinates, Planned, Locked, Executing, TypeInv, TypeOK
<1>5. ASSUME NEW r \in Requests, Validate(r) PROVE GuardInv'
    BY <1>5 DEF Validate, Goto, Free, GuardInv, KnowsGuard, OwnsLocks,
                OwnsCoordinator, Coordinates, Planned, Locked, Executing, TypeInv, TypeOK
<1>6. ASSUME NEW r \in Requests, AcquireCoordinator(r) PROVE GuardInv'
    <2>1. /\ pc[r] = "coordinate" /\ coordinator = NoRequest /\ coordinator' = r
          /\ want' = [want EXCEPT ![r] = DOMAIN domainOwner]
          /\ pc' = [pc EXCEPT ![r] = IF DOMAIN domainOwner = {} THEN AfterDomains(r)
                                     ELSE "lock"]
          /\ UNCHANGED <<domainOwner, guard>>
        BY <1>6 DEF AcquireCoordinator, Goto
    <2>2. \A s \in Requests : s # r => pc'[s] = pc[s] /\ want'[s] = want[s]
        BY <2>1 DEF TypeInv, TypeOK
    <2>3. guard[r] \in {"coordinator_exclusive", "quiescent_read"}
        BY <2>1 DEF GuardInv, KnowsGuard
    <2>4. /\ want'[r] = DOMAIN domainOwner
          /\ \/ pc'[r] = "lock"
             \/ /\ want'[r] = {}
                /\ \/ pc'[r] = "execute" /\ guard[r] = "coordinator_exclusive"
                   \/ pc'[r] = "dropCoordinator" /\ guard[r] = "quiescent_read"
        BY <2>1, <2>3 DEF AfterDomains, TypeInv, TypeOK
    <2>5. \A s \in Requests : ~ Coordinates(s)
        BY <2>1, RequestsAssumption DEF GuardInv, OwnsCoordinator
    <2>6. \A s \in Requests : KnowsGuard(s)'
        BY <2>1, <2>2, <2>3, <2>4 DEF GuardInv, KnowsGuard, Planned, Locked, Executing,
                                      DynamicGuards
    <2>7. \A s \in Requests : OwnsLocks(s)'
        BY <2>1, <2>2, <2>4 DEF GuardInv, OwnsLocks, Locked, Executing
    <2>8. \A s \in Requests : Coordinates(s)' => s = r
        BY <2>1, <2>2, <2>5 DEF Coordinates, Planned, Locked, Executing
    <2>. QED  BY <2>1, <2>4, <2>6, <2>7, <2>8 DEF GuardInv, OwnsCoordinator
<1>7. ASSUME NEW r \in Requests, DropCoordinator(r) PROVE GuardInv'
    BY <1>7 DEF DropCoordinator, Goto, planning, GuardInv, KnowsGuard, OwnsLocks,
                OwnsCoordinator, Coordinates, Planned, Locked, Executing, TypeInv, TypeOK
<1>8. ASSUME NEW r \in Requests, Read(r) PROVE GuardInv'
    <2>1. \E label \in Labels : pc' = [pc EXCEPT ![r] = label]
        BY <1>8 DEF Read, Executes, Goto, locks, planning, Answer, Labels
    <2>2. Executing(r) /\ Executing(r)' /\ UNCHANGED <<domainOwner, coordinator, guard, want>>
        BY <1>8 DEF Read, Executes, Goto, locks, planning, Answer, Executing, TypeInv, TypeOK
    <2>. QED  BY <2>1, <2>2, HandlerKeepsGuard
<1>9. ASSUME NEW r \in Requests, BeginUpdate(r) PROVE GuardInv'
    <2>1. \E label \in Labels : pc' = [pc EXCEPT ![r] = label]
        BY <1>9 DEF BeginUpdate, Executes, Refuse, Goto, locks, planning, Labels
    <2>2. Executing(r) /\ Executing(r)' /\ UNCHANGED <<domainOwner, coordinator, guard, want>>
        BY <1>9 DEF BeginUpdate, Executes, Refuse, Goto, locks, planning, Executing, TypeInv, TypeOK
    <2>. QED  BY <2>1, <2>2, HandlerKeepsGuard
<1>20. ASSUME NEW r \in Requests, Retitle(r) PROVE GuardInv'
    <2>1. \E label \in Labels : pc' = [pc EXCEPT ![r] = label]
        BY <1>20 DEF Retitle, Goto, locks, planning, Labels
    <2>2. Executing(r) /\ Executing(r)' /\ UNCHANGED <<domainOwner, coordinator, guard, want>>
        BY <1>20 DEF Retitle, Goto, locks, planning, Executing, TypeInv, TypeOK
    <2>. QED  BY <2>1, <2>2, HandlerKeepsGuard
<1>10. ASSUME NEW r \in Requests, FindContentNode(r) PROVE GuardInv'
    <2>1. \E label \in Labels : pc' = [pc EXCEPT ![r] = label]
        BY <1>10 DEF FindContentNode, Executes, Refuse, Goto, locks, planning, Labels
    <2>2. Executing(r) /\ Executing(r)' /\ UNCHANGED <<domainOwner, coordinator, guard, want>>
        BY <1>10
           DEF FindContentNode, LooksForContent, Executes, Refuse, Goto, locks, planning, Executing, TypeInv, TypeOK
    <2>. QED  BY <2>1, <2>2, HandlerKeepsGuard
<1>11. ASSUME NEW r \in Requests, LockContent(r) PROVE GuardInv'
    <2>1. \E label \in Labels : pc' = [pc EXCEPT ![r] = label]
        BY <1>11 DEF LockContent, Goto, locks, planning, Labels
    <2>2. Executing(r) /\ Executing(r)' /\ UNCHANGED <<domainOwner, coordinator, guard, want>>
        BY <1>11 DEF LockContent, Goto, locks, planning, Executing, TypeInv, TypeOK
    <2>. QED  BY <2>1, <2>2, HandlerKeepsGuard
<1>12. ASSUME NEW r \in Requests, BeginAppend(r) PROVE GuardInv'
    <2>1. \E label \in Labels : pc' = [pc EXCEPT ![r] = label]
        BY <1>12 DEF BeginAppend, Executes, Goto, locks, planning, Labels
    <2>2. Executing(r) /\ Executing(r)' /\ UNCHANGED <<domainOwner, coordinator, guard, want>>
        BY <1>12 DEF BeginAppend, Executes, Goto, locks, planning, Executing, TypeInv, TypeOK
    <2>. QED  BY <2>1, <2>2, HandlerKeepsGuard
<1>13. ASSUME NEW r \in Requests, BeginRemove(r) PROVE GuardInv'
    <2>1. \E label \in Labels : pc' = [pc EXCEPT ![r] = label]
        BY <1>13 DEF BeginRemove, Executes, Refuse, Goto, locks, Labels
    <2>2. Executing(r) /\ Executing(r)' /\ UNCHANGED <<domainOwner, coordinator, guard, want>>
        BY <1>13 DEF BeginRemove, Executes, Refuse, Goto, locks, Executing, TypeInv, TypeOK
    <2>. QED  BY <2>1, <2>2, HandlerKeepsGuard
<1>14. ASSUME NEW r \in Requests, LockStructure(r) PROVE GuardInv'
    <2>1. \E label \in Labels : pc' = [pc EXCEPT ![r] = label]
        BY <1>14 DEF LockStructure, Goto, planning, Labels
    <2>2. Executing(r) /\ Executing(r)' /\ UNCHANGED <<domainOwner, coordinator, guard, want>>
        BY <1>14 DEF LockStructure, Goto, planning, Executing, TypeInv, TypeOK
    <2>. QED  BY <2>1, <2>2, HandlerKeepsGuard
<1>15. ASSUME NEW r \in Requests, Link(r) PROVE GuardInv'
    <2>1. \E label \in Labels : pc' = [pc EXCEPT ![r] = label]
        BY <1>15 DEF Link, Refuse, Goto, locks, planning, Labels
    <2>2. Executing(r) /\ Executing(r)' /\ UNCHANGED <<domainOwner, coordinator, guard, want>>
        BY <1>15 DEF Link, Refuse, Goto, locks, planning, Executing, TypeInv, TypeOK
    <2>. QED  BY <2>1, <2>2, HandlerKeepsGuard
<1>16. ASSUME NEW r \in Requests, Unlink(r) PROVE GuardInv'
    <2>1. \E label \in Labels : pc' = [pc EXCEPT ![r] = label]
        BY <1>16 DEF Unlink, Refuse, Goto, locks, planning, Labels
    <2>2. Executing(r) /\ Executing(r)' /\ UNCHANGED <<domainOwner, coordinator, guard, want>>
        BY <1>16 DEF Unlink, Refuse, Goto, locks, planning, Executing, TypeInv, TypeOK
    <2>. QED  BY <2>1, <2>2, HandlerKeepsGuard
<1>17. ASSUME NEW r \in Requests, Mutate(r) PROVE GuardInv'
    <2>1. \E label \in Labels : pc' = [pc EXCEPT ![r] = label]
        BY <1>17 DEF Mutate, Goto, locks, planning, Labels
    <2>2. Executing(r) /\ Executing(r)' /\ UNCHANGED <<domainOwner, coordinator, guard, want>>
        BY <1>17 DEF Mutate, Goto, locks, planning, Executing, TypeInv, TypeOK
    <2>. QED  BY <2>1, <2>2, HandlerKeepsGuard
<1>18. ASSUME NEW r \in Requests, Release(r) PROVE GuardInv'
    BY <1>18 DEF Release, Goto, Free, GuardInv, KnowsGuard, OwnsLocks,
                OwnsCoordinator, Coordinates, Planned, Locked, Executing, TypeInv, TypeOK
<1>19. ASSUME UNCHANGED vars PROVE GuardInv'
    BY <1>19 DEF vars, locks, planning, GuardInv, KnowsGuard, OwnsLocks,
                 OwnsCoordinator, Coordinates, Planned, Locked, Executing
<1>. QED
    BY <1>1, <1>2, <1>3, <1>4, <1>5, <1>6, <1>7, <1>8, <1>9, <1>10, <1>11, <1>12,
       <1>13, <1>14, <1>15, <1>16, <1>17, <1>18, <1>19, <1>20
    DEF Next, Work, Acquire, Execute, AllDone

\* The invariant holds in every reachable state: a worker at its handler owns
\* the domain locks, and if exclusive the coordinator, its guard stands for.
LEMMA GuardsHold == Spec => [](TypeInv /\ GuardInv)
<1>1. Init => TypeInv /\ GuardInv
    BY TypeInit, GuardInit
<1>2. (TypeInv /\ GuardInv) /\ [Next]_vars => (TypeInv /\ GuardInv)'
    BY TypeStep, GuardStep
<1>. QED  BY <1>1, <1>2, PTL DEF Spec

\* Writers that own disjoint sets of locks are writers of disjoint domains.
LEMMA DisjointLocks == TypeInv /\ GuardInv => WritersExcluded
<1> SUFFICES ASSUME TypeInv, GuardInv, NEW r \in Requests, NEW s \in Requests,
                    r # s, Writing(r), Writing(s)
             PROVE  /\ guard[r] \in DynamicGuards /\ guard[s] \in DynamicGuards
                    /\ want[r] \cap want[s] = {}
    BY DEF WritersExcluded
<1>1. \A q \in {r, s} :
        /\ guard[q] \in DynamicGuards \cup {"coordinator_exclusive"}
        /\ guard[q] \in DynamicGuards => want[q] # {}
        /\ \A d \in want[q] : domainOwner[d] = q
        /\ guard[q] = "coordinator_exclusive" =>
                coordinator = q /\ want[q] = DOMAIN domainOwner
    BY DEF Writing, GuardInv, KnowsGuard, OwnsLocks, OwnsCoordinator, Coordinates,
           Planned, Locked, GuardKinds, TypeInv, TypeOK
<1>2. want[r] \cap want[s] = {}
    BY <1>1
<1>3. want[r] \subseteq DOMAIN domainOwner /\ want[s] \subseteq DOMAIN domainOwner
    BY DEF TypeInv, TypeOK
<1>4. guard[r] \in DynamicGuards /\ guard[s] \in DynamicGuards
    BY <1>1, <1>2, <1>3
<1>. QED  BY <1>2, <1>4

(***************************************************************************)
(* Two writers at a time are writers of disjoint domains: the exclusion    *)
(* RequestGuard stands for (store.zig:153), for every number of workers,   *)
(* through every plan, retry and fallback.                                 *)
(***************************************************************************)
THEOREM WritersAreExcluded == Spec => []WritersExcluded
<1>. QED  BY GuardsHold, DisjointLocks, PTL

(***************************************************************************)
(* While a quiescent read runs, nobody writes a domain the read found      *)
(* locked or lockable when it started (acquireQuiescentRead,               *)
(* store.zig:252).                                                         *)
(***************************************************************************)
THEOREM ReadersAreExcluded == Spec => []ReadersExcludeKnownDomains
<1>1. TypeInv /\ GuardInv => ReadersExcludeKnownDomains
    <2> SUFFICES ASSUME TypeInv, GuardInv, NEW r \in Requests, NEW s \in Requests,
                        Executing(r), guard[r] = "quiescent_read", Writing(s)
                 PROVE  /\ want[r] \cap want[s] = {}
                        /\ guard[s] = "coordinator_exclusive" => want[r] = {}
        BY DEF ReadersExcludeKnownDomains
    <2>1. r # s
        BY DEF Writing
    <2>2. want[r] \cap want[s] = {}
        BY <2>1 DEF Writing, GuardInv, OwnsLocks, Locked
    <2>3. guard[s] = "coordinator_exclusive" => want[r] \subseteq want[s]
        BY DEF Writing, GuardInv, OwnsCoordinator, Coordinates, Planned, Locked,
               TypeInv, TypeOK
    <2>. QED  BY <2>2, <2>3
<1>. QED  BY <1>1, GuardsHold, PTL

-----------------------------------------------------------------------------
(* Plans.                                                                  *)

\* The operations that write with a guard of their own.
Writes == {"text", "content", "append", "remove"}

\* The nodes an operation works on.
Touched(o) == IF o.op = "remove" THEN Subtree(parent, o.node) ELSE {o.node}

\* A plan asks for the domain of every node the operation works on.
LEMMA PlanCovers ==
    ASSUME IsTree(parent), NEW o, o.op \in Writes, GuardPlan(o).guard \in DynamicGuards
    PROVE  /\ o.node \in Live \ {RootId}
           /\ \A m \in Touched(o) : DomainRoot(parent, kind, m) \in GuardPlan(o).domains
           /\ o.op = "append" => kind[o.node] # "split"
<1>1. NoPlan.guard \notin DynamicGuards
    BY DEF NoPlan, DynamicGuards
<1>2. CASE o.op \in {"text", "content"}
    <2>1. GuardPlan(o) = ContentPlan(o.node) /\ ContentPlan(o.node) # NoPlan
        BY <1>1, <1>2 DEF GuardPlan
    <2>. QED  BY <1>2, <2>1 DEF ContentPlan, Touched
<1>3. CASE o.op = "append"
    <2>1. GuardPlan(o) = AppendPlan(o.node) /\ AppendPlan(o.node) # NoPlan
        BY <1>1, <1>3 DEF GuardPlan
    <2>. QED  BY <1>3, <2>1 DEF AppendPlan, Touched
<1>4. CASE o.op = "remove"
    <2>. DEFINE n == o.node
                mode == RemoveMode(parent, kind, n)
    <2>1. GuardPlan(o) = RemovePlan(n) /\ RemovePlan(n) # NoPlan
        BY <1>1, <1>4 DEF GuardPlan
    <2>2. Touched(o) = Subtree(parent, n)
        BY <1>4 DEF Touched
    <2>3. CASE mode \in DomainSafeModes
        <3>1. n \in Live \ {RootId} /\ (Children(parent, n) = {} \/ ~ ContainsSplit(parent, kind, n))
            BY <2>3, RemoveModeSays DEF Live
        <3>2. GuardPlan(o).domains = {DomainRoot(parent, kind, n)}
            BY <2>1, <2>3 DEF RemovePlan
        <3>3. \A m \in Subtree(parent, n) : DomainRoot(parent, kind, m) = DomainRoot(parent, kind, n)
            BY <3>1, SubtreeOfLeaf, DomainOfSubtree DEF Live
        <3>. QED  BY <1>4, <2>2, <3>1, <3>2, <3>3
    <2>4. CASE mode \notin DomainSafeModes
        <3>1. mode = "recursive_coordinator_safe"
              /\ GuardPlan(o).domains = ParticipatingDomains(parent, kind, n)
            BY <2>1, <2>4 DEF RemovePlan
        <3>2. n \in Live \ {RootId}
            BY <3>1, RemoveModeSays DEF Live, CoordinatorModes
        <3>3. \A m \in Subtree(parent, n) : DomainRoot(parent, kind, m) # NoNode
            <4>1. Subtree(parent, n) \subseteq DOMAIN parent \ {RootId}
                BY <3>2, SubtreeIs, RootNotBelow DEF Live
            <4>2. NoNode \notin DOMAIN parent
                BY DEF IsTree, NoNode
            <4>. QED  BY <4>1, <4>2, DomainRootIn
        <3>4. \A m \in Subtree(parent, n) : DomainRoot(parent, kind, m) \in GuardPlan(o).domains
            BY <3>1, <3>3 DEF ParticipatingDomains
        <3>. QED  BY <1>4, <2>2, <3>2, <3>4
    <2>. QED  BY <2>3, <2>4
<1>. QED  BY <1>2, <1>3, <1>4 DEF Writes

\* A plan stays the same while the tree stays the same where the operation works.
LEMMA PlanSame ==
    ASSUME IsTree(parent), IsTree(parent'),
           \A m \in Live \cap Live' : parent'[m] = parent[m] /\ kind'[m] = kind[m],
           NEW o, o.op \in Writes, o.node \in Live \ {RootId},
           Touched(o) \subseteq Live',
           o.op = "remove" =>
               \A c \in Live' : parent'[c] \in Subtree(parent, o.node) => c \in Live
    PROVE  GuardPlan(o)' = GuardPlan(o)
<1>. USE DEF Live
<1>1. o.node \in Live'
    BY SubtreeIs DEF Touched
<1>2. kind'[o.node] = kind[o.node]
      /\ DomainRoot(parent', kind', o.node) = DomainRoot(parent, kind, o.node)
    BY <1>1, DomainRootSame
<1>3. CASE o.op \in {"text", "content"}
    BY <1>1, <1>2, <1>3 DEF GuardPlan, ContentPlan
<1>4. CASE o.op = "append"
    BY <1>1, <1>2, <1>4 DEF GuardPlan, AppendPlan
<1>5. CASE o.op = "remove"
    <2>1. Touched(o) = Subtree(parent, o.node)
        BY <1>5 DEF Touched
    <2>2. /\ RemoveMode(parent', kind', o.node) = RemoveMode(parent, kind, o.node)
          /\ ParticipatingDomains(parent', kind', o.node) = ParticipatingDomains(parent, kind, o.node)
          /\ parent'[o.node] = parent[o.node]
        BY <1>5, <2>1, RemoveSame
    <2>3. RemovePlan(o.node)' = RemovePlan(o.node)
        BY <1>2, <2>2 DEF RemovePlan
    <2>. QED  BY <1>5, <2>3 DEF GuardPlan
<1>. QED  BY <1>3, <1>4, <1>5 DEF Writes

-----------------------------------------------------------------------------
(* The way through the handlers, and their mutexes.                        *)

\* Where each kind of operation can be, with which guard, and when it is answered.
Route(r) ==
    /\ pc[r] = "idle" => op[r] = NoOperation
    /\ pc[r] = "retitle" => op[r].op \in {"title", "update"}
    /\ pc[r] = "lookup" => op[r].op = "update"
    /\ pc[r] = "lockContent" => op[r].op \in {"text", "content", "update", "remove"}
    /\ pc[r] = "mutate" => op[r].op \in Writes \cup {"update"}
    /\ pc[r] = "link" => op[r].op = "append"
    /\ pc[r] = "unlink" => op[r].op = "remove"
    /\ pc[r] = "lockStructure" => op[r].op \in {"append", "remove"}
    /\ pc[r] \in {"release", "done"} <=> result[r] # "none"
    /\ pc[r] # "idle" /\ guard[r] = "quiescent_read" => op[r].op = "read"
    /\ pc[r] # "idle" /\ guard[r] \in DynamicGuards => op[r].op \in Writes
    /\ pc[r] = "plan" => op[r].op \in Writes

\* Who holds the registry and the content mutex while it writes.
Mutexes(r) ==
    /\ pc[r] = "lockContent" => registry = r
    /\ pc[r] = "mutate" /\ op[r].op \in {"append", "remove"} => registry = r
    /\ pc[r] = "mutate" /\ op[r].op \in {"text", "content", "update", "remove"} => accounting = r

RouteInv == \A r \in Requests : Route(r) /\ Mutexes(r)

\* No request is submitted yet.
LEMMA RouteInit == Init => RouteInv
BY RequestsAssumption DEF Init, RouteInv, Route, Mutexes, DynamicGuards

\* Handlers take the mutexes in one order and give them back where they write.
LEMMA RouteStep == TypeInv /\ GuardInv /\ RouteInv /\ [Next]_vars => RouteInv'
<1>. SUFFICES ASSUME TypeInv, GuardInv, RouteInv, [Next]_vars PROVE RouteInv'
    OBVIOUS
<1>. USE DEF TypeInv, TypeOK, RouteInv, Route, Mutexes, Writes, DynamicGuards, Goto, Answer,
             document, locks, mutexes, planning, scratch
<1>1. ASSUME NEW r \in Requests, Submit(r) PROVE RouteInv'
    BY <1>1 DEF Submit, PlannedNames, TitleWrites
<1>2. ASSUME NEW r \in Requests, Plan(r) PROVE RouteInv'
    <2>1. GuardPlan(op[r]).guard \in DynamicGuards \cup {"none"}
        BY PlanGuardIsKnown
    <2>. QED  BY <1>2, <2>1 DEF Plan
<1>3. ASSUME NEW r \in Requests, LockDomain(r) PROVE RouteInv'
    <2>1. AfterDomains(r) \in {"lockParent", "validate", "execute", "dropCoordinator"}
        BY DEF AfterDomains
    <2>. QED  BY <1>3, <2>1 DEF LockDomain
<1>4. ASSUME NEW r \in Requests, LockParent(r) PROVE RouteInv'
    BY <1>4 DEF LockParent
<1>5. ASSUME NEW r \in Requests, Validate(r) PROVE RouteInv'
    <2>1. pc[r] = "validate" /\ op[r].op \in Writes
        BY <1>5 DEF Validate, GuardInv, KnowsGuard
    <2>2. /\ \E l \in {"execute", "plan", "coordinate"} : pc' = [pc EXCEPT ![r] = l]
          /\ guard' \in {guard, [guard EXCEPT ![r] = "coordinator_exclusive"]}
          /\ UNCHANGED <<op, result, registry, accounting>>
        BY <1>5 DEF Validate
    <2>. QED  BY <2>1, <2>2
<1>6. ASSUME NEW r \in Requests, AcquireCoordinator(r) PROVE RouteInv'
    <2>1. AfterDomains(r) \in {"lockParent", "validate", "execute", "dropCoordinator"}
        BY DEF AfterDomains
    <2>. QED  BY <1>6, <2>1 DEF AcquireCoordinator
<1>7. ASSUME NEW r \in Requests, DropCoordinator(r) PROVE RouteInv'
    BY <1>7 DEF DropCoordinator
<1>8. ASSUME NEW r \in Requests, Read(r) PROVE RouteInv'
    BY <1>8 DEF Read, Executes
<1>9. ASSUME NEW r \in Requests, BeginUpdate(r) PROVE RouteInv'
    BY <1>9 DEF BeginUpdate, TitleWrites, Executes, Refuse
<1>20. ASSUME NEW r \in Requests, Retitle(r) PROVE RouteInv'
    <2>1. pc[r] = "retitle" /\ UNCHANGED <<op, guard, registry, accounting>>
        BY <1>20 DEF Retitle
    <2>2. CASE /\ op[r].op = "update" /\ pc' = [pc EXCEPT ![r] = "lookup"]
               /\ UNCHANGED result
        BY <2>1, <2>2
    <2>3. CASE /\ op[r].op = "title" /\ pc' = [pc EXCEPT ![r] = "release"]
               /\ result' = [result EXCEPT ![r] = "ok"]
        BY <2>1, <2>3
    <2>. QED  BY <1>20, <2>2, <2>3 DEF Retitle, Goto, Answer
<1>10. ASSUME NEW r \in Requests, FindContentNode(r) PROVE RouteInv'
    BY <1>10, RequestsAssumption DEF FindContentNode, LooksForContent, Executes, Refuse
<1>11. ASSUME NEW r \in Requests, LockContent(r) PROVE RouteInv'
    BY <1>11, RequestsAssumption DEF LockContent, ContentWrites
<1>12. ASSUME NEW r \in Requests, BeginAppend(r) PROVE RouteInv'
    BY <1>12 DEF BeginAppend, Executes
<1>13. ASSUME NEW r \in Requests, BeginRemove(r) PROVE RouteInv'
    BY <1>13 DEF BeginRemove, Executes, Refuse
<1>14. ASSUME NEW r \in Requests, LockStructure(r) PROVE RouteInv'
    BY <1>14 DEF LockStructure
<1>15. ASSUME NEW r \in Requests, Link(r) PROVE RouteInv'
    BY <1>15, RequestsAssumption DEF Link, Refuse
<1>16. ASSUME NEW r \in Requests, Unlink(r) PROVE RouteInv'
    BY <1>16, RequestsAssumption DEF Unlink, Refuse
<1>17. ASSUME NEW r \in Requests, Mutate(r) PROVE RouteInv'
    BY <1>17 DEF Mutate
<1>18. ASSUME NEW r \in Requests, Release(r) PROVE RouteInv'
    BY <1>18 DEF Release
<1>19. ASSUME UNCHANGED vars PROVE RouteInv'
    BY <1>19 DEF vars
<1>. HIDE DEF TypeInv, RouteInv
<1>. QED
    BY <1>1, <1>2, <1>3, <1>4, <1>5, <1>6, <1>7, <1>8, <1>9, <1>10, <1>11, <1>12, <1>13,
       <1>14, <1>15, <1>16, <1>17, <1>18, <1>19, <1>20
    DEF Next, Work, Acquire, Execute, AllDone

-----------------------------------------------------------------------------
(* The tree, the plans and the removals.                                   *)

\* The next id is new.
TreeInv == IsTree(parent) /\ \A n \in Live : n < nextId

\* A worker that runs its handler and has not answered.
Handling(r) == Executing(r) /\ pc[r] # "release"

\* Planning the request again would give the guard it has.
Matches(r) == GuardPlan(op[r]).guard = guard[r] /\ GuardPlan(op[r]).domains = want[r]

\* A plan is right while the topology is the one it was made for, and once its locks
\* were granted on it.
Keeps(r) ==
    /\ pc[r] \in {"lock", "lockParent", "validate"} /\ guard[r] \in DynamicGuards =>
           seenRevision[r] <= revision /\ (seenRevision[r] = revision => Matches(r))
    /\ Handling(r) /\ guard[r] \in DynamicGuards => Matches(r)

PlanInv == \A r \in Requests : Keeps(r)

\* A write finds its node; a removal is of a leaf that has no children, or of the whole
\* subtree.
Doom(r) ==
    /\ pc[r] \in {"retitle", "lookup", "lockContent", "mutate"} => op[r].node \in Live
    /\ pc[r] \in {"lockStructure", "unlink"} /\ op[r].op = "remove" =>
          /\ op[r].node # RootId /\ doomed[r] \in {{}, {op[r].node}}
          /\ doomed[r] # {} /\ op[r].node \in Live => Children(parent, op[r].node) = {}
    /\ pc[r] \in {"lockContent", "mutate"} /\ op[r].op = "remove" =>
          op[r].node # RootId /\ doomed[r] = Subtree(parent, op[r].node)

DoomInv == \A r \in Requests : Doom(r)

\* Two handlers that write, or are about to, work on nodes of different domains.
LEMMA Apart ==
    ASSUME TypeInv, GuardInv, RouteInv, TreeInv, PlanInv,
           NEW r \in Requests, NEW s \in Requests, r # s, Handling(r), Handling(s),
           op[r].op \in Writes \cup {"title", "update"},
           op[s].op \in Writes \cup {"title", "update"}
    PROVE  /\ op[r].op \in Writes /\ op[r].node \in Live \ {RootId}
           /\ Touched(op[r]) \cap Touched(op[s]) = {}
<1>1. WritersExcluded
    BY DisjointLocks
<1>2. pc[r] # "idle" /\ pc[s] # "idle"
    BY DEF Handling, Executing
<1>3. guard[r] # "quiescent_read" /\ guard[s] # "quiescent_read"
    BY <1>2 DEF RouteInv, Route, Writes
<1>4. /\ guard[r] \in DynamicGuards /\ guard[s] \in DynamicGuards
      /\ want[r] \cap want[s] = {}
    BY <1>1, <1>3 DEF WritersExcluded, Writing, Handling
<1>5. op[r].op \in Writes /\ op[s].op \in Writes
    BY <1>2, <1>4 DEF RouteInv, Route
<1>6. Matches(r) /\ Matches(s)
    BY <1>4 DEF PlanInv, Keeps
<1>7. GuardPlan(op[r]).guard \in DynamicGuards /\ GuardPlan(op[s]).guard \in DynamicGuards
    BY <1>4, <1>6 DEF Matches
<1>8. /\ op[r].node \in Live \ {RootId}
      /\ \A m \in Touched(op[r]) : DomainRoot(parent, kind, m) \in GuardPlan(op[r]).domains
    BY <1>5, <1>7, PlanCovers DEF TreeInv
<1>9. \A m \in Touched(op[s]) : DomainRoot(parent, kind, m) \in GuardPlan(op[s]).domains
    BY <1>5, <1>7, PlanCovers DEF TreeInv
<1>. QED  BY <1>4, <1>5, <1>6, <1>8, <1>9 DEF Matches

\* An append adds a leaf with a new id below a live node.
LEMMA AppendGrows ==
    ASSUME TypeInv, TreeInv, NEW s \in Requests, CommitAppend(s), op[s].node \in Live
    PROVE  /\ TreeInv' /\ nextId \notin Live /\ Live' = Live \cup {nextId}
           /\ parent'[nextId] = op[s].node
           /\ \A m \in Live : parent'[m] = parent[m] /\ kind'[m] = kind[m]
<1>. DEFINE n == op[s].node
            c == nextId
<1>. USE DEF Live
<1>1. /\ c \in Nat /\ c \notin Live /\ Live \subseteq Nat /\ \A m \in Live : m < c
      /\ DOMAIN kind = Live
    BY DEF TypeInv, TypeOK, TreeInv
<1>2. /\ parent' = [m \in Live \cup {c} |-> IF m = c THEN n ELSE parent[m]]
      /\ kind' = [m \in Live \cup {c} |-> IF m = c THEN op[s].kind ELSE kind[m]]
      /\ nextId' = c + 1
    BY <1>1 DEF CommitAppend, With
<1>3. Live' = Live \cup {c} /\ parent'[c] = n
    BY <1>2
<1>4. \A m \in Live : parent'[m] = parent[m] /\ kind'[m] = kind[m]
    BY <1>1, <1>2
<1>5. IsTree(parent')
    BY <1>1, <1>3, <1>4, GrownTree DEF TreeInv
<1>6. \A m \in Live' : m < nextId'
    BY <1>1, <1>2, <1>3
<1>. QED  BY <1>1, <1>3, <1>4, <1>5, <1>6 DEF TreeInv

\* A removal takes a subtree away, which is not the root's.
LEMMA RemovalPrunes ==
    ASSUME TypeInv, TreeInv, NEW s \in Requests, CommitRemove(s),
           op[s].node \in Live \ {RootId}, doomed[s] = Subtree(parent, op[s].node)
    PROVE  /\ TreeInv' /\ Live' = Live \ doomed[s]
           /\ \A m \in Live' : parent'[m] = parent[m] /\ kind'[m] = kind[m]
<1>. DEFINE D == doomed[s]
<1>. USE DEF Live
<1>1. /\ parent' = [m \in Live \ D |-> parent[m]] /\ nextId' = nextId
      /\ kind' = [m \in Live \ D |-> kind[m]]
    BY DEF CommitRemove, Without, TypeInv, TypeOK
<1>2. /\ RootId \notin D
      /\ \A c \in Live : parent[c] \in D => c \in D
    BY SubtreeIs, RootNotBelow DEF TreeInv
<1>3. Live' = Live \ D /\ \A m \in Live' : parent'[m] = parent[m] /\ kind'[m] = kind[m]
    BY <1>1
<1>4. IsTree(parent')
    BY <1>3, PrunedTree DEF TreeInv
<1>5. \A m \in Live' : m < nextId'
    BY <1>1, <1>3 DEF TreeInv
<1>. QED  BY <1>3, <1>4, <1>5 DEF TreeInv

\* Only a write changes the tree; an append that fails wastes an id.
LEMMA TreeStep == TypeInv /\ TreeInv /\ DoomInv /\ [Next]_vars => TreeInv'
<1>. SUFFICES ASSUME TypeInv, TreeInv, DoomInv, [Next]_vars PROVE TreeInv'
    OBVIOUS
<1>1. ASSUME UNCHANGED parent, nextId' \in {nextId, nextId + 1} PROVE TreeInv'
    <2>1. nextId \in Nat /\ Live \subseteq Nat
        BY DEF TypeInv, TypeOK
    <2>. QED  BY <1>1, <2>1 DEF TreeInv, Live
<1>2. ASSUME NEW r \in Requests, Mutate(r) PROVE TreeInv'
    <2>1. pc[r] = "mutate" /\ Doom(r)
        BY <1>2 DEF Mutate, DoomInv
    <2>2. CASE CommitAppend(r)
        <3>1. op[r].node \in Live
            BY <2>1, <2>2 DEF CommitAppend, Doom, Writes
        <3>. QED  BY <2>2, <3>1, AppendGrows
    <2>3. CASE CommitRemove(r)
        <3>1. op[r].node \in Live \ {RootId} /\ doomed[r] = Subtree(parent, op[r].node)
            BY <2>1, <2>3 DEF CommitRemove, Doom, Writes
        <3>. QED  BY <2>3, <3>1, RemovalPrunes
    <2>4. CASE CommitContent(r) \/ TooLarge(r)
        BY <1>1, <2>4 DEF CommitContent, TooLarge, document
    <2>. QED  BY <1>2, <2>2, <2>3, <2>4 DEF Mutate
<1>3. ASSUME NEW r \in Requests, Link(r) PROVE TreeInv'
    BY <1>1, <1>3 DEF Link
<1>4. ASSUME NEW r \in Requests, Submit(r) \/ Acquire(r) \/ Release(r) PROVE TreeInv'
    BY <1>1, <1>4 DEF Submit, Acquire, Release, Plan, LockDomain, LockParent, Validate,
                      AcquireCoordinator, DropCoordinator, document
<1>5. ASSUME NEW r \in Requests,
             \/ Read(r) \/ BeginUpdate(r) \/ Retitle(r) \/ FindContentNode(r) \/ LockContent(r)
             \/ BeginAppend(r) \/ BeginRemove(r) \/ LockStructure(r) \/ Unlink(r)
      PROVE  TreeInv'
    BY <1>1, <1>5 DEF Read, BeginUpdate, Retitle, FindContentNode, LockContent, BeginAppend, BeginRemove,
                      LockStructure, Unlink, document
<1>6. ASSUME UNCHANGED vars PROVE TreeInv'
    BY <1>1, <1>6 DEF vars, document
<1>. QED  BY <1>2, <1>3, <1>4, <1>5, <1>6 DEF Next, Work, Execute, AllDone

\* The same tree gives the same plan.
LEMMA SamePlan ==
    ASSUME UNCHANGED <<parent, kind>>, NEW r \in Requests, op'[r] = op[r]
    PROVE  GuardPlan(op[r])' = GuardPlan(op[r])
BY DEF GuardPlan, ContentPlan, AppendPlan, RemovePlan, Live

\* A worker that another one's step leaves alone keeps its plan and its removal.
LEMMA KeepsFrame ==
    ASSUME NEW s \in Requests, Keeps(s), UNCHANGED <<parent, kind, revision>>, op'[s] = op[s],
           pc'[s] = pc[s], guard'[s] = guard[s], want'[s] = want[s],
           seenRevision'[s] = seenRevision[s]
    PROVE  Keeps(s)'
<1>1. Matches(s)' <=> Matches(s)
    <2>1. GuardPlan(op[s])' = GuardPlan(op[s])
        BY SamePlan
    <2>. QED  BY <2>1 DEF Matches
<1>2. Handling(s)' <=> Handling(s)
    BY DEF Handling, Executing
<1>. QED  BY <1>1, <1>2 DEF Keeps

\* The plan of r while another worker appends or removes.
LEMMA OtherWrites ==
    ASSUME TypeInv, GuardInv, RouteInv, TreeInv, PlanInv, DoomInv,
           NEW r \in Requests, NEW s \in Requests, r # s, Mutate(s),
           CommitAppend(s) \/ CommitRemove(s), TreeInv', Handling(r), guard[r] \in DynamicGuards
    PROVE  Matches(r)'
<1>1. /\ pc[s] = "mutate" /\ Doom(s) /\ op[s].op \in {"append", "remove"}
      /\ op'[r] = op[r] /\ guard'[r] = guard[r] /\ want'[r] = want[r]
    BY DEF Mutate, DoomInv, CommitAppend, CommitRemove, planning
<1>2. Handling(s) /\ op[r].op \in Writes
    BY <1>1 DEF Handling, Executing, RouteInv, Route
<1>3. /\ op[r].node \in Live \ {RootId} /\ op[s].node \in Live \ {RootId}
      /\ Touched(op[r]) \cap Touched(op[s]) = {}
    BY <1>1, <1>2, Apart DEF Writes
<1>4. Matches(r)
    BY DEF PlanInv, Keeps
<1>5. Touched(op[r]) \subseteq Live
    BY <1>3, SubtreeIs DEF Touched, Live
<1>6. /\ \A m \in Live \cap Live' : parent'[m] = parent[m] /\ kind'[m] = kind[m]
      /\ Touched(op[r]) \subseteq Live'
      /\ op[r].op = "remove" =>
            \A c \in Live' : parent'[c] \in Subtree(parent, op[r].node) => c \in Live
    <2>1. CASE CommitAppend(s)
        <3>1. /\ Live' = Live \cup {nextId} /\ parent'[nextId] = op[s].node
              /\ \A m \in Live : parent'[m] = parent[m] /\ kind'[m] = kind[m]
            BY <1>3, <2>1, AppendGrows
        <3>2. op[s].node \in Touched(op[s])
            BY <2>1 DEF CommitAppend, Touched
        <3>. QED  BY <1>3, <1>5, <3>1, <3>2 DEF Touched
    <2>2. CASE CommitRemove(s)
        <3>1. doomed[s] = Subtree(parent, op[s].node) /\ Touched(op[s]) = doomed[s]
            BY <1>1, <2>2 DEF CommitRemove, Doom, Touched
        <3>2. /\ Live' = Live \ doomed[s]
              /\ \A m \in Live' : parent'[m] = parent[m] /\ kind'[m] = kind[m]
            BY <1>3, <2>2, <3>1, RemovalPrunes
        <3>. QED  BY <1>3, <1>5, <3>1, <3>2
    <2>. QED  BY <2>1, <2>2
<1>7. \A o : o = op[r] => GuardPlan(o)' = GuardPlan(o)
    <2>. SUFFICES ASSUME NEW o, o = op[r] PROVE GuardPlan(o)' = GuardPlan(o)
        OBVIOUS
    <2>. QED  BY <1>2, <1>3, <1>6, PlanSame DEF TreeInv
<1>8. GuardPlan(op[r])' = GuardPlan(op[r])
    BY <1>1, <1>7
<1>. QED  BY <1>1, <1>4, <1>8 DEF Matches

\* A handler goes on with the guard it has.
LEMMA HandlerKeeps ==
    ASSUME TypeInv, PlanInv, NEW r \in Requests, NEW label, Handling(r),
           label \in {"retitle", "lookup", "lockContent", "lockStructure", "link", "unlink",
                      "mutate", "release"},
           pc' = [pc EXCEPT ![r] = label],
           UNCHANGED <<parent, kind, revision, op, guard, want, seenRevision>>
    PROVE  PlanInv'
<1>1. pc'[r] = label /\ \A s \in Requests : s # r => pc'[s] = pc[s]
    BY DEF TypeInv, TypeOK
<1>2. ASSUME NEW s \in Requests, s # r PROVE Keeps(s)'
    BY <1>1, <1>2, KeepsFrame DEF PlanInv
<1>3. Keeps(r)'
    <2>1. Matches(r)' <=> Matches(r)
        <3>1. GuardPlan(op[r])' = GuardPlan(op[r])
            BY SamePlan
        <3>. QED  BY <3>1 DEF Matches
    <2>2. Keeps(r)
        BY DEF PlanInv
    <2>. QED  BY <1>1, <2>1, <2>2 DEF Keeps, Handling
<1>. QED  BY <1>2, <1>3 DEF PlanInv

\* A granted plan outlives what writers of other domains do to the tree.
LEMMA PlanStep ==
    TypeInv /\ GuardInv /\ RouteInv /\ TreeInv /\ TreeInv' /\ PlanInv /\ DoomInv /\ [Next]_vars
        => PlanInv'
<1>. SUFFICES ASSUME TypeInv, GuardInv, RouteInv, TreeInv, TreeInv', PlanInv, DoomInv, [Next]_vars
              PROVE  PlanInv'
    OBVIOUS
<1>. USE DEF Goto, document, locks, mutexes, planning, scratch
<1>1. ASSUME NEW r \in Requests, UNCHANGED <<parent, kind, revision>>,
             \A s \in Requests : s # r => /\ pc'[s] = pc[s] /\ op'[s] = op[s] /\ want'[s] = want[s]
                                        /\ guard'[s] = guard[s]
                                        /\ seenRevision'[s] = seenRevision[s],
             Keeps(r)'
      PROVE  PlanInv'
    <2>1. ASSUME NEW s \in Requests, s # r PROVE Keeps(s)'
        BY <1>1, <2>1, KeepsFrame DEF PlanInv
    <2>. QED  BY <1>1, <2>1 DEF PlanInv
<1>2. ASSUME NEW r \in Requests, Submit(r) PROVE PlanInv'
    <2>1. pc'[r] \in {"plan", "coordinate"}
        BY <1>2 DEF Submit, TypeInv, TypeOK
    <2>2. Keeps(r)'
        BY <2>1 DEF Keeps, Handling, Executing
    <2>. QED  BY <1>1, <1>2, <2>2 DEF Submit, TypeInv, TypeOK
<1>3. ASSUME NEW r \in Requests, Plan(r) PROVE PlanInv'
    <2>. DEFINE plan == GuardPlan(op[r])
    <2>1. /\ want'[r] = plan.domains /\ seenRevision'[r] = revision
          /\ \/ guard'[r] = "coordinator_exclusive"
             \/ guard'[r] = plan.guard /\ pc'[r] = "lock"
          /\ UNCHANGED <<parent, kind, revision, op>>
          /\ pc'[r] \in {"coordinate", "lock"}
        BY <1>3 DEF Plan, TypeInv, TypeOK
    <2>2. GuardPlan(op[r])' = plan
        BY <2>1, SamePlan
    <2>3. revision \in Nat
        BY DEF TypeInv, TypeOK
    <2>4. Keeps(r)'
        BY <2>1, <2>2, <2>3 DEF Keeps, Matches, Handling, Executing, DynamicGuards
    <2>. QED  BY <1>1, <1>3, <2>1, <2>4 DEF Plan, TypeInv, TypeOK
<1>4. ASSUME NEW r \in Requests, LockDomain(r) PROVE PlanInv'
    <2>1. /\ pc[r] = "lock" /\ pc'[r] \in {"lock", AfterDomains(r)}
          /\ UNCHANGED <<parent, kind, revision, op, guard, want, seenRevision>>
        BY <1>4 DEF LockDomain, TypeInv, TypeOK
    <2>2. guard[r] \in DynamicGuards => AfterDomains(r) \in {"lockParent", "validate"}
        BY DEF AfterDomains, DynamicGuards
    <2>3. GuardPlan(op[r])' = GuardPlan(op[r])
        BY <2>1, SamePlan
    <2>4. Keeps(r)'
        BY <2>1, <2>2, <2>3 DEF PlanInv, Keeps, Matches, Handling, Executing
    <2>. QED  BY <1>1, <1>4, <2>1, <2>4 DEF LockDomain, TypeInv, TypeOK
<1>5. ASSUME NEW r \in Requests, LockParent(r) PROVE PlanInv'
    <2>1. /\ pc[r] = "lockParent" /\ pc'[r] = "validate"
          /\ UNCHANGED <<parent, kind, revision, op, guard, want, seenRevision>>
        BY <1>5 DEF LockParent, TypeInv, TypeOK
    <2>2. GuardPlan(op[r])' = GuardPlan(op[r])
        BY <2>1, SamePlan
    <2>3. Keeps(r)'
        BY <2>1, <2>2 DEF PlanInv, Keeps, Matches, Handling, Executing
    <2>. QED  BY <1>1, <1>5, <2>1, <2>3 DEF LockParent, TypeInv, TypeOK
<1>6. ASSUME NEW r \in Requests, Validate(r) PROVE PlanInv'
    <2>1. /\ pc[r] = "validate" /\ UNCHANGED <<parent, kind, revision, op, want, seenRevision>>
          /\ \/ /\ seenRevision[r] = revision /\ pc'[r] = "execute" /\ UNCHANGED guard
             \/ pc'[r] \in {"plan", "coordinate"}
        BY <1>6 DEF Validate, TypeInv, TypeOK
    <2>2. GuardPlan(op[r])' = GuardPlan(op[r])
        BY <2>1, SamePlan
    <2>3. Keeps(r)'
        BY <2>1, <2>2 DEF PlanInv, Keeps, Matches, Handling, Executing
    <2>. QED  BY <1>1, <1>6, <2>1, <2>3 DEF Validate, TypeInv, TypeOK
<1>7. ASSUME NEW r \in Requests, AcquireCoordinator(r) \/ DropCoordinator(r) PROVE PlanInv'
    <2>1. guard'[r] \notin DynamicGuards
        BY <1>7 DEF AcquireCoordinator, DropCoordinator, GuardInv, KnowsGuard, DynamicGuards
    <2>2. Keeps(r)'
        BY <2>1 DEF Keeps
    <2>. QED  BY <1>1, <1>7, <2>2 DEF AcquireCoordinator, DropCoordinator, TypeInv, TypeOK
<1>8. ASSUME NEW r \in Requests,
             \/ Read(r) \/ BeginUpdate(r) \/ Retitle(r) \/ FindContentNode(r) \/ LockContent(r)
             \/ BeginAppend(r) \/ BeginRemove(r) \/ LockStructure(r) \/ Link(r) \/ Unlink(r)
      PROVE  PlanInv'
    <2>1. /\ Handling(r)
          /\ UNCHANGED <<parent, kind, revision, op, guard, want, seenRevision>>
        BY <1>8 DEF Read, BeginUpdate, Retitle, FindContentNode, LooksForContent, LockContent,
                    BeginAppend, BeginRemove, LockStructure, Link, Unlink, Executes, Handling,
                    Executing
    <2>2. \E label \in {"retitle", "lookup", "lockContent", "lockStructure", "link", "unlink",
                        "mutate", "release"} :
              pc' = [pc EXCEPT ![r] = label]
        BY <1>8 DEF Read, BeginUpdate, Retitle, FindContentNode, LockContent, BeginAppend, BeginRemove,
                    LockStructure, Link, Unlink, Refuse
    <2>. QED  BY <2>1, <2>2, HandlerKeeps
<1>9. ASSUME NEW s \in Requests, Mutate(s) PROVE PlanInv'
    <2>1. /\ pc[s] = "mutate" /\ pc' = [pc EXCEPT ![s] = "release"]
          /\ UNCHANGED <<op, guard, want, seenRevision>>
        BY <1>9 DEF Mutate
    <2>2. CASE CommitContent(s) \/ TooLarge(s)
        <3>1. UNCHANGED <<parent, kind, revision>> /\ Handling(s)
            BY <2>1, <2>2 DEF CommitContent, TooLarge, Handling, Executing
        <3>. QED  BY <2>1, <3>1, HandlerKeeps
    <2>3. CASE CommitAppend(s) \/ CommitRemove(s)
        <3>. SUFFICES ASSUME NEW r \in Requests PROVE Keeps(r)'
            BY DEF PlanInv
        <3>1. CASE r = s
            BY <2>1, <3>1 DEF Keeps, Handling, TypeInv, TypeOK
        <3>2. CASE r # s
            <4>1. pc'[r] = pc[r]
                BY <2>1, <3>2 DEF TypeInv, TypeOK
            <4>2. Handling(r)' /\ guard'[r] \in DynamicGuards => Matches(r)'
                <5>. SUFFICES ASSUME Handling(r)', guard'[r] \in DynamicGuards PROVE Matches(r)'
                    OBVIOUS
                <5>1. Handling(r) /\ guard[r] \in DynamicGuards
                    BY <2>1, <4>1 DEF Handling, Executing
                <5>. QED  BY <1>9, <2>3, <3>2, <5>1, OtherWrites
            <4>3. /\ pc'[r] \in {"lock", "lockParent", "validate"} /\ guard'[r] \in DynamicGuards
                        => seenRevision'[r] < revision'
                <5>1. revision' = revision + 1 /\ revision \in Nat /\ seenRevision[r] \in Nat
                    BY <2>3 DEF CommitAppend, CommitRemove, TypeInv, TypeOK
                <5>2. Keeps(r)
                    BY DEF PlanInv
                <5>. QED  BY <2>1, <4>1, <5>1, <5>2 DEF Keeps
            <4>4. seenRevision'[r] \in Nat /\ revision' \in Nat
                BY <2>1, <2>3 DEF CommitAppend, CommitRemove, TypeInv, TypeOK
            <4>. QED  BY <4>2, <4>3, <4>4 DEF Keeps
        <3>. QED  BY <3>1, <3>2
    <2>. QED  BY <1>9, <2>2, <2>3 DEF Mutate
<1>10. ASSUME NEW r \in Requests, Release(r) PROVE PlanInv'
    <2>1. pc'[r] = "done"
        BY <1>10 DEF Release, TypeInv, TypeOK
    <2>2. Keeps(r)'
        BY <2>1 DEF Keeps, Handling, Executing
    <2>. QED  BY <1>1, <1>10, <2>2 DEF Release, TypeInv, TypeOK
<1>11. ASSUME UNCHANGED vars PROVE PlanInv'
    <2>. SUFFICES ASSUME NEW r \in Requests PROVE Keeps(r)'
        BY DEF PlanInv
    <2>. QED  BY <1>11, KeepsFrame DEF vars, PlanInv
<1>. QED  BY <1>2, <1>3, <1>4, <1>5, <1>6, <1>7, <1>8, <1>9, <1>10, <1>11
          DEF Next, Work, Acquire, Execute, AllDone

\* A worker that another one's step leaves alone keeps its removal.
LEMMA DoomFrame ==
    ASSUME NEW s \in Requests, Doom(s), UNCHANGED parent, op'[s] = op[s], pc'[s] = pc[s],
           doomed'[s] = doomed[s]
    PROVE  Doom(s)'
BY DEF Doom, Live

\* The removal of r, or the node it writes, while another worker appends or removes.
LEMMA OtherDooms ==
    ASSUME TypeInv, GuardInv, RouteInv, TreeInv, PlanInv, DoomInv,
           NEW r \in Requests, NEW s \in Requests, r # s, Mutate(s),
           CommitAppend(s) \/ CommitRemove(s)
    PROVE  Doom(r)'
<1>1. /\ pc[s] = "mutate" /\ Doom(s) /\ op[s].op \in {"append", "remove"}
      /\ op'[r] = op[r] /\ doomed'[r] = doomed[r] /\ pc'[r] = pc[r] /\ registry = s
    BY DEF Mutate, Goto, DoomInv, CommitAppend, CommitRemove, scratch, RouteInv, Mutexes,
           TypeInv, TypeOK
<1>2. Handling(s) /\ op[s].op \in Writes
    BY <1>1 DEF Handling, Executing, Writes
<1>3. Doom(r)
    BY DEF DoomInv
<1>4. CASE pc[r] \in {"retitle", "lookup", "lockContent", "mutate"}
    <2>1. Handling(r) /\ op[r].op \in Writes \cup {"title", "update"}
        BY <1>4 DEF Handling, Executing, RouteInv, Route, Writes
    <2>2. /\ op[r].op \in Writes /\ op[r].node \in Live /\ op[s].node \in Live \ {RootId}
          /\ Touched(op[r]) \cap Touched(op[s]) = {}
        BY <1>2, <2>1, Apart
    <2>3. op[r].op \in {"text", "content"} /\ op[r].node \in Touched(op[r])
        <3>1. pc[r] \in {"lockContent", "mutate"}
            BY <1>4, <2>2 DEF RouteInv, Route, Writes
        <3>. QED  BY <1>1, <2>2, <3>1 DEF RouteInv, Mutexes, Writes, Touched
    <2>. SUFFICES op[r].node \in Live'
        BY <1>1, <1>4, <2>3 DEF Doom
    <2>4. CASE CommitAppend(s)
        BY <2>2, <2>4, AppendGrows
    <2>5. CASE CommitRemove(s)
        <3>1. doomed[s] = Subtree(parent, op[s].node) /\ Touched(op[s]) = doomed[s]
            BY <1>1, <2>5 DEF CommitRemove, Doom, Touched
        <3>2. Live' = Live \ doomed[s]
            BY <2>2, <2>5, <3>1, RemovalPrunes
        <3>. QED  BY <2>2, <2>3, <3>1, <3>2
    <2>. QED  BY <2>4, <2>5
<1>5. CASE pc[r] \in {"lockStructure", "unlink"} /\ op[r].op = "remove"
    <2>1. Handling(r) /\ op[r].op \in Writes
        BY <1>5 DEF Handling, Executing, Writes
    <2>2. /\ op[r].node \in Live /\ op[s].node \in Live \ {RootId}
          /\ Touched(op[r]) \cap Touched(op[s]) = {}
        BY <1>2, <2>1, Apart
    <2>3. op[r].node \in Touched(op[r])
        BY <1>5, <2>2, SubtreeIs DEF Touched, Live
    <2>4. Children(parent', op[r].node) \subseteq Children(parent, op[r].node)
        <3>1. CASE CommitAppend(s)
            <4>1. /\ Live' = Live \cup {nextId} /\ parent'[nextId] = op[s].node
                  /\ \A m \in Live : parent'[m] = parent[m]
                BY <2>2, <3>1, AppendGrows
            <4>2. op[s].node # op[r].node
                BY <2>2, <2>3, <3>1 DEF Touched, CommitAppend
            <4>. QED  BY <4>1, <4>2 DEF Children, Live
        <3>2. CASE CommitRemove(s)
            <4>1. doomed[s] = Subtree(parent, op[s].node)
                BY <1>1, <3>2 DEF CommitRemove, Doom
            <4>2. /\ Live' = Live \ doomed[s]
                  /\ \A m \in Live' : parent'[m] = parent[m]
                BY <2>2, <3>2, <4>1, RemovalPrunes
            <4>. QED  BY <4>2 DEF Children, Live
        <3>. QED  BY <3>1, <3>2
    <2>. QED  BY <1>1, <1>3, <1>5, <2>2, <2>4 DEF Doom
<1>6. CASE pc[r] \notin {"retitle", "lookup", "lockContent", "mutate"}
           /\ ~ (pc[r] \in {"lockStructure", "unlink"} /\ op[r].op = "remove")
    BY <1>1, <1>6 DEF Doom
<1>. QED  BY <1>4, <1>5, <1>6

\* What a removal classified and collected stays true until it is carried out.
LEMMA DoomStep ==
    TypeInv /\ GuardInv /\ RouteInv /\ TreeInv /\ PlanInv /\ DoomInv /\ [Next]_vars => DoomInv'
<1>. SUFFICES ASSUME TypeInv, GuardInv, RouteInv, TreeInv, PlanInv, DoomInv, [Next]_vars
              PROVE  DoomInv'
    OBVIOUS
<1>. USE DEF Goto, document, locks, mutexes, planning, scratch
<1>1. ASSUME NEW r \in Requests, UNCHANGED parent,
             \A s \in Requests : s # r => /\ pc'[s] = pc[s] /\ op'[s] = op[s]
                                          /\ doomed'[s] = doomed[s],
             Doom(r)'
      PROVE  DoomInv'
    <2>1. ASSUME NEW s \in Requests, s # r PROVE Doom(s)'
        BY <1>1, <2>1, DoomFrame DEF DoomInv
    <2>. QED  BY <1>1, <2>1 DEF DoomInv
<1>2. ASSUME NEW r \in Requests, NEW label, pc' = [pc EXCEPT ![r] = label],
             label \notin {"retitle", "lookup", "lockContent", "mutate", "lockStructure", "unlink"},
             UNCHANGED <<parent, doomed>>, \A s \in Requests \ {r} : op'[s] = op[s]
      PROVE  DoomInv'
    <2>1. pc'[r] = label /\ \A s \in Requests : s # r => pc'[s] = pc[s]
        BY <1>2 DEF TypeInv, TypeOK
    <2>2. Doom(r)'
        BY <1>2, <2>1 DEF Doom
    <2>. QED  BY <1>1, <1>2, <2>1, <2>2
<1>3. ASSUME NEW r \in Requests, Submit(r) PROVE DoomInv'
    <2>1. PICK label \in {"plan", "coordinate"} : pc' = [pc EXCEPT ![r] = label]
        BY <1>3 DEF Submit
    <2>2. UNCHANGED <<parent, doomed>> /\ \A s \in Requests \ {r} : op'[s] = op[s]
        BY <1>3 DEF Submit, TypeInv, TypeOK
    <2>. QED  BY <1>2, <2>1, <2>2
<1>4. ASSUME NEW r \in Requests, Acquire(r) \/ Release(r) \/ Read(r) PROVE DoomInv'
    <2>1. AfterDomains(r) \in {"lockParent", "validate", "execute", "dropCoordinator"}
        BY DEF AfterDomains
    <2>2. \E label \in {"plan", "coordinate", "lock", "lockParent", "validate", "execute",
                        "dropCoordinator", "release", "done"} : pc' = [pc EXCEPT ![r] = label]
        BY <1>4, <2>1 DEF Acquire, Release, Read, Plan, LockDomain, LockParent, Validate,
                          AcquireCoordinator, DropCoordinator
    <2>3. UNCHANGED <<parent, doomed, op>>
        BY <1>4 DEF Acquire, Release, Read, Plan, LockDomain, LockParent, Validate,
                    AcquireCoordinator, DropCoordinator
    <2>. QED  BY <1>2, <2>2, <2>3
<1>5. ASSUME NEW r \in Requests, BeginUpdate(r) PROVE DoomInv'
    <2>1. /\ op[r].op # "remove" /\ UNCHANGED <<parent, op, doomed>>
          /\ \A s \in Requests : s # r => pc'[s] = pc[s]
          /\ pc'[r] = "release" \/ op[r].node \in Live
        BY <1>5 DEF BeginUpdate, TitleWrites, Executes, Refuse, TypeInv, TypeOK
    <2>2. Doom(r)'
        BY <2>1 DEF Doom, Live
    <2>. QED  BY <1>1, <2>1, <2>2
<1>15. ASSUME NEW r \in Requests, Retitle(r) PROVE DoomInv'
    <2>1. /\ op[r].op # "remove" /\ op[r].node \in Live /\ UNCHANGED <<parent, op, doomed>>
          /\ \A s \in Requests : s # r => pc'[s] = pc[s]
        BY <1>15 DEF Retitle, DoomInv, Doom, TypeInv, TypeOK
    <2>2. Doom(r)'
        BY <2>1 DEF Doom, Live
    <2>. QED  BY <1>1, <2>1, <2>2
<1>6. ASSUME NEW r \in Requests, FindContentNode(r) PROVE DoomInv'
    <2>1. /\ op[r].op # "remove" /\ UNCHANGED <<parent, op, doomed>>
          /\ \A s \in Requests : s # r => pc'[s] = pc[s]
          /\ pc'[r] = "release" \/ op[r].node \in Live
        BY <1>6 DEF FindContentNode, LooksForContent, Executes, Refuse, RouteInv, Route, TypeInv,
                    TypeOK
    <2>2. Doom(r)'
        BY <2>1 DEF Doom, Live
    <2>. QED  BY <1>1, <2>1, <2>2
<1>7. ASSUME NEW r \in Requests, LockContent(r) PROVE DoomInv'
    <2>1. /\ pc[r] = "lockContent" /\ pc'[r] = "mutate" /\ UNCHANGED <<parent, op, doomed>>
          /\ \A s \in Requests : s # r => pc'[s] = pc[s]
        BY <1>7 DEF LockContent, TypeInv, TypeOK
    <2>2. Doom(r)'
        BY <2>1 DEF DoomInv, Doom, Live
    <2>. QED  BY <1>1, <2>1, <2>2
<1>8. ASSUME NEW r \in Requests, BeginAppend(r) PROVE DoomInv'
    <2>1. /\ op[r].op = "append" /\ UNCHANGED <<parent, op, doomed>>
          /\ pc'[r] \in {"lockStructure", "link"}
          /\ \A s \in Requests : s # r => pc'[s] = pc[s]
        BY <1>8 DEF BeginAppend, Executes, TypeInv, TypeOK
    <2>2. Doom(r)'
        BY <2>1 DEF Doom
    <2>. QED  BY <1>1, <2>1, <2>2
<1>9. ASSUME NEW r \in Requests, BeginRemove(r) PROVE DoomInv'
    <2>. DEFINE n == op[r].node
                mode == RemoveMode(parent, kind, n)
    <2>1. /\ op[r].op = "remove" /\ UNCHANGED <<parent, op>>
          /\ \A s \in Requests : s # r => pc'[s] = pc[s] /\ doomed'[s] = doomed[s]
          /\ \/ pc'[r] = "release"
             \/ /\ pc'[r] \in {"lockStructure", "unlink"}
                /\ mode \in DomainSafeModes \cup CoordinatorModes
                /\ doomed'[r] = IF mode \in RecursiveModes THEN {} ELSE {n}
        BY <1>9 DEF BeginRemove, Executes, Refuse, TypeInv, TypeOK
    <2>2. mode \in DomainSafeModes \cup CoordinatorModes =>
              n # RootId /\ (mode \notin RecursiveModes => Children(parent, n) = {})
        BY RemoveModeSays
    <2>3. Doom(r)'
        BY <2>1, <2>2 DEF Doom
    <2>. QED  BY <1>1, <2>1, <2>3
<1>10. ASSUME NEW r \in Requests, LockStructure(r) PROVE DoomInv'
    <2>1. /\ pc[r] = "lockStructure" /\ UNCHANGED <<parent, op, doomed>>
          /\ pc'[r] \in {"link", "unlink"}
          /\ \A s \in Requests : s # r => pc'[s] = pc[s]
        BY <1>10 DEF LockStructure, TypeInv, TypeOK
    <2>2. Doom(r)'
        BY <2>1 DEF DoomInv, Doom, Live
    <2>. QED  BY <1>1, <2>1, <2>2
<1>11. ASSUME NEW r \in Requests, Link(r) PROVE DoomInv'
    <2>1. /\ op[r].op = "append" /\ UNCHANGED <<parent, op, doomed>>
          /\ \A s \in Requests : s # r => pc'[s] = pc[s]
          /\ pc'[r] = "release" \/ op[r].node \in Live
        BY <1>11 DEF Link, Refuse, RouteInv, Route, TypeInv, TypeOK
    <2>2. Doom(r)'
        BY <2>1 DEF Doom, Live
    <2>. QED  BY <1>1, <2>1, <2>2
<1>12. ASSUME NEW r \in Requests, Unlink(r) PROVE DoomInv'
    <2>. DEFINE n == op[r].node
    <2>1. /\ pc[r] = "unlink" /\ op[r].op = "remove" /\ UNCHANGED <<parent, op>>
          /\ \A s \in Requests : s # r => pc'[s] = pc[s] /\ doomed'[s] = doomed[s]
          /\ \/ pc'[r] = "release"
             \/ /\ n \in Live /\ pc'[r] = "lockContent"
                /\ doomed'[r] = IF doomed[r] = {} THEN Subtree(parent, n) ELSE doomed[r]
        BY <1>12 DEF Unlink, Refuse, RouteInv, Route, TypeInv, TypeOK
    <2>2. /\ n # RootId /\ doomed[r] \in {{}, {n}}
          /\ doomed[r] # {} /\ n \in Live => Subtree(parent, n) = {n}
        BY <2>1, SubtreeOfLeaf DEF DoomInv, Doom, Live
    <2>3. Doom(r)'
        BY <2>1, <2>2 DEF Doom, Live
    <2>. QED  BY <1>1, <2>1, <2>3
<1>13. ASSUME NEW s \in Requests, Mutate(s) PROVE DoomInv'
    <2>1. pc' = [pc EXCEPT ![s] = "release"] /\ UNCHANGED <<op, doomed>>
        BY <1>13 DEF Mutate
    <2>2. CASE CommitContent(s) \/ TooLarge(s)
        BY <1>2, <2>1, <2>2 DEF CommitContent, TooLarge
    <2>3. CASE CommitAppend(s) \/ CommitRemove(s)
        <3>1. Doom(s)'
            BY <2>1 DEF Doom, TypeInv, TypeOK
        <3>. QED  BY <1>13, <2>3, <3>1, OtherDooms DEF DoomInv
    <2>. QED  BY <1>13, <2>2, <2>3 DEF Mutate
<1>14. ASSUME UNCHANGED vars PROVE DoomInv'
    <2>. SUFFICES ASSUME NEW r \in Requests PROVE Doom(r)'
        BY DEF DoomInv
    <2>. QED  BY <1>14, DoomFrame DEF vars, DoomInv
<1>. QED  BY <1>3, <1>4, <1>5, <1>6, <1>7, <1>8, <1>9, <1>10, <1>11, <1>12, <1>13, <1>14, <1>15
          DEF Next, Work, Execute, AllDone

-----------------------------------------------------------------------------
(* The byte counts.                                                        *)

\* What a removal added up is still the content of its nodes when it subtracts it.
Count(r) ==
    pc[r] \in {"lockContent", "mutate"} /\ op[r].op = "remove" =>
        doomedBytes[r] = SumFunctionOnSet(len, doomed[r])

CountInv ==
    /\ contentBytes = SumFunctionOnSet(len, Live)
    /\ contentBytes <= MaxContentBytes
    /\ doomedBytes \in [Requests -> Nat]
    /\ \A r \in Requests : Count(r)

\* The nodes of a tree can be added up.
LEMMA LiveIsFinite == TypeInv /\ TreeInv => IsFiniteSet(Live) /\ \A n \in Live : len[n] \in Nat
<1>. SUFFICES ASSUME TypeInv, TreeInv PROVE IsFiniteSet(Live) /\ \A n \in Live : len[n] \in Nat
    OBVIOUS
<1>1. IsFiniteSet(Live)
    BY TreeIsFinite DEF TreeInv, Live
<1>. QED  BY <1>1 DEF TypeInv, TypeOK

\* The bytes of a node that is written.
LEMMA ContentWritten ==
    ASSUME TypeInv, TreeInv, CountInv, NEW s \in Requests, op[s] \in Operations,
           op[s].node \in Live
    PROVE  /\ op[s].bytes \in Nat /\ len[op[s].node] \in Nat /\ contentBytes \in Nat
           /\ len[op[s].node] <= contentBytes /\ Retained(s) \in Nat
<1>. DEFINE n == op[s].node
<1>1. op[s].bytes \in Nat /\ len[n] \in Nat
    BY OperationsAssumption DEF Operation, TypeInv, TypeOK
<1>2. IsFiniteSet(Live) /\ \A m \in Live : len[m] \in Nat
    BY LiveIsFinite
<1>3. SumFunctionOnSet(len, Live) = len[n] + SumFunctionOnSet(len, Live \ {n})
    BY <1>2, SumTakesOut
<1>4. SumFunctionOnSet(len, Live \ {n}) \in Nat
    BY <1>2, FS_Subset, SumIsNat
<1>5. contentBytes \in Nat /\ len[n] <= contentBytes
    BY <1>1, <1>3, <1>4 DEF CountInv
<1>6. Retained(s) \in Nat
    BY <1>1, <1>5 DEF Retained
<1>. QED  BY <1>1, <1>5, <1>6

\* The count after a step that changes one node's content.
LEMMA CountContent ==
    ASSUME TypeInv, GuardInv, RouteInv, TreeInv, PlanInv, DoomInv, CountInv,
           NEW s \in Requests, Mutate(s), CommitContent(s)
    PROVE  CountInv'
<1>. DEFINE n == op[s].node
            new == IF op[s].op = "text" THEN len[n] + op[s].bytes ELSE op[s].bytes
<1>1. /\ pc[s] = "mutate" /\ op[s].op \in {"text", "content", "update"} /\ n \in Live
      /\ UNCHANGED <<parent, op, doomed, doomedBytes>> /\ pc' = [pc EXCEPT ![s] = "release"]
      /\ len' = [len EXCEPT ![n] = new] /\ contentBytes' = Retained(s) + op[s].bytes
      /\ Fits(s) /\ op[s] \in Operations
    BY DEF Mutate, Goto, CommitContent, DoomInv, Doom, ContentWrites, scratch, TypeInv, Submitted
<1>2. IsFiniteSet(Live) /\ len \in [Live -> Nat] /\ Live' = Live
    BY <1>1, LiveIsFinite DEF TypeInv, TypeOK, Live
<1>7. /\ op[s].bytes \in Nat /\ len[n] \in Nat /\ contentBytes \in Nat
      /\ Retained(s) \in Nat
    BY <1>1, ContentWritten
<1>8. new \in Nat /\ contentBytes' = (contentBytes - len[n]) + new
    BY <1>1, <1>7 DEF Retained
<1>9. contentBytes' <= MaxContentBytes
    BY <1>1, <1>7, CapAssumption DEF Fits
<1>. HIDE DEF n, new
<1>3. len' \in [Live -> Nat] /\ len'[n] = new /\ \A m \in Live \ {n} : len'[m] = len[m]
    BY <1>1, <1>2, <1>8
<1>4. contentBytes' = SumFunctionOnSet(len', Live')
    <2>1. SumFunctionOnSet(len', Live) = len'[n] + SumFunctionOnSet(len', Live \ {n})
        BY <1>1, <1>2, <1>3, SumTakesOut
    <2>2. SumFunctionOnSet(len, Live) = len[n] + SumFunctionOnSet(len, Live \ {n})
        BY <1>1, <1>2, SumTakesOut
    <2>3. IsFiniteSet(Live \ {n})
        BY <1>2, FS_Subset
    <2>4. /\ SumFunctionOnSet(len', Live \ {n}) = SumFunctionOnSet(len, Live \ {n})
          /\ SumFunctionOnSet(len, Live \ {n}) \in Nat
        BY <1>2, <1>3, <2>3, SumSame, SumIsNat
    <2>. QED  BY <1>2, <1>3, <1>7, <1>8, <2>1, <2>2, <2>4 DEF CountInv
<1>5. ASSUME NEW r \in Requests PROVE Count(r)'
    <2>1. CASE r = s
        BY <1>1, <2>1 DEF Count
    <2>2. CASE r # s
        <3>. SUFFICES ASSUME pc[r] \in {"lockContent", "mutate"}, op[r].op = "remove"
                      PROVE  doomedBytes[r] = SumFunctionOnSet(len', doomed[r])
            BY <1>1, <2>2 DEF Count, TypeInv, TypeOK
        <3>1. /\ Handling(r) /\ Handling(s) /\ op[r].op \in Writes
              /\ op[s].op \in Writes \cup {"title", "update"}
            BY <1>1 DEF Handling, Executing, Writes
        <3>2. n \notin Touched(op[r])
            BY <1>1, <2>2, <3>1, Apart DEF Touched, n
        <3>3. doomed[r] = Subtree(parent, op[r].node) /\ Touched(op[r]) = doomed[r]
            BY DEF DoomInv, Doom, Touched
        <3>4. doomed[r] \subseteq Live \ {n} /\ IsFiniteSet(doomed[r])
            BY <1>2, <3>2, <3>3, FS_Subset DEF Subtree, Live
        <3>5. SumFunctionOnSet(len', doomed[r]) = SumFunctionOnSet(len, doomed[r])
            BY <1>3, <3>4, SumSame
        <3>. QED  BY <3>5 DEF CountInv, Count
    <2>. QED  BY <2>1, <2>2
<1>6. doomedBytes' \in [Requests -> Nat]
    BY <1>1 DEF CountInv
<1>. QED  BY <1>4, <1>5, <1>6, <1>9 DEF CountInv

\* The count after a step that adds an empty node or takes a subtree away.
LEMMA CountStructure ==
    ASSUME TypeInv, GuardInv, RouteInv, TreeInv, PlanInv, DoomInv, CountInv,
           NEW s \in Requests, Mutate(s), CommitAppend(s) \/ CommitRemove(s)
    PROVE  CountInv'
<1>1. /\ pc[s] = "mutate" /\ Doom(s) /\ op[s].op \in {"append", "remove"}
      /\ UNCHANGED <<op, doomed, doomedBytes>> /\ pc' = [pc EXCEPT ![s] = "release"]
      /\ registry = s
    BY DEF Mutate, Goto, DoomInv, CommitAppend, CommitRemove, scratch, RouteInv, Mutexes
<1>2. IsFiniteSet(Live) /\ len \in [Live -> Nat]
    BY LiveIsFinite DEF TypeInv, TypeOK
<1>3. ASSUME NEW r \in Requests PROVE Count(r)'
    BY <1>1 DEF Count, RouteInv, Mutexes, TypeInv, TypeOK
<1>4. contentBytes' = SumFunctionOnSet(len', Live')
    <2>1. CASE CommitAppend(s)
        <3>. DEFINE c == nextId
        <3>1. op[s].node \in Live
            BY <1>1, <2>1 DEF CommitAppend, Doom, Writes
        <3>2. c \notin Live /\ Live' = Live \cup {c}
            BY <2>1, <3>1, AppendGrows
        <3>3. /\ len' = [m \in Live \cup {c} |-> IF m = c THEN 0 ELSE len[m]]
              /\ contentBytes' = contentBytes
            BY <1>2, <2>1 DEF CommitAppend, With
        <3>. HIDE DEF c
        <3>4. /\ len' \in [Live' -> Nat] /\ len'[c] = 0
              /\ \A m \in Live : len'[m] = len[m]
            BY <1>2, <3>2, <3>3
        <3>5. IsFiniteSet(Live') /\ Live' \ {c} = Live
            BY <1>2, <3>2, FS_AddElement
        <3>6. SumFunctionOnSet(len', Live') = 0 + SumFunctionOnSet(len', Live)
            BY <3>2, <3>4, <3>5, SumTakesOut
        <3>7. /\ SumFunctionOnSet(len', Live) = SumFunctionOnSet(len, Live)
              /\ SumFunctionOnSet(len, Live) \in Nat
            BY <1>2, <3>4, SumSame, SumIsNat
        <3>. QED  BY <3>3, <3>6, <3>7 DEF CountInv
    <2>2. CASE CommitRemove(s)
        <3>. DEFINE D == doomed[s]
        <3>1. /\ op[s].node \in Live \ {RootId} /\ D = Subtree(parent, op[s].node)
              /\ D \in SUBSET Live
            BY <1>1, <2>2 DEF CommitRemove, Doom, Writes, Subtree, Live
        <3>2. Live' = Live \ D
            BY <2>2, <3>1, RemovalPrunes
        <3>3. /\ len' = [m \in Live \ D |-> len[m]]
              /\ contentBytes' = contentBytes - doomedBytes[s]
              /\ doomedBytes[s] = SumFunctionOnSet(len, D)
            BY <1>1, <1>2, <2>2 DEF CommitRemove, Without, CountInv, Count
        <3>. HIDE DEF D
        <3>4. SumFunctionOnSet(len, Live) = SumFunctionOnSet(len, D) + SumFunctionOnSet(len, Live \ D)
            BY <1>2, <3>1, SumSplits
        <3>5. IsFiniteSet(D) /\ IsFiniteSet(Live \ D)
            BY <1>2, <3>1, FS_Subset
        <3>6. SumFunctionOnSet(len, D) \in Nat /\ SumFunctionOnSet(len, Live \ D) \in Nat
            BY <1>2, <3>1, <3>5, SumIsNat
        <3>7. SumFunctionOnSet(len', Live \ D) = SumFunctionOnSet(len, Live \ D)
            BY <3>3, <3>5, SumSame
        <3>. QED  BY <3>2, <3>3, <3>4, <3>6, <3>7 DEF CountInv
    <2>. QED  BY <2>1, <2>2
<1>5. doomedBytes' \in [Requests -> Nat]
    BY <1>1 DEF CountInv
<1>6. contentBytes' <= MaxContentBytes
    <2>1. contentBytes \in Nat
        BY <1>2, SumIsNat DEF CountInv
    <2>2. contentBytes' \in {contentBytes, contentBytes - doomedBytes[s]}
        BY DEF CommitAppend, CommitRemove
    <2>. QED  BY <2>1, <2>2, CapAssumption DEF CountInv
<1>. QED  BY <1>3, <1>4, <1>5, <1>6 DEF CountInv

\* A worker that another one's step leaves alone keeps what it added up.
LEMMA CountFrame ==
    ASSUME NEW s \in Requests, Count(s), UNCHANGED len, op'[s] = op[s], pc'[s] = pc[s],
           doomed'[s] = doomed[s], doomedBytes'[s] = doomedBytes[s]
    PROVE  Count(s)'
BY DEF Count

\* Content is counted where it is written, and a removal's nodes keep theirs.
LEMMA CountStep ==
    TypeInv /\ GuardInv /\ RouteInv /\ TreeInv /\ PlanInv /\ DoomInv /\ CountInv /\ [Next]_vars
        => CountInv'
<1>. SUFFICES ASSUME TypeInv, GuardInv, RouteInv, TreeInv, PlanInv, DoomInv, CountInv, [Next]_vars
              PROVE  CountInv'
    OBVIOUS
<1>. USE DEF Goto, document, locks, mutexes, planning, scratch
<1>1. ASSUME NEW r \in Requests, UNCHANGED <<parent, len, contentBytes>>,
             \A s \in Requests : s # r => /\ pc'[s] = pc[s] /\ op'[s] = op[s]
                                          /\ doomed'[s] = doomed[s]
                                          /\ doomedBytes'[s] = doomedBytes[s],
             doomedBytes' \in [Requests -> Nat], Count(r)'
      PROVE  CountInv'
    <2>1. ASSUME NEW s \in Requests, s # r PROVE Count(s)'
        BY <1>1, <2>1, CountFrame DEF CountInv
    <2>2. contentBytes' = SumFunctionOnSet(len', Live')
        BY <1>1 DEF CountInv, Live
    <2>. QED  BY <1>1, <2>1, <2>2 DEF CountInv
<1>2. ASSUME NEW r \in Requests, NEW label, pc' = [pc EXCEPT ![r] = label],
             UNCHANGED <<parent, len, contentBytes, doomedBytes>>,
             \A s \in Requests \ {r} : op'[s] = op[s] /\ doomed'[s] = doomed[s],
             \/ label \notin {"lockContent", "mutate"}
             \/ op'[r].op # "remove"
             \/ UNCHANGED <<op, doomed>> /\ pc[r] = "lockContent"
      PROVE  CountInv'
    <2>1. pc'[r] = label /\ \A s \in Requests : s # r => pc'[s] = pc[s]
        BY <1>2 DEF TypeInv, TypeOK
    <2>2. Count(r)'
        BY <1>2, <2>1 DEF CountInv, Count
    <2>3. doomedBytes' \in [Requests -> Nat]
        BY <1>2 DEF CountInv
    <2>. QED  BY <1>1, <1>2, <2>1, <2>2, <2>3
<1>3. ASSUME NEW r \in Requests, Submit(r) PROVE CountInv'
    <2>1. PICK label \in {"plan", "coordinate"} : pc' = [pc EXCEPT ![r] = label]
        BY <1>3 DEF Submit
    <2>2. /\ UNCHANGED <<parent, len, contentBytes, doomed, doomedBytes>>
          /\ \A s \in Requests \ {r} : op'[s] = op[s]
        BY <1>3 DEF Submit, TypeInv, TypeOK
    <2>. QED  BY <1>2, <2>1, <2>2
<1>4. ASSUME NEW r \in Requests, Acquire(r) \/ Release(r) \/ Read(r) PROVE CountInv'
    <2>1. AfterDomains(r) \in {"lockParent", "validate", "execute", "dropCoordinator"}
        BY DEF AfterDomains
    <2>2. \E label \in {"plan", "coordinate", "lock", "lockParent", "validate", "execute",
                        "dropCoordinator", "release", "done"} : pc' = [pc EXCEPT ![r] = label]
        BY <1>4, <2>1 DEF Acquire, Release, Read, Plan, LockDomain, LockParent, Validate,
                          AcquireCoordinator, DropCoordinator
    <2>3. UNCHANGED <<parent, len, contentBytes, doomed, doomedBytes, op>>
        BY <1>4 DEF Acquire, Release, Read, Plan, LockDomain, LockParent, Validate,
                    AcquireCoordinator, DropCoordinator
    <2>. QED  BY <1>2, <2>2, <2>3
<1>5. ASSUME NEW r \in Requests,
             \/ BeginUpdate(r) \/ Retitle(r) \/ FindContentNode(r) \/ LockContent(r)
             \/ BeginAppend(r) \/ LockStructure(r) \/ Link(r)
      PROVE  CountInv'
    <2>1. UNCHANGED <<parent, len, contentBytes, doomed, doomedBytes, op>>
        BY <1>5 DEF BeginUpdate, Retitle, FindContentNode, LockContent, BeginAppend,
                    LockStructure, Link
    <2>2. \E label : /\ pc' = [pc EXCEPT ![r] = label]
                     /\ \/ label \in {"lockStructure", "link", "unlink", "release"}
                        \/ op[r].op # "remove"
                        \/ pc[r] = "lockContent"
        BY <1>5 DEF BeginUpdate, TitleWrites, Retitle, FindContentNode, LooksForContent,
                    LockContent, BeginAppend, LockStructure, Link, Executes, Refuse, RouteInv,
                    Route
    <2>. QED  BY <1>2, <2>1, <2>2
<1>6. ASSUME NEW r \in Requests, BeginRemove(r) PROVE CountInv'
    <2>1. /\ UNCHANGED <<parent, len, contentBytes, doomedBytes, op>>
          /\ \A s \in Requests \ {r} : doomed'[s] = doomed[s]
        BY <1>6 DEF BeginRemove, TypeInv, TypeOK
    <2>2. \E label \in {"lockStructure", "unlink", "release"} : pc' = [pc EXCEPT ![r] = label]
        BY <1>6 DEF BeginRemove, Refuse
    <2>. QED  BY <1>2, <2>1, <2>2
<1>7. ASSUME NEW r \in Requests, Unlink(r) PROVE CountInv'
    <2>1. CASE Refuse(r) /\ UNCHANGED scratch
        <3>1. UNCHANGED <<parent, len, contentBytes, doomed, doomedBytes, op>>
              /\ pc' = [pc EXCEPT ![r] = "release"]
            BY <1>7, <2>1 DEF Unlink, Refuse
        <3>. QED  BY <1>2, <3>1
    <2>2. CASE op[r].node \in Live /\ ~ UNCHANGED pc /\ Goto(r, "lockContent")
        <3>. DEFINE nodes == IF doomed[r] = {} THEN Subtree(parent, op[r].node) ELSE doomed[r]
        <3>1. /\ pc[r] = "unlink" /\ op[r].op = "remove"
              /\ UNCHANGED <<parent, len, contentBytes, op>>
              /\ pc' = [pc EXCEPT ![r] = "lockContent"]
              /\ doomed' = [doomed EXCEPT ![r] = nodes]
              /\ doomedBytes' = [doomedBytes EXCEPT ![r] = SumFunctionOnSet(len, nodes)]
            BY <1>7, <2>2 DEF Unlink, RouteInv, Route, Refuse, TypeInv, TypeOK
        <3>2. nodes \subseteq Live
            BY <2>2, <3>1 DEF DoomInv, Doom, Subtree, Live
        <3>. HIDE DEF nodes
        <3>3. IsFiniteSet(nodes) /\ \A n \in nodes : len[n] \in Nat
            BY <3>2, LiveIsFinite, FS_Subset
        <3>4. SumFunctionOnSet(len, nodes) \in Nat
            BY <3>3, SumIsNat
        <3>5. doomedBytes' \in [Requests -> Nat]
            BY <3>1, <3>4 DEF CountInv
        <3>6. Count(r)'
            BY <3>1 DEF Count, CountInv, TypeInv, TypeOK
        <3>7. \A s \in Requests : s # r => /\ pc'[s] = pc[s] /\ doomed'[s] = doomed[s]
                                           /\ doomedBytes'[s] = doomedBytes[s]
            BY <3>1 DEF CountInv, TypeInv, TypeOK
        <3>. QED  BY <1>1, <3>1, <3>5, <3>6, <3>7
    <2>3. pc[r] # "lockContent"
        BY <1>7 DEF Unlink
    <2>. QED  BY <1>7, <2>1, <2>2, <2>3 DEF Unlink, TypeInv, TypeOK
<1>8. ASSUME NEW s \in Requests, Mutate(s) PROVE CountInv'
    <2>1. CASE CommitContent(s)
        BY <1>8, <2>1, CountContent
    <2>2. CASE CommitAppend(s) \/ CommitRemove(s)
        BY <1>8, <2>2, CountStructure
    <2>3. CASE TooLarge(s)
        <3>1. /\ UNCHANGED <<parent, len, contentBytes, doomed, doomedBytes, op>>
              /\ pc' = [pc EXCEPT ![s] = "release"]
            BY <1>8, <2>3 DEF Mutate, TooLarge
        <3>. QED  BY <1>2, <3>1
    <2>. QED  BY <1>8, <2>1, <2>2, <2>3 DEF Mutate
<1>9. ASSUME UNCHANGED vars PROVE CountInv'
    <2>1. ASSUME NEW r \in Requests PROVE Count(r)'
        BY <1>9, CountFrame DEF vars, CountInv
    <2>. QED  BY <1>9, <2>1 DEF vars, CountInv, Live
<1>. QED  BY <1>3, <1>4, <1>5, <1>6, <1>7, <1>8, <1>9 DEF Next, Work, Execute, AllDone

-----------------------------------------------------------------------------
(* The theorems.                                                           *)

\* What is known of the tree and of everything workers have planned for it.
GuardedTree ==
    TypeInv /\ GuardInv /\ RouteInv /\ TreeInv /\ PlanInv /\ DoomInv /\ CountInv

\* The document starts as a tree, with nothing planned.
LEMMA GuardedTreeInit == Init => GuardedTree
<1>. SUFFICES ASSUME Init PROVE GuardedTree
    OBVIOUS
<1>1. TypeInv /\ GuardInv /\ RouteInv
    BY TypeInit, GuardInit, RouteInit
<1>2. TreeInv
    <2>1. PICK N \in Nat : N = Cardinality(DOMAIN InitParent)
        BY TreeAssumption, FS_CardinalityType
    <2>2. Live = 1 .. N /\ parent = InitParent /\ nextId = N + 1
        BY <2>1, TreeAssumption DEF Init, Live
    <2>3. RootId \in Live /\ parent[RootId] = NoNode
        BY <2>2, TreeAssumption DEF Live
    <2>4. ASSUME NEW n \in Live \ {RootId} PROVE parent[n] \in Live /\ parent[n] < n
        <3>1. parent[n] \in 1 .. n - 1 /\ n \in 1 .. N
            BY <2>2, TreeAssumption DEF Live
        <3>. QED  BY <2>2, <3>1
    <2>5. IsTree(parent)
        BY <2>1, <2>2, <2>3, <2>4 DEF IsTree, Live
    <2>. QED  BY <2>1, <2>2, <2>5 DEF TreeInv
<1>3. PlanInv /\ DoomInv
    BY DEF Init, PlanInv, Keeps, Handling, Executing, DoomInv, Doom
<1>4. CountInv
    <2>1. IsFiniteSet(Live) /\ \A n \in Live : len[n] = 0
        BY TreeAssumption DEF Init, Live
    <2>. DEFINE T == {s \in SUBSET Live : SumFunctionOnSet(len, s) = 0}
    <2>2. ASSUME NEW s \in SUBSET Live, \A t \in SUBSET s : t # s => t \in T PROVE s \in T
        <3>1. IsFiniteSet(s)
            BY <2>1, FS_Subset
        <3>2. s # {} => AnyOf(s) \in s /\ s \ {AnyOf(s)} \in T
            <4>. HIDE DEF T
            <4>. QED  BY <2>2 DEF AnyOf
        <3>3. s # {} => /\ SumFunctionOnSet(len, s \ {AnyOf(s)}) = 0
                        /\ len[AnyOf(s)] = 0
            BY <2>1, <3>2
        <3>4. SumFunctionOnSet(len, s) =
                  IF s = {} THEN 0
                  ELSE len[AnyOf(s)] + SumFunctionOnSet(len, s \ {AnyOf(s)})
            BY <3>1, SumUnfolds
        <3>5. SumFunctionOnSet(len, s) = 0
            BY ONLY <3>3, <3>4
        <3>. QED  BY <3>5
    <2>3. Live \in T
        <3>. HIDE DEF T
        <3>. QED  BY <2>1, <2>2, SubsetsByDescent
    <2>. QED  BY <2>3, CapAssumption DEF Init, CountInv, Count
<1>. QED  BY <1>1, <1>2, <1>3, <1>4 DEF GuardedTree

\* Every step keeps all of it.
LEMMA GuardedTreeHolds == Spec => []GuardedTree
<1>1. GuardedTree /\ [Next]_vars => GuardedTree'
    <2>. SUFFICES ASSUME GuardedTree, [Next]_vars PROVE GuardedTree'
        OBVIOUS
    <2>1. TypeInv' /\ GuardInv' /\ RouteInv' /\ TreeInv'
        BY TypeStep, GuardStep, RouteStep, TreeStep DEF GuardedTree
    <2>2. PlanInv' /\ DoomInv' /\ CountInv'
        BY <2>1, PlanStep, DoomStep, CountStep DEF GuardedTree
    <2>. QED  BY <2>1, <2>2 DEF GuardedTree
<1>. QED  BY <1>1, GuardedTreeInit, PTL DEF Spec

(***************************************************************************)
(* Up to the write of a request, planning it again would give the guard it *)
(* was granted: the one comparison of topology revisions                   *)
(* (acquireRequestGuard, store.zig:543) is enough, however many writers of *)
(* other domains append and remove nodes after it.                         *)
(***************************************************************************)
THEOREM GrantedPlansHold == Spec => []GrantedPlanHolds
<1>1. GuardedTree => GrantedPlanHolds
    <2>. SUFFICES ASSUME GuardedTree, NEW r \in Requests, Executing(r),
                         guard[r] \in DynamicGuards, result[r] = "none"
                  PROVE  GuardPlan(op[r]).guard = guard[r] /\ GuardPlan(op[r]).domains = want[r]
        BY DEF GrantedPlanHolds
    <2>1. Handling(r)
        BY DEF GuardedTree, RouteInv, Route, Handling
    <2>. QED  BY <2>1 DEF GuardedTree, PlanInv, Keeps, Matches
<1>. QED  BY <1>1, GuardedTreeHolds, PTL

(***************************************************************************)
(* A removal takes its whole subtree and an append lands below a live      *)
(* node, although both let the registry mutex go between looking and       *)
(* writing (removeNodeWithRuntime, store.zig:1691).                        *)
(***************************************************************************)
THEOREM NothingIsOrphaned == Spec => []NoOrphans
<1>1. GuardedTree => NoOrphans
    BY DEF GuardedTree, TreeInv, IsTree, NoOrphans, Live
<1>. QED  BY <1>1, GuardedTreeHolds, PTL

(***************************************************************************)
(* content_bytes is what the live nodes hold together, although a removal  *)
(* adds up its nodes before it takes content_bytes_mutex (store.zig:1737): *)
(* no write to those nodes can come between.  It stays under the cap.      *)
(***************************************************************************)
THEOREM ContentIsAccounted == Spec => []ContentAccounted
<1>1. GuardedTree => ContentAccounted
    <2>. SUFFICES ASSUME GuardedTree PROVE ContentAccounted
        OBVIOUS
    <2>1. DOMAIN len = Live
        BY DEF GuardedTree, TypeInv, TypeOK
    <2>. QED  BY <2>1 DEF GuardedTree, CountInv, ContentAccounted, SumFunction
<1>. QED  BY <1>1, GuardedTreeHolds, PTL

-----------------------------------------------------------------------------
(* The titles.                                                             *)

\* An update that has written its title is the last that wrote it.
TitleInv == \A r \in Requests : Half(r) => \E t \in Titles : title[op[r].node] = Append(t, r)

\* An update is half done only between its lookups, on a live node.
LEMMA HalfIsHandling ==
    ASSUME RouteInv, DoomInv, NEW r \in Requests, Half(r)
    PROVE  Handling(r) /\ op[r].op = "update" /\ op[r].node \in Live
BY DEF Half, Handling, Executing, RouteInv, Route, DoomInv, Doom

\* Nobody else writes while a request that writes titles runs its handler.
LEMMA TitleWriterAlone ==
    ASSUME GuardedTree, NEW r \in Requests, NEW s \in Requests, Handling(r), Handling(s),
           op[r].op \in {"title", "update"}, op[s].op \in Writes \cup {"title", "update"}
    PROVE  r = s
<1>. SUFFICES ASSUME r # s PROVE FALSE
    OBVIOUS
<1>1. op[r].op \in Writes
    BY Apart DEF GuardedTree
<1>. QED  BY <1>1 DEF Writes

\* The steps that neither begin nor end the second half of an update.
Elsewhere(r) ==
    \/ Submit(r) \/ Acquire(r) \/ Release(r) \/ Read(r) \/ BeginUpdate(r) \/ FindContentNode(r)
    \/ LockContent(r) \/ BeginAppend(r) \/ BeginRemove(r) \/ LockStructure(r) \/ Link(r)
    \/ Unlink(r)

\* They leave the titles alone, and which updates are half done.
LEMMA HalfKept ==
    ASSUME TypeInv, RouteInv, DoomInv, NEW r \in Requests, Elsewhere(r)
    PROVE  /\ UNCHANGED <<parent, title>>
           /\ \A s \in Requests : (Half(s)' <=> Half(s)) /\ (Half(s) => op'[s] = op[s])
<1>. USE DEF Goto, document, locks, mutexes, planning, scratch
<1>1. UNCHANGED <<parent, title>>
    BY DEF Elsewhere, Acquire, Submit, Release, Read, BeginUpdate, FindContentNode, LockContent,
           BeginAppend, BeginRemove, LockStructure, Link, Unlink, Plan, LockDomain, LockParent,
           Validate, AcquireCoordinator, DropCoordinator
<1>2. ASSUME NEW label, pc' = [pc EXCEPT ![r] = label], ~ Half(r),
             label \notin {"lookup", "lockContent", "mutate"},
             \A s \in Requests \ {r} : op'[s] = op[s]
      PROVE  \A s \in Requests : (Half(s)' <=> Half(s)) /\ (Half(s) => op'[s] = op[s])
    BY <1>2 DEF Half, TypeInv, TypeOK
<1>3. ASSUME NEW label, pc' = [pc EXCEPT ![r] = label], UNCHANGED op,
             label \in {"lockContent", "mutate"}, Half(r) <=> op[r].op = "update"
      PROVE  \A s \in Requests : (Half(s)' <=> Half(s)) /\ (Half(s) => op'[s] = op[s])
    BY <1>3 DEF Half, TypeInv, TypeOK
<1>4. CASE Submit(r)
    <2>1. \E label \in {"plan", "coordinate"} : pc' = [pc EXCEPT ![r] = label]
        BY <1>4 DEF Submit
    <2>2. ~ Half(r) /\ \A s \in Requests \ {r} : op'[s] = op[s]
        BY <1>4 DEF Submit, Half, TypeInv, TypeOK
    <2>. QED  BY <1>1, <1>2, <2>1, <2>2
<1>5. CASE Acquire(r) \/ Release(r)
    <2>1. AfterDomains(r) \in {"lockParent", "validate", "execute", "dropCoordinator"}
        BY DEF AfterDomains
    <2>2. \E label \in {"plan", "coordinate", "lock", "lockParent", "validate", "execute",
                        "dropCoordinator", "done"} : pc' = [pc EXCEPT ![r] = label]
        BY <1>5, <2>1 DEF Acquire, Release, Plan, LockDomain, LockParent, Validate,
                          AcquireCoordinator, DropCoordinator
    <2>3. UNCHANGED op /\ ~ Half(r)
        BY <1>5 DEF Acquire, Release, Plan, LockDomain, LockParent, Validate, AcquireCoordinator,
                    DropCoordinator, Half
    <2>. QED  BY <1>1, <1>2, <2>2, <2>3
<1>6. CASE Read(r) \/ BeginUpdate(r) \/ BeginAppend(r) \/ BeginRemove(r) \/ LockStructure(r)
           \/ Link(r)
    <2>1. UNCHANGED op /\ ~ Half(r)
        BY <1>6, OperationsAssumption
        DEF Read, BeginUpdate, BeginAppend, BeginRemove, LockStructure, Link, Executes, Half
    <2>2. \/ \E label \in {"retitle", "lockStructure", "link", "unlink", "release"} :
                 pc' = [pc EXCEPT ![r] = label]
          \/ pc' = [pc EXCEPT ![r] = "mutate"] /\ op[r].op # "update"
        BY <1>6 DEF Read, BeginUpdate, BeginAppend, BeginRemove, LockStructure, Link, Refuse,
                    RouteInv, Route
    <2>. QED  BY <1>1, <1>2, <1>3, <2>1, <2>2
<1>7. CASE FindContentNode(r)
    <2>1. UNCHANGED op
        BY <1>7 DEF FindContentNode
    <2>2. CASE op[r].node \in Live /\ pc' = [pc EXCEPT ![r] = "lockContent"]
        <3>1. Half(r) <=> op[r].op = "update"
            BY <1>7 DEF FindContentNode, LooksForContent, Executes, Half, RouteInv, Route
        <3>. QED  BY <1>1, <1>3, <2>1, <2>2, <3>1
    <2>3. CASE op[r].node \notin Live /\ pc' = [pc EXCEPT ![r] = "release"]
        <3>1. ~ Half(r)
            BY <2>3, HalfIsHandling
        <3>. QED  BY <1>1, <1>2, <2>1, <2>3, <3>1
    <2>. QED  BY <1>7, <2>2, <2>3 DEF FindContentNode, Refuse
<1>8. CASE LockContent(r) \/ Unlink(r)
    <2>1. UNCHANGED op
        BY <1>8 DEF LockContent, Unlink
    <2>2. \/ pc' = [pc EXCEPT ![r] = "release"] /\ ~ Half(r)
          \/ /\ \E label \in {"lockContent", "mutate"} : pc' = [pc EXCEPT ![r] = label]
             /\ Half(r) <=> op[r].op = "update"
        BY <1>8 DEF LockContent, Unlink, Refuse, Half, RouteInv, Route
    <2>. QED  BY <1>1, <1>2, <1>3, <2>1, <2>2
<1>. QED  BY <1>4, <1>5, <1>6, <1>7, <1>8 DEF Elsewhere

\* The title an update wrote stays its own until its content is there.
LEMMA TitleStep == GuardedTree /\ TitleInv /\ [Next]_vars => TitleInv'
<1>. SUFFICES ASSUME GuardedTree, TitleInv, [Next]_vars, NEW s \in Requests, Half(s)'
              PROVE  \E t \in Titles : title'[op'[s].node] = Append(t, s)
    BY DEF TitleInv
<1>1. ASSUME UNCHANGED title, Half(s), op'[s] = op[s]
      PROVE  \E t \in Titles : title'[op'[s].node] = Append(t, s)
    BY <1>1 DEF TitleInv
<1>2. ASSUME NEW r \in Requests, Elsewhere(r)
      PROVE  \E t \in Titles : title'[op'[s].node] = Append(t, s)
    BY <1>1, <1>2, HalfKept DEF GuardedTree
<1>3. ASSUME NEW r \in Requests, Retitle(r)
      PROVE  \E t \in Titles : title'[op'[s].node] = Append(t, s)
    <2>1. /\ pc[r] = "retitle" /\ op[r].op \in {"title", "update"} /\ op[r].node \in Live
          /\ title' = [title EXCEPT ![op[r].node] = Append(@, r)] /\ UNCHANGED op
          /\ \A q \in Requests \ {r} : pc'[q] = pc[q]
        BY <1>3 DEF Retitle, Goto, GuardedTree, RouteInv, Route, DoomInv, Doom, TypeInv, TypeOK
    <2>2. s # r => Half(s)
        BY <2>1 DEF Half
    <2>3. s = r
        <3>1. Handling(r)
            BY <2>1 DEF Handling, Executing
        <3>. QED  BY <2>1, <2>2, <3>1, HalfIsHandling, TitleWriterAlone DEF GuardedTree
    <2>4. title \in [Live -> Titles]
        BY DEF GuardedTree, TypeInv, TypeOK
    <2>. QED  BY <2>1, <2>3, <2>4
<1>4. ASSUME NEW r \in Requests, Mutate(r)
      PROVE  \E t \in Titles : title'[op'[s].node] = Append(t, s)
    <2>1. /\ pc[r] = "mutate" /\ pc' = [pc EXCEPT ![r] = "release"] /\ UNCHANGED op
        BY <1>4 DEF Mutate, Goto
    <2>2. s # r /\ Half(s)
        BY <2>1 DEF Half, GuardedTree, TypeInv, TypeOK
    <2>3. Handling(s) /\ op[s].op = "update" /\ Handling(r)
        BY <2>1, <2>2, HalfIsHandling DEF GuardedTree, Handling, Executing
    <2>4. op[r].op \in Writes \cup {"title", "update"}
        BY <2>1 DEF GuardedTree, RouteInv, Route
    <2>. QED  BY <2>2, <2>3, <2>4, TitleWriterAlone
<1>5. CASE UNCHANGED vars
    BY <1>1, <1>5 DEF vars, document, Half
<1>. QED  BY <1>2, <1>3, <1>4, <1>5 DEF Next, Work, Execute, Elsewhere, AllDone

\* A title without the last request that wrote it.
LEMMA UnappendedIs ==
    ASSUME NEW t \in Titles, NEW r \in Requests
    PROVE  SubSeq(Append(t, r), 1, Len(Append(t, r)) - 1) = t
<1>1. Len(t) \in Nat /\ Len(Append(t, r)) - 1 = Len(t)
    BY AppendProperties, LenProperties DEF Titles
<1>2. SubSeq(Append(t, r), 1, Len(t)) = t
    <2>1. Append(t, r) \in Seq(Requests) /\ t \in Seq(Requests)
        BY AppendProperties DEF Titles
    <2>. QED  BY <1>1, <2>1
<1>. QED  BY <1>1, <1>2

\* An update that is half done is the only one, and its title is not settled.
LEMMA SettledHalf ==
    ASSUME GuardedTree, NEW r \in Requests, Half(r), NEW t \in Titles,
           title[op[r].node] = Append(t, r)
    PROVE  Settled = [title EXCEPT ![op[r].node] = t]
<1>. DEFINE n == op[r].node
<1>1. n \in Live /\ title \in [Live -> Titles]
    BY HalfIsHandling DEF GuardedTree, TypeInv, TypeOK
<1>2. \A s \in Requests : Half(s) => s = r
    BY HalfIsHandling, TitleWriterAlone DEF GuardedTree
<1>3. SubSeq(title[n], 1, Len(title[n]) - 1) = t
    BY UnappendedIs
<1>4. Settled = [m \in Live |-> IF m = n THEN t ELSE title[m]]
    BY <1>2, <1>3 DEF Settled
<1>5. [title EXCEPT ![n] = t] = [m \in Live |-> IF m = n THEN t ELSE title[m]]
    BY <1>1
<1>. QED  BY <1>4, <1>5

\* Without one, every title is settled.
LEMMA SettledQuiet ==
    ASSUME TypeInv, \A r \in Requests : ~ Half(r)
    PROVE  Settled = title
BY DEF Settled, TypeInv, TypeOK

\* Titles stay settled as long as nothing is written.
LEMMA SettledSame ==
    ASSUME UNCHANGED <<parent, title>>,
           \A s \in Requests : (Half(s)' <=> Half(s)) /\ (Half(s) => op'[s] = op[s])
    PROVE  Settled' = Settled
BY DEF Settled, Live

-----------------------------------------------------------------------------
(* Atomic writes.                                                          *)

\* A document of Store starts as one of AtomicDocument.
LEMMA AtomicInit == Init => Atomic!Init
<1>1. Atomic!Cardinality(DOMAIN InitParent) = Cardinality(DOMAIN InitParent)
    BY DEF Atomic!Cardinality, Cardinality
<1>2. Init => Settled = title
    <2>. SUFFICES ASSUME Init PROVE Settled = title
        OBVIOUS
    <2>1. \A r \in Requests : ~ Half(r)
        BY DEF Init, Half
    <2>. QED  BY <2>1, TypeInit, SettledQuiet
<1>. QED  BY <1>1, <1>2 DEF Init, Atomic!Init

\* Both add up the bytes of a document in one way.
LEMMA AtomicSum == Atomic!SumFunction(len) = SumFunctionOnSet(len, DOMAIN len)
BY DEF Atomic!SumFunction, Atomic!SumFunctionOnSet, Atomic!FoldFunctionOnSet,
       Atomic!MapThenFoldSet, SumFunctionOnSet, FoldFunctionOnSet, MapThenFoldSet

\* The aggregate count decides what the document's cap decides.
LEMMA AtomicFits ==
    ASSUME TypeInv, TreeInv, CountInv, NEW r \in Requests, op[r] \in Operations,
           op[r].node \in Live, op[r].op \in ContentWrites
    PROVE  Atomic!Fits(r) <=> Fits(r)
<1>1. Atomic!SumFunction(len) = contentBytes
    BY AtomicSum DEF TypeInv, TypeOK, CountInv
<1>2. /\ op[r].bytes \in Nat /\ len[op[r].node] \in Nat /\ contentBytes \in Nat
      /\ Retained(r) \in Nat
    BY ContentWritten
<1>3. Retained(r) = contentBytes - (IF op[r].op = "text" THEN 0 ELSE len[op[r].node])
    BY DEF Retained
<1>4. Fits(r) <=> Retained(r) + op[r].bytes <= MaxContentBytes
    BY <1>2, CapAssumption DEF Fits
<1>5. contentBytes - len[op[r].node] + Atomic!NewLength(r) = Retained(r) + op[r].bytes
    BY <1>2, <1>3 DEF Atomic!NewLength
<1>. QED  BY <1>1, <1>4, <1>5 DEF Atomic!Fits

\* A step that looks at the document, or at a lock, is no step of AtomicDocument.
LEMMA AtomicStutter ==
    ASSUME UNCHANGED <<parent, kind, len, nextId, op, result>>, Settled' = Settled
    PROVE  [Atomic!Next]_Atomic!vars
BY DEF Atomic!vars

\* A request is refused at an instant at which its target is missing.
LEMMA AtomicRefusal ==
    ASSUME NEW r \in Requests, op[r] # NoOperation, result[r] = "none",
           result' = [result EXCEPT ![r] = "error"], UNCHANGED <<parent, kind, len, op>>,
           Settled' = Settled,
           \/ op[r].op \in ContentWrites \cup TitleWrites /\ op[r].node \notin Live
              /\ UNCHANGED nextId
           \/ op[r].op = "append" /\ op[r].node \notin Live /\ nextId' = nextId + 1
           \/ op[r].op = "remove" /\ op[r].node \notin Live \ {RootId} /\ UNCHANGED nextId
    PROVE  [Atomic!Next]_Atomic!vars
<1>1. Atomic!Refuse(r)
    BY DEF Atomic!Refuse, Atomic!Pending, Atomic!Answer, Atomic!IsLive, ContentWrites,
           TitleWrites, Live, RootId, Atomic!RootId
<1>. QED  BY <1>1 DEF Atomic!Next

\* No removal is unsupported: the walk of concurrentContainerDomainRoot leaves a node whose
\* parent starts no domains.
LEMMA RemovalsAreSupported ==
    ASSUME TreeInv, NEW n \in Live \ {RootId}
    PROVE  RemoveMode(parent, kind, n) \in DomainSafeModes \cup CoordinatorModes
<1>. USE DEF Live
<1>1. ~ StartsDomains(kind, parent[n]) => DomainRoot(parent, kind, n) # n
    <2>. SUFFICES ASSUME ~ StartsDomains(kind, parent[n]) PROVE DomainRoot(parent, kind, n) # n
        OBVIOUS
    <2>1. /\ parent[n] # RootId /\ DomainRoot(parent, kind, n) = DomainRoot(parent, kind, parent[n])
          /\ parent[n] \in Live \ {RootId} /\ parent[n] < n /\ Live \subseteq Nat
        BY DomainRootIs DEF TreeInv, IsTree
    <2>2. DomainRoot(parent, kind, parent[n]) <= parent[n]
          /\ DomainRoot(parent, kind, parent[n]) \in Live
        BY <2>1, DomainRootIn DEF TreeInv
    <2>. QED  BY <2>1, <2>2
<1>. QED  BY <1>1 DEF RemoveMode, DomainSafeModes, CoordinatorModes

\* The instant at which a write takes effect, or is refused at the cap, is the one at which
\* it is carried out.
LEMMA AtomicWrite ==
    ASSUME GuardedTree, TypeInv', TitleInv, NEW r \in Requests, Mutate(r)
    PROVE  [Atomic!Next]_Atomic!vars
<1>. DEFINE n == op[r].node
<1>1. /\ pc[r] = "mutate" /\ op[r] # NoOperation /\ op[r] \in Operations /\ result[r] = "none"
      /\ pc' = [pc EXCEPT ![r] = "release"] /\ UNCHANGED op /\ n \in Live
      /\ op[r].op \in Writes \cup {"update"}
    <2>1. pc[r] = "mutate" /\ pc' = [pc EXCEPT ![r] = "release"] /\ UNCHANGED op
        BY DEF Mutate, Goto
    <2>2. /\ op[r] \in Operations /\ n \in Live /\ result[r] = "none"
          /\ op[r].op \in Writes \cup {"update"}
        BY <2>1 DEF GuardedTree, TypeInv, Submitted, RouteInv, Route, DoomInv, Doom
    <2>. QED  BY <2>1, <2>2, OperationsAssumption
<1>2. DOMAIN kind = Live /\ DOMAIN len = Live /\ DOMAIN title = Live
    BY DEF GuardedTree, TypeInv, TypeOK
<1>3. ASSUME NEW s \in Requests, Half(s) PROVE s = r
    <2>1. Handling(r)
        BY <1>1 DEF Handling, Executing
    <2>. QED  BY <1>1, <1>3, <2>1, HalfIsHandling, TitleWriterAlone DEF GuardedTree
<1>4. Settled' = title'
    <2>1. \A s \in Requests : ~ Half(s)'
        BY <1>1, <1>3 DEF Half, GuardedTree, TypeInv, TypeOK
    <2>2. title' \in [Live' -> Titles]
        BY DEF TypeInv, TypeOK
    <2>. QED  BY <2>1, <2>2 DEF Settled
<1>5. ASSUME op[r].op # "update" PROVE Settled = title
    <2>1. \A s \in Requests : ~ Half(s)
        BY <1>1, <1>3, <1>5 DEF Half
    <2>. QED  BY <2>1, SettledQuiet DEF GuardedTree
<1>6. ASSUME op[r].op = "update", UNCHANGED title
      PROVE  Settled' = [Settled EXCEPT ![n] = Append(@, r)]
    <2>1. Half(r)
        BY <1>1, <1>6 DEF Half
    <2>2. PICK t \in Titles : title[n] = Append(t, r)
        BY <2>1 DEF TitleInv
    <2>3. Settled = [title EXCEPT ![n] = t]
        BY <2>1, <2>2, SettledHalf
    <2>4. title = [m \in Live |-> title[m]]
        BY DEF GuardedTree, TypeInv, TypeOK
    <2>5. Settled = [m \in Live |-> IF m = n THEN t ELSE title[m]]
        BY <1>2, <2>3
    <2>6. [Settled EXCEPT ![n] = Append(@, r)] = [m \in Live |-> title[m]]
        BY <1>1, <2>2, <2>5
    <2>. QED  BY <1>4, <1>6, <2>4, <2>6
<1>7. op[r].op \in ContentWrites => (Atomic!Fits(r) <=> Fits(r))
    BY <1>1, AtomicFits DEF GuardedTree
<1>8. CASE CommitContent(r) /\ Answer(r, "ok")
    <2>1. /\ op[r].op \in ContentWrites /\ Atomic!Fits(r)
          /\ len' = [len EXCEPT ![n] = Atomic!NewLength(r)]
          /\ UNCHANGED <<parent, kind, title, nextId>>
        BY <1>7, <1>8 DEF CommitContent, Atomic!NewLength
    <2>2. CASE op[r].op = "update"
        <3>1. Atomic!Update(r)
            BY <1>1, <1>6, <1>8, <2>1, <2>2
            DEF Atomic!Update, Atomic!Pending, Answer, Atomic!Answer, Atomic!IsLive,
                Atomic!WritesTitle, Atomic!WritesContent, Live
        <3>. QED  BY <3>1 DEF Atomic!Next
    <2>3. CASE op[r].op # "update"
        <3>1. Atomic!Write(r)
            BY <1>1, <1>4, <1>5, <1>8, <2>1, <2>3
            DEF ContentWrites, Atomic!Write, Atomic!Pending, Answer, Atomic!Answer, Atomic!IsLive,
                Atomic!WritesContent, Live
        <3>. QED  BY <3>1 DEF Atomic!Next
    <2>. QED  BY <2>2, <2>3
<1>9. CASE CommitAppend(r) /\ Answer(r, "ok")
    <2>1. Settled = title
        BY <1>5, <1>9 DEF CommitAppend
    <2>2. Atomic!AppendNode(r)
        BY <1>1, <1>4, <1>9, <2>1
        DEF CommitAppend, With, Atomic!AppendNode, Atomic!Pending, Answer, Atomic!Answer,
            Atomic!IsLive, Live
    <2>. QED  BY <2>2 DEF Atomic!Next
<1>10. CASE CommitRemove(r) /\ Answer(r, "ok")
    <2>1. n \in Live \ {RootId} /\ doomed[r] = Subtree(parent, n)
        BY <1>1, <1>10 DEF CommitRemove, GuardedTree, DoomInv, Doom
    <2>2. Atomic!Subtree(parent, n) = Subtree(parent, n)
        BY DEF Atomic!Subtree, Subtree
    <2>3. Settled = title
        BY <1>5, <1>10 DEF CommitRemove
    <2>4. /\ parent' = Atomic!WithoutSubtree(parent, parent, n)
          /\ kind' = Atomic!WithoutSubtree(parent, kind, n)
          /\ len' = Atomic!WithoutSubtree(parent, len, n)
          /\ Settled' = Atomic!WithoutSubtree(parent, Settled, n)
        BY <1>2, <1>4, <1>10, <2>1, <2>2, <2>3
        DEF CommitRemove, Without, Atomic!WithoutSubtree, Live
    <2>5. Atomic!Remove(r)
        BY <1>1, <1>10, <2>1, <2>4
        DEF CommitRemove, Atomic!Remove, Atomic!Pending, Answer, Atomic!Answer, Live, RootId,
            Atomic!RootId
    <2>. QED  BY <2>5 DEF Atomic!Next
<1>11. CASE TooLarge(r) /\ Answer(r, "error")
    <2>1. /\ op[r].op \in ContentWrites /\ ~ Atomic!Fits(r)
          /\ UNCHANGED <<parent, kind, len, title, nextId>>
        BY <1>7, <1>11 DEF TooLarge, document
    <2>2. CASE op[r].op = "update"
        <3>1. Atomic!TitleOnly(r)
            BY <1>1, <1>6, <1>11, <2>1, <2>2
            DEF Atomic!TitleOnly, Atomic!Pending, Answer, Atomic!Answer, Atomic!IsLive,
                Atomic!WritesTitle, Live
        <3>. QED  BY <3>1 DEF Atomic!Next
    <2>3. CASE op[r].op # "update"
        <3>1. Atomic!Refuse(r)
            BY <1>1, <1>4, <1>5, <1>11, <2>1, <2>3
            DEF ContentWrites, Atomic!Refuse, Atomic!Pending, Answer, Atomic!Answer,
                Atomic!IsLive, Live
        <3>. QED  BY <3>1 DEF Atomic!Next
    <2>. QED  BY <2>2, <2>3
<1>. QED  BY <1>8, <1>9, <1>10, <1>11 DEF Mutate

\* A title takes effect when it is written, or with the content that comes after it.
LEMMA AtomicRetitle ==
    ASSUME GuardedTree, TypeInv', NEW r \in Requests, Retitle(r)
    PROVE  [Atomic!Next]_Atomic!vars
<1>. DEFINE n == op[r].node
<1>1. /\ pc[r] = "retitle" /\ op[r].op \in {"title", "update"} /\ n \in Live
      /\ op[r] # NoOperation /\ result[r] = "none"
      /\ title' = [title EXCEPT ![n] = Append(@, r)]
      /\ UNCHANGED <<parent, kind, len, nextId, op>>
    <2>1. /\ pc[r] = "retitle" /\ title' = [title EXCEPT ![n] = Append(@, r)]
          /\ UNCHANGED <<parent, kind, len, nextId, op>>
        BY DEF Retitle
    <2>2. /\ op[r] \in Operations /\ result[r] = "none" /\ n \in Live
          /\ op[r].op \in {"title", "update"}
        BY <2>1 DEF GuardedTree, TypeInv, Submitted, RouteInv, Route, DoomInv, Doom
    <2>. QED  BY <2>1, <2>2, OperationsAssumption
<1>2. title \in [Live -> Titles]
    BY DEF GuardedTree, TypeInv, TypeOK
<1>3. ASSUME NEW s \in Requests PROVE ~ Half(s)
    <2>. SUFFICES ASSUME Half(s) PROVE FALSE
        OBVIOUS
    <2>1. Handling(r)
        BY <1>1 DEF Handling, Executing
    <2>2. s = r
        BY <1>1, <2>1, HalfIsHandling, TitleWriterAlone DEF GuardedTree
    <2>. QED  BY <1>1, <2>2 DEF Half
<1>4. Settled = title
    BY <1>3, SettledQuiet DEF GuardedTree
<1>5. CASE op[r].op = "title" /\ Goto(r, "release") /\ Answer(r, "ok")
    <2>1. \A s \in Requests : ~ Half(s)'
        BY <1>3, <1>5 DEF Goto, Half, GuardedTree, TypeInv, TypeOK, Retitle
    <2>2. title' \in [Live' -> Titles]
        BY DEF TypeInv, TypeOK
    <2>3. Settled' = title'
        BY <2>1, <2>2 DEF Settled
    <2>4. Atomic!Retitle(r)
        BY <1>1, <1>4, <1>5, <2>3
        DEF Atomic!Retitle, Atomic!Pending, Answer, Atomic!Answer, Atomic!IsLive,
            Atomic!WritesTitle, Live
    <2>. QED  BY <2>4 DEF Atomic!Next
<1>6. CASE op[r].op = "update" /\ Goto(r, "lookup") /\ UNCHANGED result
    <2>1. Half(r)' /\ \A s \in Requests \ {r} : ~ Half(s)'
        BY <1>1, <1>3, <1>6 DEF Goto, Half, GuardedTree, TypeInv, TypeOK
    <2>2. \A m \in Live : title'[m] = IF m = n THEN Append(title[n], r) ELSE title[m]
        BY <1>1, <1>2
    <2>3. SubSeq(Append(title[n], r), 1, Len(Append(title[n], r)) - 1) = title[n]
        BY <1>1, <1>2, UnappendedIs
    <2>4. Settled' = [m \in Live |-> title[m]]
        BY <1>1, <2>1, <2>2, <2>3 DEF Settled, Live
    <2>5. Settled' = Settled
        BY <1>2, <1>4, <2>4
    <2>. QED  BY <1>1, <1>6, <2>5, AtomicStutter
<1>. QED  BY <1>5, <1>6 DEF Retitle

\* Every step of a worker is one of AtomicDocument, or none.
LEMMA AtomicStep ==
    GuardedTree /\ GuardedTree' /\ TitleInv /\ [Next]_vars => [Atomic!Next]_Atomic!vars
<1>. SUFFICES ASSUME GuardedTree, GuardedTree', TitleInv, [Next]_vars
              PROVE  [Atomic!Next]_Atomic!vars
    OBVIOUS
<1>. USE DEF document, locks, mutexes, planning, scratch
<1>1. ASSUME NEW r \in Requests, pc[r] \notin {"idle", "release", "done"}
      PROVE  op[r] # NoOperation /\ result[r] = "none"
    <2>1. op[r] \in Operations
        BY <1>1 DEF GuardedTree, TypeInv, Submitted
    <2>. QED  BY <1>1, <2>1, OperationsAssumption DEF GuardedTree, RouteInv, Route
<1>11. ASSUME NEW r \in Requests, Elsewhere(r) PROVE Settled' = Settled
    BY <1>11, HalfKept, SettledSame DEF GuardedTree
<1>2. ASSUME NEW r \in Requests, Submit(r) PROVE [Atomic!Next]_Atomic!vars
    <2>1. op[r] = NoOperation
        BY <1>2 DEF Submit, GuardedTree, RouteInv, Route
    <2>2. Atomic!Submit(r)
        BY <1>2, <1>11, <2>1 DEF Submit, Atomic!Submit, Elsewhere
    <2>. QED  BY <2>2 DEF Atomic!Next
<1>3. ASSUME NEW r \in Requests,
             Acquire(r) \/ LockContent(r) \/ BeginAppend(r) \/ LockStructure(r) \/ Release(r)
      PROVE  [Atomic!Next]_Atomic!vars
    BY <1>3, <1>11, AtomicStutter DEF Elsewhere, Acquire, Plan, LockDomain, LockParent, Validate, AcquireCoordinator,
                               DropCoordinator, LockContent, BeginAppend, LockStructure, Release
<1>4. ASSUME NEW r \in Requests, Read(r) PROVE [Atomic!Next]_Atomic!vars
    <2>1. Atomic!Pending(r, "read")
        BY <1>1, <1>4 DEF Read, Executes, Atomic!Pending
    <2>2. Atomic!Read(r)
        BY <1>4, <1>11, <2>1 DEF Elsewhere, Read, Answer, Atomic!Read, Atomic!Answer
    <2>. QED  BY <2>2 DEF Atomic!Next
<1>5. ASSUME NEW r \in Requests, BeginUpdate(r) \/ FindContentNode(r)
      PROVE  [Atomic!Next]_Atomic!vars
    <2>1. /\ pc[r] \in {"execute", "lookup"} /\ op[r].op \in ContentWrites \cup TitleWrites
          /\ UNCHANGED <<parent, kind, len, nextId, op>>
          /\ \/ UNCHANGED result
             \/ op[r].node \notin Live /\ result' = [result EXCEPT ![r] = "error"]
        BY <1>5 DEF BeginUpdate, FindContentNode, LooksForContent, Executes, Refuse, Answer,
                    ContentWrites, TitleWrites, GuardedTree, RouteInv, Route
    <2>. QED  BY <1>1, <1>5, <1>11, <2>1, AtomicStutter, AtomicRefusal DEF Elsewhere
<1>6. ASSUME NEW r \in Requests, BeginRemove(r) PROVE [Atomic!Next]_Atomic!vars
    <2>1. /\ pc[r] = "execute" /\ op[r].op = "remove"
          /\ UNCHANGED <<parent, kind, len, nextId, op>>
          /\ \/ UNCHANGED result
             \/ /\ RemoveMode(parent, kind, op[r].node)
                       \in {"unknown", "root_policy_reject", "unsupported"}
                /\ result' = [result EXCEPT ![r] = "error"]
        BY <1>6 DEF BeginRemove, Executes, Refuse, Answer
    <2>2. CASE UNCHANGED result
        BY <1>6, <1>11, <2>1, <2>2, AtomicStutter DEF Elsewhere
    <2>3. CASE op[r].node \notin Live \ {RootId} /\ result' = [result EXCEPT ![r] = "error"]
        BY <1>1, <1>6, <1>11, <2>1, <2>3, AtomicRefusal DEF Elsewhere
    <2>4. op[r].node \in Live \ {RootId} =>
              RemoveMode(parent, kind, op[r].node)
                  \notin {"unknown", "root_policy_reject", "unsupported"}
        BY RemovalsAreSupported DEF GuardedTree, DomainSafeModes, CoordinatorModes
    <2>. QED  BY <2>1, <2>2, <2>3, <2>4
<1>7. ASSUME NEW r \in Requests, Link(r) PROVE [Atomic!Next]_Atomic!vars
    <2>1. /\ pc[r] = "link" /\ op[r].op = "append" /\ UNCHANGED <<parent, kind, len, op>>
          /\ \/ UNCHANGED <<nextId, result>>
             \/ /\ op[r].node \notin Live /\ nextId' = nextId + 1
                /\ result' = [result EXCEPT ![r] = "error"]
        BY <1>7 DEF Link, Refuse, Answer, GuardedTree, RouteInv, Route
    <2>. QED  BY <1>1, <1>7, <1>11, <2>1, AtomicStutter, AtomicRefusal DEF Elsewhere
<1>8. ASSUME NEW r \in Requests, Unlink(r) PROVE [Atomic!Next]_Atomic!vars
    <2>1. /\ pc[r] = "unlink" /\ op[r].op = "remove" /\ UNCHANGED <<parent, kind, len, nextId, op>>
          /\ \/ UNCHANGED result
             \/ op[r].node \notin Live /\ result' = [result EXCEPT ![r] = "error"]
        BY <1>8 DEF Unlink, Refuse, Answer, GuardedTree, RouteInv, Route
    <2>. QED  BY <1>1, <1>8, <1>11, <2>1, AtomicStutter, AtomicRefusal DEF Elsewhere
<1>9. ASSUME NEW r \in Requests, Mutate(r) PROVE [Atomic!Next]_Atomic!vars
    BY <1>9, AtomicWrite DEF GuardedTree
<1>12. ASSUME NEW r \in Requests, Retitle(r) PROVE [Atomic!Next]_Atomic!vars
    BY <1>12, AtomicRetitle DEF GuardedTree
<1>10. ASSUME UNCHANGED vars PROVE [Atomic!Next]_Atomic!vars
    <2>1. \A s \in Requests : (Half(s)' <=> Half(s)) /\ (Half(s) => op'[s] = op[s])
        BY <1>10 DEF vars, Half
    <2>2. Settled' = Settled
        BY <1>10, <2>1, SettledSame DEF vars
    <2>. QED  BY <1>10, <2>2, AtomicStutter DEF vars
<1>. QED  BY <1>2, <1>3, <1>4, <1>5, <1>6, <1>7, <1>8, <1>9, <1>10, <1>12
          DEF Next, Work, Execute, AllDone

(***************************************************************************)
(* Store implements AtomicDocument: whatever guards, retries and mutexes   *)
(* interleave, each write takes effect on the document at one instant, or  *)
(* is refused at an instant at which its target is missing or its bytes do *)
(* not fit under the cap.  The title and the content of one update take    *)
(* effect together; of an update whose content does not fit, the title     *)
(* alone, at the instant of the refusal (updateNode, store.zig:1039).      *)
(***************************************************************************)
THEOREM WritesTakeEffectAtOnce == Spec => WritesAreAtomic
<1>1. Init => TitleInv
    BY DEF Init, TitleInv, Half
<1>2. Spec => []TitleInv
    BY <1>1, TitleStep, GuardedTreeHolds, PTL DEF Spec
<1>. QED  BY <1>2, AtomicInit, AtomicStep, GuardedTreeHolds, PTL
          DEF Spec, WritesAreAtomic, Atomic!Spec
=============================================================================

--------------------------- MODULE AtomicDocument ---------------------------
(***************************************************************************)
(* What one document promises its clients: every request that writes it    *)
(* takes effect at a single instant between its submission and its answer, *)
(* on the document as it is at that instant, or is refused at an instant   *)
(* at which its target is missing (or is the root, for a removal) or its   *)
(* bytes do not fit under the document's cap.  A refused write changes     *)
(* nothing, with one exception: an update of title and content whose       *)
(* content does not fit leaves its title (TitleOnly).                      *)
(*                                                                         *)
(* RequestGuards implements this with locks; see RequestGuards!Atomic.     *)
(***************************************************************************)
EXTENDS DocumentTree, Sequences, Integers, Functions

CONSTANTS
    Requests,    \* request identities; each is submitted at most once
    Operations,  \* what a request may ask for (see RequestGuards)
    NoOperation, \* the operation of a request that is not submitted yet
    InitParent,  \* the tree the document starts with
    InitKind,
    MaxContentBytes  \* what the document may hold

VARIABLES
    parent,      \* parent of every live node
    kind,        \* kind of every live node
    len,         \* content bytes of every live node
    title,       \* the requests whose title every live node was given, in order
    nextId,      \* the id the next node gets
    op,          \* the operation of each request
    result       \* "none" until the request took effect or was refused

vars == <<parent, kind, len, title, nextId, op, result>>

Init ==
    /\ parent = InitParent
    /\ kind = InitKind
    /\ len = [n \in DOMAIN InitParent |-> 0]
    /\ title = [n \in DOMAIN InitParent |-> << >>]
    /\ nextId = Cardinality(DOMAIN InitParent) + 1
    /\ op = [r \in Requests |-> NoOperation]
    /\ result = [r \in Requests |-> "none"]

Submit(r) ==
    /\ op[r] = NoOperation
    /\ \E o \in Operations : op' = [op EXCEPT ![r] = o]
    /\ UNCHANGED <<parent, kind, len, title, nextId, result>>

Pending(r, name) == op[r] # NoOperation /\ op[r].op = name /\ result[r] = "none"
Answer(r, answer) == result' = [result EXCEPT ![r] = answer] /\ UNCHANGED op

IsLive(r) == op[r].node \in DOMAIN parent

\* The bytes of the target after the write, and whether the document may hold them.
NewLength(r) == IF op[r].op = "text" THEN len[op[r].node] + op[r].bytes ELSE op[r].bytes
Fits(r) == SumFunction(len) - len[op[r].node] + NewLength(r) <= MaxContentBytes

WritesContent(r) == len' = [len EXCEPT ![op[r].node] = NewLength(r)]
WritesTitle(r) == title' = [title EXCEPT ![op[r].node] = Append(@, r)]

\* More text on a live node, or other content.
Write(r) ==
    /\ \E name \in {"text", "content"} : Pending(r, name)
    /\ IsLive(r) /\ Fits(r)
    /\ WritesContent(r)
    /\ Answer(r, "ok")
    /\ UNCHANGED <<parent, kind, title, nextId>>

\* Another title.
Retitle(r) ==
    /\ Pending(r, "title")
    /\ IsLive(r)
    /\ WritesTitle(r)
    /\ Answer(r, "ok")
    /\ UNCHANGED <<parent, kind, len, nextId>>

\* Another title and other content, both at once.
Update(r) ==
    /\ Pending(r, "update")
    /\ IsLive(r) /\ Fits(r)
    /\ WritesTitle(r) /\ WritesContent(r)
    /\ Answer(r, "ok")
    /\ UNCHANGED <<parent, kind, nextId>>

\* The half that is left of an update whose content does not fit.
TitleOnly(r) ==
    /\ Pending(r, "update")
    /\ IsLive(r) /\ ~ Fits(r)
    /\ WritesTitle(r)
    /\ Answer(r, "error")
    /\ UNCHANGED <<parent, kind, len, nextId>>

\* A fresh child of a live node.
AppendNode(r) ==
    /\ Pending(r, "append")
    /\ op[r].node \in DOMAIN parent
    /\ parent' = [m \in DOMAIN parent \cup {nextId} |->
                    IF m = nextId THEN op[r].node ELSE parent[m]]
    /\ kind' = [m \in DOMAIN kind \cup {nextId} |->
                    IF m = nextId THEN op[r].kind ELSE kind[m]]
    /\ len' = [m \in DOMAIN len \cup {nextId} |->
                    IF m = nextId THEN 0 ELSE len[m]]
    /\ title' = [m \in DOMAIN title \cup {nextId} |->
                    IF m = nextId THEN << >> ELSE title[m]]
    /\ nextId' = nextId + 1
    /\ Answer(r, "ok")

\* A removal takes the node and everything below it, and nothing else.
Remove(r) ==
    /\ Pending(r, "remove")
    /\ op[r].node \in DOMAIN parent \ {RootId}
    /\ parent' = WithoutSubtree(parent, parent, op[r].node)
    /\ kind' = WithoutSubtree(parent, kind, op[r].node)
    /\ len' = WithoutSubtree(parent, len, op[r].node)
    /\ title' = WithoutSubtree(parent, title, op[r].node)
    /\ Answer(r, "ok")
    /\ UNCHANGED nextId

\* Nothing is promised of what a read sees while writers run.
Read(r) ==
    /\ Pending(r, "read")
    /\ \E answer \in {"ok", "error"} : Answer(r, answer)
    /\ UNCHANGED <<parent, kind, len, title, nextId>>

\* A refused append may waste an id; any other refusal changes nothing.
Refuse(r) ==
    /\ \/ /\ \E name \in {"text", "content", "update", "title"} : Pending(r, name)
          /\ ~ IsLive(r)
          /\ UNCHANGED nextId
       \/ /\ \E name \in {"text", "content"} : Pending(r, name)
          /\ IsLive(r) /\ ~ Fits(r)
          /\ UNCHANGED nextId
       \/ /\ Pending(r, "append")
          /\ ~ IsLive(r)
          /\ nextId' = nextId + 1
       \/ /\ Pending(r, "remove")
          /\ op[r].node \notin DOMAIN parent \ {RootId}
          /\ UNCHANGED nextId
    /\ Answer(r, "error")
    /\ UNCHANGED <<parent, kind, len, title>>

Next ==
    \E r \in Requests :
        \/ Submit(r) \/ Write(r) \/ Retitle(r) \/ Update(r) \/ TitleOnly(r)
        \/ AppendNode(r) \/ Remove(r) \/ Read(r) \/ Refuse(r)

Spec == Init /\ [][Next]_vars
=============================================================================

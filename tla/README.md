# muxly in TLA+

Specifications of the muxly daemon and of its transport bridge, the
model-checking configurations that go with them, and machine-checked proofs.
Every definition is translated from the sources: the Zig ones under `src/src`
(`server.zig` is `src/src/daemon/server.zig`, `store.zig` is
`src/src/daemon/state/store.zig`, `document.zig` is
`src/src/core/document.zig`), and the Rust one of the bridge (`main.rs` is
`src/tools/transport_bridge/src/main.rs`).  Paths and line numbers are relative
to the repository.

## The system

`muxlyd` keeps documents (TOM trees) and serves them to clients over sockets.

| part | state | operations | talks to |
|---|---|---|---|
| document model (`document.zig`, `muxml.zig`) | node slots, links both ways, names, contents and their sum, view root, elided nodes, lifecycle | append, update, name, remove, freeze, view | nobody; its callers lock |
| store and request guards (`store.zig`) | `DocumentRuntime` of each document: coordinator, registry and content mutexes, a lock per concurrency domain and per parent, topology revision | acquire a guard, run a handler, release | the document, tmux, the projection notifier |
| connections and lanes (`server.zig`) | `ConnectionSession` (references, pending slots, write mutex, closed flag), one queue per lane | read, reserve, enqueue, execute, write, close | router, store |
| terminal streams (`server.zig`) | `TtyStreamHandle`: bounded queue, overflow and closing flags | open, read pane output, send, close | tmux control mode, a registry shared by all connections |
| projection streams (`server.zig`) | registry of `ProjectionStreamHandle` | open, close, broadcast, drop with the connection | store (as its notifier), sessions |
| tmux backend (`daemon/tmux`, `store.zig`) | pane snapshots, control connection, projection state | pump, reconcile, capture | tmux, the root document |
| router (`router.zig`), broker (`core/conversation_broker.zig`), protocol | little | classify, parse, dispatch | lanes |
| client library (`lib/`) | connection pool, conversation router, stream handles | request, wait, cancel, stream | the daemon |
| transport bridge, serving (`main.rs`: `http-server`, `h2-server`, `h3wt-server`) | per connection its streams; for h2 the accept sequence, the body gate, the lane queues; for h3wt the identity files and the ready file | accept, pass the gate, enter and acquire a lane, submit, relay, release; make or load an identity, announce the pin | a client's network connection, and one Unix connection to the daemon per request |
| transport bridge, calling (`main.rs`: `http-client`, `h2-client`, `h3wt-client`, the two session clients) | the line being read, the set of exchange tasks, the lock of stdout | read a request, make its stream, copy the answer, join the tasks | the client library through stdin and stdout, a serving bridge |
| viewer, CLI, C interface, descriptors, adapters | interaction modes, connections | draw, parse | the client library |

What is hard here: worker threads write one tree under domain locks that are
planned without being held; reads lock what is known and let the coordinator
go; sessions are shared by connection threads, lane workers and streams, and
freed by whoever is last; sockets are closed by one thread while others write;
a bounded queue drops under load; registries are shared by connections and
keyed by ids each client chooses; notifications are sent after the change they
are about.  In the bridge, tasks on several threads pass one gate and many lanes
and must give each back on every path out; a `select!` drops what it did not
choose; the tasks of a session share one stdout; the network cuts messages
anywhere; two identity files are written one after the other by processes that
may die or run side by side.  `PROJECT.json` lists each hazard at its line, with the properties
that cover it or the reason why none does yet.

## Modules

| module | models | state and actions |
|---|---|---|
| `DocumentTree` | the tree and the questions the daemon asks about it: domains, removal modes, participating domains | no state; `parent` and `kind` are functions on the live ids |
| `AtomicDocument` | what a document promises: each write takes effect, or is refused, at one instant; an update that does not fit leaves its title | `Submit`, one action per kind of write, `TitleOnly`, `Refuse` |
| `RequestGuards` | `Store.acquireRequestGuard`, the guards, and the locked steps of the handlers | `pc[r]` is where the worker of request r is; `Plan`, `LockDomain`, `LockParent`, `Validate` are the dynamic path, `AcquireCoordinator` and `DropCoordinator` the other two; `BeginRemove`, `Unlink`, `LockContent`, `Mutate` are the critical sections of `removeNodeWithRuntime`, `BeginUpdate`, `Retitle`, `FindContentNode`, `LockContent`, `Mutate` the two halves of `updateNode`, and so on; `TooLarge` is the refusal at the content cap; every step runs between two lock operations of the code |
| `Document` | every operation of `document.zig` that changes a document | one action per operation |
| `ConnectionSession` | `ConnectionSession`, `serveConnectionImpl`, `Lane`, `executeQueuedRequest` | connections and lanes are threads; each critical section of the session's two mutexes is a step; `ClassifyFails` and `EnqueueFails` are the errors between slot and lane |
| `TtyStream` | `TtyStreamHandle`, `handleTtyStreamOpen`, `ttyStreamReaderMain`, the registry entry | `handler` and `reader` are the two threads; queueing a chunk is several steps under the mutex (`chunk` is the one in hand: drop the oldest entries, then enqueue); the environment is tmux, the client and `tty.stream.close` of others |
| `ProjectionStreams` | `ProjectionStreamRegistry`, opening and closing, the writers that broadcast | `conn[c]` is the connection thread, `pc[w]` a writer, whose broadcast drops the stale ids it meets one per step; `Fetch` is what a client does when told (external) |
| `BridgeLanes` | `classify_upstream_lane_key` and what it is made of: the lane of a request (`main.rs`) | no state; a request is a record of what the classification looks at |
| `LaneService` | what lanes promise: a request waits, is handed on alone in its lane, and leaves | `Queue`, `Serve`, `Leave` |
| `BridgeServer` | the three servers, from the accepted stream to the end of the relayed answer (`handle_http_connection`, `start_h2_stream`, `finish_server_h2_stream`, `handle_h3wt_bi_stream`, `OrderedSequenceGate`, `LaneQueue`) | `pc[s]` is where the task of stream s is; `gate` and `lanes` are the two structures behind mutexes; a step is what a task does between two awaits that others can come between; `DaemonWrites`, `DaemonCloses`, `Hangup` are the environment |
| `BridgeClient` | the five calling commands | `main` is the main task, `task[k]` the exchange of the k-th message; `ReadText`, `ReadNewline`, `ReadEnd` are `read_line_message` seen at its awaits, `Join` the branch of `select!` that drops it (`from` is where the next read starts); `TimesOut` the two time-outs, `Fails` every other failure; `Write`, `Close`, `Server*` are the environment |
| `BridgeFraming` | `read_line_message_with_cap`, `H2LineDecoder`, `read_h2_request_body` | one stream of bytes, cut anywhere, given to all three |
| `BridgeStartup` | `load_or_create_identity`, `run_h3wt_server`, `write_ready_file`, the pin check of a client, and `waitForProxyReady` (`transport.zig`) | `at[i]` is where start i is; a file is emptied in one step and filled in another; `Die` at any step |
| `MC*` | instances for TLC | trees, operation sets, names, requests |
| `DocumentTreeProofs` | lemmas about any tree, sums over its nodes, recursive functions | cited by the next two |
| `RequestGuardsProofs`, `DocumentProofs`, `ConnectionSessionProofs`, `TtyStreamProofs`, `ProjectionStreamsProofs`, `BridgeServerProofs`, `BridgeClientProofs` | theorems about these modules | `BridgeServerProofs` also has those about `BridgeStartup` and `BridgeFraming`, whose definitions have names of their own for that |

`RequestGuards` decides who may run a handler when; `Document` says what the
whole handlers do.  They share `DocumentTree`.  `ConnectionSession` delivers
requests to the workers `RequestGuards` starts with; `ProjectionStreams`
announces what the handlers changed.  `BridgeServer` extends `BridgeLanes` and
implements `LaneService`; `BridgeClient` is at the other end of its streams, and
`BridgeFraming` is how both find the messages they count.

Abstractions.  Content is its length.  A node kind is the root's, a split
container's (`h_container`, `v_container`: children of one are domains of their
own) or any other.  A name is a slug with the numbers hung on it, which is all
that sibling numbering and direct references can tell apart.  A frame is one
step, since both its writes happen under the write mutex.  A walk over the
document by a reader is one step whose result may be wrong while a writer is in
the middle of its write.  A look at freed memory is a nondeterministic choice:
it has no effect or ends the daemon.  A removal of a document's root is refused
in every mode and is not an operation of `Document`.

`RequestGuards` has the content cap and bytes for its writes, and the title of a
node as the list of the requests that wrote it.  An update of title and content
is two writes in `updateNode`: the title with no mutex, then the content under
two, which may be refused.  For `AtomicDocument` (`Settled`) it is one write, at
the instant of the content; when that does not fit, the title stays and the
request is answered with an error, which is what `TitleOnly` says.  Documents
there have no file or tty sources, so that a read that refreshes its sources
first writes nothing.

In `ConnectionSession`, `classifyExecutionLane` may fail after the slot was
reserved; the slot is not given back then (`lost`).  This is harmless, because
the connection thread leaves and nothing else reserves slots on its session,
which is what `PendingCounts` says of it.  A failing `enqueue` gives slot and
reference back.  A slot given back together with a reference that is not the
last one is one step.

In the bridge, messages are counted and not spelled out.  stdin carries a
request as pieces of text and a newline: the library writes the two apart
(`client.zig`), and pipe and buffer cut a long text anywhere.  A read that is
dropped loses the pieces it has taken, and what is left of the request is the
next message, down to the bare newline.  An answer cut short by the end of the
upstream connection is relayed as the line it looks like.  A wake-up of the gate or of a lane is a
guard: `notified()` is created before the condition is looked at, so that none
is missed.  A WebTransport stream that is dropped is finished by the library,
and its peer sees an empty answer.  An identity is the number of the start that
made it; host names and the time a certificate is valid are left out.

## Runs

`tlc -config X.cfg M`; `PROJECT.json` names the run, its properties and one
mutant per property: a plausible bug, kept in the module as an operator whose
comment starts with "Variant", that the property catches.

| run | what it shows | instance |
|---|---|---|
| `guards` | exclusion of writers, validity of granted plans, no orphans, exact byte counts within the cap, what reads exclude; every request finishes; `RequestGuards` implements `AtomicDocument` | 3 requests out of 9 operations on a chain root, island, split, nested domain; writes of 1 and 2 bytes under a cap of 2; 2 plans before the fallback; 333k states |
| `document_ops` | links, counts, bytes, view state, sibling names | 4 ids, 1 byte of content, titles that collide with generated names; 433k states |
| `session_lanes` | freeing, pending slots, whole frames, order of a lane, every request answered | a connection, two lanes, 4 requests, 2 of them pending at most; 304k states |
| `tty_stream` | order and announced loss, closing, draining, ending | 5 chunks of 1 or 2 bytes, a queue of 3 bytes; 88k states |
| `projection_streams` | sessions of streams, end of connections, no change lost to a viewer, broadcasts end | 2 viewers, 2 writers, 2 changes, equal and different conversation ids; 381k states |
| `bridge_server` | bodies read in the order of acceptance, one request per lane at the daemon, every stream ends, `BridgeServer` implements `LaneService` | 3 streams of 2 connections, each of the 3 servers, 2 kinds of request, 1 line waiting; 242k states |
| `bridge_client` | whole and ordered lines on stdout, what a clean exit means, the order of requests and what a dropped read costs, every command ends that is not kept waiting by its server | 5 commands, 2 requests of 2 pieces, answers of up to 2 lines; 123k states |
| `bridge_framing` | the three readers find the same messages however the bytes are cut, and what the cap refuses | a cap of 4, 7 bytes (newline, carriage return, other), chunks of up to 3 |
| `bridge_startup` | pins that work, an identity that stays, starts that settle | 3 starts; 134k states |

The bounds are the least at which the cases in question meet.  Three requests
are what it takes for one to plan, a second to invalidate the plan and a third
to hold the coordinator or read; two plans let a request retry once and then
fall back.  Under a cap of two bytes each write of the run fits alone, and one of two bytes
leaves no room on another node.  The tree has a domain inside a domain, so that removals take part
in two.  Two viewers and two writers are what it takes for one stream to go
stale while another writer waits and another stream is listed before or behind
it.  The queue of a terminal stream holds two or three small chunks, so that one
more drops one or two.  Four requests on two lanes with two pending at most fill
both lanes, overtake each other and get refused.  Three streams are what it
takes for one to hold a lane, one to wait for it and one to pass, and two
connections for one client to leave while the lanes and the gate are shared with
another.  Two requests of a session run side by side, two
pieces of a request are one that a dropped read loses and one that is asked, and two
lines of an answer tell apart a line from its end.  Seven bytes hold three messages, or one beyond
the cap beside one within it, with carriage returns before, after and without
their newlines.  Three starts are one that dies half way, one that repairs or
trips over what it left, and one that comes after or beside it.

What the properties of the bridge leave out, and why:

* `StreamsEnd` lets an h2 stream wait for good behind one with a wrong path:
  `start_h2_stream` returns 404 without passing the gate, at which its sequence
  is due (`main.rs:912-917`), and all later streams of all connections stall.
  No document of the repository promises otherwise; the operator `Stalled` says
  exactly when.
* `OneRequestPerLane` is about requests the bridge still watches.  When a client
  leaves, the lane is released while the daemon may still work on its request.
* `PinsAreReadyToUse` and `StoredIdentityStays` keep apart the runs in which two
  starts made an identity at the same time (`raced`); then certificate and key
  may come from different starts.
* `AskedInOrder` is about all commands and lets a session lose the beginning of a
  request; `OpenedAsSubmitted` (run `bridge_loss`) does not.
* `Exits` excepts a command whose exchange waits for the server for ever, as it
  does for a stream the server leaves open (`*.stream.open`): no command has a
  time-out for the body of an answer (`AwaitsServer`).  A failed exchange ends
  the command even then.
* `EveryStartSettles` counts a failure as settled: a bridge that dies while the
  key is being written leaves a torn file, and every later start fails until
  somebody removes it.

Three runs show that the code does not keep what a comment or an assertion of
the repository says; `findings` in `PROJECT.json` quotes it.

| run | what happens |
|---|---|
| `session_finish` | `release` runs before `finishPendingRequest`, which then asserts about freed memory |
| `bridge_fifo` | two requests for one lane reach the daemon in the opposite order: the gate is let go before the request has entered its lane |
| `bridge_loss` | a session client has read the beginning of a request when a task ends; `select!` drops the read, and what is left of the request, if only an empty line, is asked in its place |

Three more disagreements of the daemon with its documents and tests are stated in
the modules and found by TLC at once, though no configuration is kept for them:

| property | instance | what happens |
|---|---|---|
| `Document!EveryPathResolves` | `MCDocument` with `Titles <- MCNodeTitles`, `NewNames <- MCNewNames`, `NewSources = {"none"}`, `MaxContentBytes = 2`, `MaxChunk = 0`, `MaxId = 4`, `MaxElided = 2` | the second sibling titled `node` is named `node-2`, which reads as a reference to node 2 |
| `ProjectionStreams!StructureChangesAreTold` | `MCProjectionStreams` with one client, one writer, `ConversationIds = {1}`, `Roots = {1, 2}`, `Changes <- MCAllChanges`, `MaxChanges = 2` | a removal is announced with an id that leads nowhere; no viewer above it is told |
| `ProjectionStreams!ViewersAreIndependent` | the same with two clients and `Changes <- MCChanges` | a vanished viewer's stale stream is looked up by its conversation id, which a connected viewer has too, and the wrong one is removed |

One more divergence needs no run: `doc/protocol.md:167` says that `node.remove`
succeeds only for childless nodes, and `removeNodeWithRuntime` removes
subtrees in its recursive modes; `Remove` of `AtomicDocument` states the latter.
And a read may fail beside a writer of a domain that got its first lock after the
read took its snapshot (`Read` of `RequestGuards`), `debug.document.validate`
included; `AtomicDocument` promises nothing of what a read sees.

The safety properties of `ProjectionStreams` and `ConnectionSession` are stated
so that they hold around these defects (a request whose session is freed, a
stream someone else removed, a removal that was not announced), and the
comment of each property says so.

## Fairness

* `RequestGuards!FairSpec`: a worker that can take its next step eventually
  does.  Weak fairness is enough although mutexes are not fair queues: each
  request takes a bounded number of locks and there are finitely many requests.
* `ConnectionSession!FairSpec`: the same for connection threads and lane
  workers.  For a write it says that the client reads or hangs up; the code has
  no write timeout.  Clients need not send or leave.
* `TtyStream!FairSpec`: both threads run, the client reads or hangs up, and the
  tmux session pauses again and again for the 10 ms `drainEvents` waits.  The
  last point is an assumption about the environment: a session that never
  pauses keeps its stream open whatever the client asks.
* `ProjectionStreams!FairSpec`: writers run, and a client to which a frame is
  written reads or hangs up.
* `BridgeServer!FairSpec`: the runtime runs every task that can go on; a client
  sends the body of a request it began, or its stream breaks; the daemon ends
  every answer but that of an open stream; a write to a client that has left is
  found to fail.  The code has no time-outs here, so that each of these is owed
  by somebody else.
* `BridgeClient!FairSpec`: the runtime runs every task, timers fire (`TimesOut`),
  and `select!`, which picks a ready branch at random, is fair to each.  Nothing
  is assumed of the library or the server, which need not write, close, answer or
  end anything; `Exits` says what it asks of them.  No other failure (`Fails`)
  need happen.
* `BridgeStartup!FairStartup`: a bridge that runs goes on and its daemon polls the
  ready file.  A start need not happen, and no bridge need die.

## Proofs

`RequestGuardsProofs` proves, for every number of requests, every set of
operations, every initial tree and every retry limit (assumptions
`RequestsAssumption`, `OperationsAssumption`, `CapAssumption`, `RetryAssumption`,
`TreeAssumption` of `RequestGuards`):

* `TypeCorrect`: `Spec => []TypeOK`;
* `WritersAreExcluded`: `Spec => []WritersExcluded`;
* `ReadersAreExcluded`: `Spec => []ReadersExcludeKnownDomains`.

The `TypeOK` of `RequestGuards` is not inductive: that a wanted lock exists is needed to give it an
owner.  `TypeInv` adds that a submitted request is past its first label and
that the plan of a worker names existing locks.  `WritersExcluded` says what
writers may not do and nothing of how they came to it; `GuardInv` is the
invariant behind it: a worker knows the guard it is acquiring (`KnowsGuard`),
from the label at which its last lock is taken it owns every domain lock it
wants (`OwnsLocks`), and one on the coordinator path owns the coordinator, and
then its snapshot is still the set of all domain locks (`OwnsCoordinator`),
because a lock is only ever added by `Plan`, which needs the coordinator.  Two
workers cannot own the same lock, so wanted sets of running writers are
disjoint; an exclusive one wants all domains and a dynamic one at least one
(`PlanHasDomains`), so they cannot meet.  The same argument gives
`ReadersAreExcluded`.

It goes on from there, from the same assumptions, to what the requests do to the
tree:

* `GrantedPlansHold`: `Spec => []GrantedPlanHolds`;
* `NothingIsOrphaned`: `Spec => []NoOrphans`;
* `ContentIsAccounted`: `Spec => []ContentAccounted`;
* `WritesTakeEffectAtOnce`: `Spec => WritesAreAtomic`, the refinement of
  `AtomicDocument`.

None of the four is inductive, and they need each other: a removal takes the
nodes it collected only if no other writer changed its subtree meanwhile, and no
other writer did because its plan was right, which it stays because removals take
what they collected.  The invariant is `GuardedTree`:

* `RouteInv`: which operations get to which label, and who holds the registry
  and the content mutex there;
* `TreeInv`: the document is a tree (`IsTree`), in which a node is younger than
  its parent, and the next id is new;
* `PlanInv`: a plan that is being acquired is right while the revision is the one
  it was made at, and one that was granted is right until the request wrote;
* `DoomInv`: whoever is about to write has a live node, and a removal has all of
  its subtree and nothing else;
* `CountInv`: `content_bytes` is the sum over the live nodes and within the cap,
  and what a removal added up for its nodes is their sum.

The step from locks to the tree is `Apart`: two handlers that write at the same
time work on nodes of different domains, because a plan asks for the domain of
every node its operation works on (`PlanCovers`) and the wanted sets are
disjoint.  `PlanSame` and `DoomStep` then need that `DomainRoot`, `Subtree` and
the mode of a removal are the same before and after a write elsewhere
(`DomainRootSame`, `SubtreeSame`, `RemoveSame` of `DocumentTreeProofs`).  The
refinement needs one thing more, `TitleInv`: an update between its halves wrote
the last title of its node, which no other writer touches until then, so that
`Settled` takes out that title and no other.  `DomainRoot` walks up the tree
by a recursive function; that it exists is shown by induction over the ids, which
is why `TreeAssumption` says that the tree the document starts with has ids handed
out in order, as `reserveNodeId` does.  The lemmas on sums (`SumUnfolds`,
`SumTakesOut`, `SumSplits`) are about the folds of the community modules.  These
inductions are over sets, `NumbersByDescent` and `SubsetsByDescent`, since the
library's take an operator as parameter.  On the way the refinement shows that
the removal mode `unsupported` never arises (`RemovalsAreSupported`).

`DocumentProofs` proves, for any titles and names, whatever they collide with, and
any bounds (`NamesAssumption`, `SourcesAssumption`, `BoundsAssumption`):

* `DocumentTypes`: `Spec => []TypeOK`;
* `DocumentValidates`: `Spec => []Validates`;
* `PathsResolve`: `Spec => []NamedPathsResolve`.

`DocumentInv` is the invariant.  `Links` says that parents and lists of children
are two views of one tree, each child listed once and younger than its parent,
which makes every walk end; `Fresh` that the next id is new; `SiblingNames` that
siblings share no name but the empty one, without which a path would find the
wrong child; `Counts` and `Views` are the rest of `Validates`, with the elided
nodes listed once, since `removeNode` takes each out only once.  `removeNode` is
the hard step: it folds over a list that a recursive function makes.  `PostorderIs`
says that the list has each node of the subtree once, `SwapRemoveAll` that a fold
of `swapRemove` takes out what it is given, `SumWithout` that the bytes left are
those of the nodes left.  `ChildNameIs` says that `assignUniqueChildName` finds a
free name: there are more candidates than siblings.  `PathIs` follows a
path up, `ResolveSteps` and `SegmentIs` a selector down, one name at a time.

The recursive functions (`Postorder`, `PathTo`, `FlattenSeq`, the folds) exist
because each looks only at what is smaller by some measure (`RecursionByMeasure`),
and are the ones the definitions choose because there is only one.

`ConnectionSessionProofs` proves, for any connections, lanes, requests and limit
of pending ones (the assumptions named in `ConnectionSession`):

* `TypeCorrect`: `Spec => []TypeOK`;
* `SessionsOutliveTheirUse`: `Spec => []FreedIsUnused`;
* `SlotsAreCounted`: `Spec => []PendingCounts`;
* `WholeFrames`: `Spec => []FramesAreWhole`;
* `LanesKeepOrder`: `Spec => []LaneOrder`.

`SessionInv` says where each thread can be with which request (`Places`), who has
the write mutex and that a socket is closed only behind the flag (`WriterInv`),
that what a lane answered is older than what it works on, and that older than what
waits (`OrderInv`), that the references counted are the requests and threads that
hold one (`HeldInv`), and that the slots counted are the requests in lanes and the
one an error exit kept (`SlotInv`).  The last two count: a set of holders is kept finite and its
cardinality compared with the counter of the code.

`TtyStreamProofs` proves, for any queue and any chunks:

* `TypeCorrect`: `Spec => []TypeOK`;
* `LossesAreAnnounced`: `Spec => []LossIsAnnounced`;
* `DrainsBeforeClosed`: `Spec => []ExitDrains`.

`LossInv` follows data and markers through the queue, the entry in hand and what
was sent: wherever an id is missing there is a marker with no older data behind
it, or one is due.  It speaks of the queue between two of the steps under the
mutex as well.  `BytesInv` needs the sum of the queued chunks to grow and shrink
with the queue, by induction over its length.

`ProjectionStreamsProofs` proves, for any clients, writers, ids and changes:

* `TypeCorrect`: `Spec => []TypeOK`;
* `StreamsHaveSessions`: `Spec => []StreamsKeepSessions`;
* `ViewersAreTold`: `Spec => []ChangesAreTold`.

`ListInv` says that a stream is listed at most once and that the references to a
session are those of its connection thread and of its listed stream, `MutexInv` that only the holder of the registry mutex is in a
broadcast, and `SeenInv` that what a viewer has not seen is below its node, for
which `Subtree` is taken as the least set it is defined to be.

`BridgeServerProofs` proves, for every finite set of streams, any connections
and requests and any answers (`StreamsAssumption`, `RequestsAssumption`,
`NothingAssumption`):

* `TypeCorrect`: `Spec => []TypeOK`;
* `BodiesAreReadInOrder`: `Spec => []GateInOrder`.  `GateInv` adds that
  sequences are handed out once each and lie below the next one, by h2-server
  only: without it a second stream with the sequence of the first could pass;
* `LanesServeOne`: `Spec => []OneRequestPerLane`.  `LaneInv` ties each guard a
  task holds to the busy flag of its lane and says that the holders of a lane
  are one; a request the daemon is seen to work on is held;
* `LanesAreServed`: `Spec => ServesLanes`, the refinement of `LaneService`, by the
  same invariant: every action is a step of the service or leaves it alone.

It proves of `BridgeStartup`, for any number of starts (`StartsAssumption`):

* `PrintedPinsConnect`: `Startup => []PinsAreReadyToUse`;
* `IdentityIsKept`: `Startup => StoredIdentityStays`.

Their invariant is `StartupInv`: `ServedInv` follows a pin from the identity of a
bridge through its ready file to the daemon, and `OneIdentity` says that unless
two starts raced one start at most is making an identity, nobody relies on the
files until the key is there, and nobody writes them from then on.  The last
point is what makes it inductive: a start makes an identity only if a file is
missing, and the key is the last to come.

And of `BridgeFraming`, for any cap, streams of any length and chunks of any size
(`CapAssumption`):

* `LinesAreRead`: `Framing => []ReadersAreExact`;
* `FirstLineIsRead`: `Framing => []RequestIsFirstLine`.

Both say what was returned and not what is kept, which `FramingInv` adds: a reader
that has not failed keeps the bytes after the last newline (`ReaderIs`,
`DecoderIs`), and the reader of a body has met none yet (`RequestIs`).  The lines
and the rest of some bytes are defined by the positions of the newlines in all of
them; `LinesAppend`, `RestAppend` and `TooLongAppend` say how they grow with one
byte, `ChunkAdds` with a chunk, of which the decoder sees only what it kept
before.  `FoldRows` takes a fold over a list apart into its steps.

`BridgeClientProofs` proves, for any number of requests, pieces and lines
(`CommandsAssumption`, `BoundsAssumption`, `NobodyAssumption`):

* `TypeCorrect`: `Spec => []TypeOK`, which bounds the streams by the messages;
* `CleanExits`: `Spec => []CleanExit`;
* `LinesStayWhole`: `Spec => []StdoutIsLines`, from `OutputInv`: whoever owns the
  lock has written a line and not its newline, and no line of an exchange lies
  beyond those it has taken;
* `MessagesKeepTheirPlace`: `Spec => []AskedInOrder`, from `ReadInv` (as many
  messages were asked as newlines were taken, or one more at the end of stdin, each
  with pieces of one request up to its last, and a plain command drops no read) and
  `OpenInv` (where a plain command is with its one exchange).

`TypeCorrect` and `CleanExits` count: the streams are an injection of their places into the messages
(`StreamInv`), and once every task is over (`PlaceInv`) it is onto, so that there
are as many.  `CopyInv` says that a task has written all it has taken but for the
line in hand, and that one that is over had taken all the server wrote.

Every safety property of a passing run is proved, and both refinements are.  Only
model-checked: the liveness properties (out of the prover's reach), and what the
runs say of the code's disagreements with its documents.

## Plan

In this order:

1. done: `RequestGuards` with its proofs, `Document`, `ConnectionSession`,
   `TtyStream`, `ProjectionStreams`;
2. done: the transport bridge, `BridgeServer`, `BridgeClient`, `BridgeFraming`,
   `BridgeStartup`, with proofs;
3. `TmuxProjection`: the pump, pane output, incremental notifications,
   invalidation states, control connection and reconciliation of sessions with
   the root document (`store.zig:681-1390`, `daemon/tmux/reconcile.zig`);
   abstractly: after a quiet pump the projected panes are tmux's.  Hazards that
   wait for it: `store.zig:719` sets the projection to clean at the end of a pump
   although notifications drained during it, `store.zig:811` attaches a file and
   then reports an error of the refresh, `daemon/tmux/control_mode.zig:110` lets a
   busy pane keep its reader;
4. `ConversationRouter`, `ClientPool`: mailboxes, pending requests, cancel,
   time-out and late answers, leases of pooled connections, streams on a direct
   connection (`lib/client.zig`, `lib/conversation_router.zig`); abstractly: one
   answer per request, to the request it is for.  Hazards that wait for it:
   `lib/client.zig:762` and `:840`, `lib/conversation_router.zig:78`;
5. the requests that hold a guard while they write (`server.zig:849`) and the
   broadcast that reads the document without the registry mutex
   (`server.zig:519`), with the reads that refresh sources, as a composition of `RequestGuards` and
   `ProjectionStreams`;
6. the viewer's interaction state; projection layout and descriptors as pure
   operators against reference definitions; HTTP heads as a further reader of
   `BridgeFraming`;
7. proofs: done for every module there is; those of items 3 to 6 come with them.

## Not modelled

Reads that refresh file and tty sources (`router.zig:272`, `:280`, `:346`;
`store.zig:737`) write contents under a guard that excludes only the domains known
when they started.  Such a write may come between the sum of a removal in a newer
domain (`store.zig:1737`) and the content mutex it takes next (1738); the removal
then subtracts a stale sum, `content_bytes` drifts, and `document.validate` answers
`ContentAccountingDrift` (`document.zig:753`).  This was found by reading; the model
has no sources, and `ContentAccounted` is about the writers.  It comes with the
composition of item 5.  Of `executeQueuedRequest`, the `catch return` exits that
give up for want of memory (`server.zig:868-910`) answer nothing and are left out,
as are failing allocations elsewhere: where the queue of a lane cannot grow, the
connection thread frees the lane key (`server.zig:1685`) that `resolveLane` has
freed or given to the lane.

Parsing, formatting and drawing (no state that outlives a call), start-up
configuration, the C interface, adapters, platform helpers, demo and examples
(thin layers or glue).  Of the bridge: argument parsing, the TLS handshake and
pin check of the http and h2 clients (one comparison after the library's), the
text of HTTP heads, h2 windows, tracing and the unit tests.  Requests on the root
document run on one lane without a guard and race the tmux pump only through its
mutexes; they come with `TmuxProjection`.

----------------------------- MODULE TtyStream -----------------------------
(***************************************************************************)
(* One tty.stream.open (src/daemon/server.zig): a reader thread copies the *)
(* output of a tmux pane into the queue of a TtyStreamHandle, the          *)
(* connection thread that opened the stream sends the queue to its client, *)
(* and a tty.stream.close on another connection finds the handle in the    *)
(* registry.  A full queue drops its oldest data and queues an overflow    *)
(* marker before the data that made it overflow, all while the reader      *)
(* holds the mutex of the handle.                                          *)
(*                                                                         *)
(* The handle is freed before it is unregistered and, when the             *)
(* acknowledgement cannot be written, freed twice: what a step on freed    *)
(* memory does is left open, and it may end the daemon.                    *)
(***************************************************************************)
EXTENDS Integers, SequencesExt

CONSTANTS
    MaxQueueBytes,  \* max_tty_output_queue_bytes
    ChunkSizes,     \* sizes of output chunks, max_tty_output_chunk_bytes at most
    MaxChunks       \* bound: chunks the pane produces

ASSUME SizesAssumption ==
    /\ MaxQueueBytes \in Nat /\ MaxChunks \in Nat
    /\ ChunkSizes \subseteq 1 .. MaxQueueBytes

\* Chunks are numbered in the order of output; a marker is chunk 0.
Overflow == [id |-> 0, size |-> 0]
Item == [id : 1 .. MaxChunks, size : ChunkSizes] \cup {Overflow}

VARIABLES
    queue, queuedBytes, overflowPending, closing, readerDone, \* the handle
    registered,  \* the registry lists the handle
    freed,       \* the handle's memory is given back
    handler,     \* where the connection thread is
    reader,      \* where the reader thread is
    busy,        \* the tmux session keeps sending events
    chunk,       \* the chunk the reader is about to queue
    item,        \* the chunk the connection thread is about to send
    produced,    \* chunks the reader took from the pane
    sent         \* what was written to the client

buffer == <<queue, queuedBytes, overflowPending>>
handle == <<buffer, closing, readerDone>>
vars == <<handle, registered, freed, handler, reader, busy, chunk, item, produced, sent>>

Init ==
    /\ queue = <<>> /\ queuedBytes = 0 /\ overflowPending = FALSE
    /\ closing = FALSE /\ readerDone = FALSE
    /\ registered = FALSE /\ freed = FALSE
    /\ handler = "idle" /\ reader = "none"
    /\ busy \in BOOLEAN
    /\ chunk = Overflow /\ item = Overflow
    /\ produced = 0
    /\ sent = <<>>

IsData(i) == i # Overflow
Bytes(q) ==
    LET sum[k \in 0 .. Len(q)] == IF k = 0 THEN 0 ELSE sum[k - 1] + q[k].size
    IN  sum[Len(q)]

\* The mutex of the handle, across the steps of enqueueOwnedChunk; every other
\* critical section is a step of its own.
MutexFree == reader # "enqueue"

\* Variant: nobody is woken up.
WakeNobody == UNCHANGED handler

\* condition.signal and broadcast: only the connection thread ever waits.
Wake == handler' = IF handler = "blocked" THEN "wait" ELSE handler

\* Variant: only the count is reset.
ClearCount == queuedBytes' = 0 /\ overflowPending' = FALSE /\ UNCHANGED queue

\* clearQueueLocked
ClearQueue == queue' = <<>> /\ queuedBytes' = 0 /\ overflowPending' = FALSE

-----------------------------------------------------------------------------
(* The queue.                                                              *)

\* The chunk does not fit.
Overflows == queuedBytes + chunk.size > MaxQueueBytes

\* dropOldestDataLocked, while the chunk does not fit
DropOldest ==
    /\ reader = "enqueue" /\ Overflows
    /\ \E i \in DOMAIN queue :
        /\ IsData(queue[i]) /\ \A j \in 1 .. i - 1 : ~ IsData(queue[j])
        /\ queue' = RemoveAt(queue, i)
        /\ queuedBytes' = queuedBytes - queue[i].size
    /\ overflowPending' = TRUE
    /\ UNCHANGED <<closing, readerDone, registered, freed, handler, reader, busy, chunk,
                   item, produced, sent>>

\* Variant: what is dropped is dropped silently.
EnqueueSilently ==
    /\ reader = "enqueue"
    /\ ~ Overflows \/ \A i \in DOMAIN queue : ~ IsData(queue[i])
    /\ queue' = Append(queue, chunk)
    /\ queuedBytes' = queuedBytes + chunk.size
    /\ overflowPending' = FALSE
    /\ Wake
    /\ reader' = "drain"
    /\ UNCHANGED <<closing, readerDone, registered, freed, busy, chunk, item, produced,
                   sent>>

\* enqueueOwnedChunk, once the chunk fits or nothing is left to drop
Enqueue ==
    /\ reader = "enqueue"
    /\ ~ Overflows \/ \A i \in DOMAIN queue : ~ IsData(queue[i])
    /\ queue' = queue \o (IF overflowPending THEN <<Overflow, chunk>> ELSE <<chunk>>)
    /\ queuedBytes' = queuedBytes + chunk.size
    /\ overflowPending' = FALSE
    /\ Wake
    /\ reader' = "drain"
    /\ UNCHANGED <<closing, readerDone, registered, freed, busy, chunk, item, produced,
                   sent>>

-----------------------------------------------------------------------------
(* The reader thread: ttyStreamReaderMain.                                 *)

CheckClosing ==
    /\ reader = "check"
    /\ reader' = IF closing THEN "finish" ELSE "drain"
    /\ UNCHANGED <<handle, registered, freed, handler, busy, chunk, item, produced, sent>>

\* ttyStreamHandleEvent: output of the pane, for which enqueueOwnedChunk takes
\* the mutex; a closing handle discards it.
Output ==
    /\ reader = "drain" /\ busy /\ produced < MaxChunks
    /\ produced' = produced + 1
    /\ IF closing
       THEN UNCHANGED <<reader, chunk>>
       ELSE /\ reader' = "enqueue"
            /\ \E size \in ChunkSizes : chunk' = [id |-> produced + 1, size |-> size]
    /\ UNCHANGED <<handle, registered, freed, handler, busy, item, sent>>

\* drainEvents returns only once the session is quiet for 10 ms.
Quiet ==
    /\ reader = "drain" /\ ~ busy
    /\ reader' = "check"
    /\ UNCHANGED <<handle, registered, freed, handler, busy, chunk, item, produced, sent>>

\* The %exit event.
ControlExit ==
    /\ reader = "drain" /\ busy
    /\ reader' = "finish"
    /\ UNCHANGED <<handle, registered, freed, handler, busy, chunk, item, produced, sent>>

\* TtyStreamHandle.requestClose
RequestClose ==
    /\ MutexFree
    /\ closing' = TRUE
    /\ ClearQueue
    /\ UNCHANGED readerDone

\* Any other error of the reader closes the stream.
ReaderError ==
    /\ reader = "drain" /\ busy
    /\ RequestClose /\ Wake
    /\ reader' = "finish"
    /\ UNCHANGED <<registered, freed, busy, chunk, item, produced, sent>>

FinishReader ==
    /\ reader = "finish"
    /\ readerDone' = TRUE
    /\ Wake
    /\ reader' = "done"
    /\ UNCHANGED <<buffer, closing, registered, freed, busy, chunk, item, produced, sent>>

-----------------------------------------------------------------------------
(* The connection thread: handleTtyStreamOpen.                             *)

\* The target is resolved, tmux attached, and the handle registered.
Open ==
    /\ handler = "idle"
    /\ registered' = TRUE
    /\ handler' = "ack"
    /\ UNCHANGED <<handle, freed, reader, busy, chunk, item, produced, sent>>

\* The acknowledgement is written and the reader spawned, or both frees run.
Acknowledge ==
    /\ handler = "ack"
    /\ \/ handler' = "wait" /\ reader' = "check"
       \/ handler' = "abort" /\ UNCHANGED reader
    /\ UNCHANGED <<handle, registered, freed, busy, chunk, item, produced, sent>>

\* Variant: a reader that is done ends the stream, whatever is queued.
NextChunkEager ==
    /\ handler = "wait" /\ MutexFree
    /\ \/ /\ queue # <<>> /\ ~ closing /\ ~ readerDone
          /\ item' = Head(queue)
          /\ queue' = Tail(queue)
          /\ queuedBytes' = queuedBytes - Head(queue).size
          /\ handler' = "send"
       \/ /\ closing \/ readerDone
          /\ handler' = "sendClosed"
          /\ UNCHANGED <<item, queue, queuedBytes>>
       \/ /\ queue = <<>> /\ ~ closing /\ ~ readerDone
          /\ handler' = "blocked"
          /\ UNCHANGED <<item, queue, queuedBytes>>
    /\ UNCHANGED <<overflowPending, closing, readerDone, registered, freed, reader, busy,
                   chunk, produced, sent>>

\* waitNextChunk
NextChunk ==
    /\ handler = "wait" /\ MutexFree
    /\ \/ /\ queue # <<>>
          /\ item' = Head(queue)
          /\ queue' = Tail(queue)
          /\ queuedBytes' = queuedBytes - Head(queue).size
          /\ handler' = "send"
       \/ /\ queue = <<>> /\ (closing \/ readerDone)
          /\ handler' = "sendClosed"
          /\ UNCHANGED <<item, queue, queuedBytes>>
       \/ /\ queue = <<>> /\ ~ closing /\ ~ readerDone
          /\ handler' = "blocked"
          /\ UNCHANGED <<item, queue, queuedBytes>>
    /\ UNCHANGED <<overflowPending, closing, readerDone, registered, freed, reader, busy,
                   chunk, produced, sent>>

SendChunk ==
    /\ handler = "send"
    /\ \/ sent' = Append(sent, item) /\ handler' = "wait" /\ UNCHANGED handle
       \/ RequestClose /\ handler' = "sendClosed" /\ UNCHANGED sent
    /\ UNCHANGED <<registered, freed, reader, busy, chunk, item, produced>>

\* The last frame may be lost; then the reader is joined and the handle freed.
SendClosed ==
    /\ handler = "sendClosed"
    /\ handler' = "join"
    /\ UNCHANGED <<handle, registered, freed, reader, busy, chunk, item, produced, sent>>

Free ==
    /\ \/ handler = "join" /\ reader = "done" /\ handler' = "unregister"
       \/ handler = "abort" /\ handler' = "unregisterAborted"
    /\ freed' = TRUE
    /\ closing' = TRUE
    /\ ClearQueue
    /\ UNCHANGED <<readerDone, registered, reader, busy, chunk, item, produced, sent>>

\* unregister compares with the id of the freed handle, and may miss it.
Unregister ==
    /\ handler \in {"unregister", "unregisterAborted"}
    /\ handler' \in {IF handler = "unregister" THEN "left" ELSE "freeAgain", "crashed"}
    /\ registered' \in BOOLEAN
    /\ UNCHANGED <<handle, freed, reader, busy, chunk, item, produced, sent>>

\* errdefer handle.deinit, after defer handle.deinit.
FreeAgain ==
    /\ handler = "freeAgain"
    /\ handler' \in {"left", "crashed"}
    /\ UNCHANGED <<handle, registered, freed, reader, busy, chunk, item, produced, sent>>

-----------------------------------------------------------------------------
(* Other connections and the pane.                                         *)

\* tty.stream.close of this stream's conversation id.
CloseStream ==
    /\ registered
    /\ \/ /\ ~ freed
          /\ RequestClose /\ Wake
       \/ /\ freed /\ handler # "crashed"
          /\ handler' \in {handler, "crashed"}
          /\ UNCHANGED handle
    /\ UNCHANGED <<registered, freed, reader, busy, chunk, item, produced, sent>>

PaneStarts ==
    /\ ~ busy /\ busy' = TRUE
    /\ UNCHANGED <<handle, registered, freed, handler, reader, chunk, item, produced,
                   sent>>
PanePauses ==
    /\ busy /\ busy' = FALSE
    /\ UNCHANGED <<handle, registered, freed, handler, reader, chunk, item, produced,
                   sent>>

Handle == Acknowledge \/ NextChunk \/ SendChunk \/ SendClosed \/ Free \/ Unregister \/ FreeAgain
Read == CheckClosing \/ DropOldest \/ Enqueue \/ FinishReader
Environment == Output \/ ControlExit \/ ReaderError \/ CloseStream \/ PaneStarts

Next == Open \/ Handle \/ Read \/ Quiet \/ Environment \/ PanePauses

Spec == Init /\ [][Next]_vars

(***************************************************************************)
(* Both threads run when they can.  The client reads or hangs up (Handle). *)
(* The tmux session pauses again and again, long enough for drainEvents to *)
(* return: the code does not ensure it, and without it a stream whose      *)
(* session never pauses cannot be closed.                                  *)
(***************************************************************************)
FairSpec ==
    /\ Spec
    /\ WF_vars(Handle)
    /\ WF_vars(Read)
    /\ WF_vars(PanePauses)
    /\ SF_vars(Quiet)

-----------------------------------------------------------------------------
(* Properties.                                                             *)

TypeOK ==
    /\ queue \in Seq(Item)
    /\ queuedBytes = Bytes(queue) /\ queuedBytes <= MaxQueueBytes
    /\ {overflowPending, closing, readerDone} \subseteq BOOLEAN
    /\ {registered, freed, busy} \subseteq BOOLEAN
    /\ handler \in {"idle", "ack", "abort", "wait", "blocked", "send", "sendClosed", "join",
                    "unregister", "unregisterAborted", "freeAgain", "left",
                    "crashed"}
    /\ reader \in {"none", "check", "drain", "enqueue", "finish", "done"}
    /\ chunk \in Item /\ item \in Item
    /\ produced \in 0 .. MaxChunks
    /\ sent \in Seq(Item)

\* What the client has and what is on its way to it.
Stream == sent \o (IF handler = "send" THEN <<item>> ELSE <<>>) \o queue

\* No frame of chunk k is in the stream.
Missing(k) == \A i \in DOMAIN Stream : Stream[i].id # k

\* There is a marker, and no data behind it that is older than k.
Announced(k) ==
    \E i \in DOMAIN Stream :
        /\ ~ IsData(Stream[i])
        /\ \A j \in DOMAIN Stream : j > i /\ IsData(Stream[j]) => Stream[j].id > k

(***************************************************************************)
(* Chunks keep their order, none twice; and while the stream is not closed *)
(* and nobody is queueing, every chunk that was dropped has an overflow    *)
(* marker which the client sees no earlier than the place where the chunk  *)
(* is missing (server.zig:257-269).                                        *)
(***************************************************************************)
LossIsAnnounced ==
    ~ closing /\ MutexFree => \A i \in DOMAIN Stream : IsData(Stream[i]) =>
        /\ \A j \in 1 .. i - 1 : Stream[j].id < Stream[i].id
        /\ \A k \in 1 .. Stream[i].id : Missing(k) => Announced(k)

(***************************************************************************)
(* When tmux ends the session everything still queued is sent before the   *)
(* stream is reported closed (waitNextChunk, server.zig:282-286); when the *)
(* stream is closed nothing is, and output that races the close is not     *)
(* queued again (server.zig:251).                                          *)
(***************************************************************************)
ExitDrains ==
    /\ closing => queue = <<>>
    /\ handler \in {"sendClosed", "join"} /\ ~ closing
        => \/ produced = 0
           \/ sent # <<>> /\ Last(sent).id = produced

\* A stream that is closed, or whose pane is gone, ends: the connection
\* thread is woken, the reader joined (server.zig:220, 228, 1091).
ClosedStreamEnds ==
    (closing \/ readerDone) ~> (handler \in {"left", "crashed"})
=============================================================================

---------------------------- MODULE BridgeFraming ----------------------------
(***************************************************************************)
(* How the transport bridge finds the messages in a stream of bytes        *)
(* (tools/transport_bridge/src/main.rs).                                   *)
(*                                                                         *)
(* The same bytes go to the three readers the bridge has: the line reader  *)
(* of pipes, sockets and WebTransport streams, which looks at bytes one by *)
(* one; H2LineDecoder, which is pushed the chunks in which h2 hands out a  *)
(* body; and the reader of an h2 request, which wants one message.  How    *)
(* the bytes are cut into chunks is up to the network.                     *)
(***************************************************************************)
EXTENDS Naturals, SequencesExt

CONSTANTS
    Cap,        \* max_message_bytes
    MaxBytes,   \* bound: bytes of a stream
    MaxChunk    \* bound: bytes of a chunk

ASSUME CapAssumption == Cap \in Nat \ {0} /\ MaxBytes \in Nat /\ MaxChunk \in Nat

CR == "\r"
LF == "\n"
Bytes == {"x", CR, LF}

VARIABLES
    received,   \* the bytes so far
    ended,      \* whether they are all
    reader,     \* the line reader: its line, what it returned, whether it failed
    decoder,    \* H2LineDecoder: its buffer, what it returned, whether it failed
    request     \* the reader of a request body, the same, and then its outcome

framingVars == <<received, ended, reader, decoder, request>>

Fresh == [buffer |-> <<>>, lines |-> <<>>, refused |-> FALSE]

InitFraming ==
    /\ received = <<>> /\ ended = FALSE
    /\ reader = Fresh /\ decoder = Fresh
    /\ request = [buffer |-> <<>>, lines |-> <<>>, refused |-> FALSE, done |-> FALSE]

\* The newline of a line goes, and then a carriage return before it.
Strip(line) ==
    LET bare == IF line # <<>> /\ Last(line) = LF THEN Front(line) ELSE line IN
    IF bare # <<>> /\ Last(bare) = CR THEN Front(bare) ELSE bare

-----------------------------------------------------------------------------
(* The line reader: read_line_message_with_cap and read_line_message.      *)

ReadByte(r, b) ==
    LET line == Append(r.buffer, b) IN
    IF r.refused THEN r
    ELSE IF Len(line) > Cap THEN [r EXCEPT !.refused = TRUE]
    ELSE IF b = LF THEN [r EXCEPT !.buffer = <<>>, !.lines = Append(@, Strip(line))]
    ELSE [r EXCEPT !.buffer = line]

ReadEnd(r) ==
    IF r.refused \/ r.buffer = <<>> THEN r
    ELSE [r EXCEPT !.buffer = <<>>, !.lines = Append(@, Strip(r.buffer))]

-----------------------------------------------------------------------------
(* H2LineDecoder.                                                          *)

\* Where the lines of some bytes end.
Ends(bytes) ==
    FoldLeftDomain(LAMBDA ends, i : IF bytes[i] = LF THEN Append(ends, i) ELSE ends,
                   <<>>, bytes)
LinesOf(bytes) ==
    LET ends == Ends(bytes) IN
    [n \in DOMAIN ends |->
        Strip(SubSeq(bytes, IF n = 1 THEN 1 ELSE ends[n - 1] + 1, ends[n]))]
RestOf(bytes) ==
    LET ends == Ends(bytes) IN
    IF ends = <<>> THEN bytes ELSE SubSeq(bytes, Last(ends) + 1, Len(bytes))

\* Variant: a chunk is taken for itself.
PushChunkAlone(d, chunk) ==
    IF d.refused THEN d
    ELSE IF Len(chunk) > Cap THEN [d EXCEPT !.refused = TRUE]
    ELSE [d EXCEPT !.buffer = RestOf(chunk), !.lines = @ \o LinesOf(chunk)]

\* The cap is on all that is buffered, complete lines of the chunk included.
PushChunk(d, chunk) ==
    LET bytes == d.buffer \o chunk IN
    IF d.refused THEN d
    ELSE IF Len(bytes) > Cap THEN [d EXCEPT !.refused = TRUE]
    ELSE [d EXCEPT !.buffer = RestOf(bytes), !.lines = @ \o LinesOf(bytes)]

\* finish: the rest is a line as it stands, with its carriage return.
FinishDecoder(d) ==
    IF d.refused \/ d.buffer = <<>> THEN d
    ELSE [d EXCEPT !.buffer = <<>>, !.lines = Append(@, d.buffer)]

-----------------------------------------------------------------------------
(* read_h2_request_body.                                                   *)

\* Variant: several messages in a chunk are no matter.
AcceptSome(r) ==
    IF r.done \/ r.refused \/ r.lines = <<>> THEN r
    ELSE [r EXCEPT !.done = TRUE, !.lines = <<Last(@)>>]

\* One line ends the reading; several that come at once are refused.
AcceptOne(r) ==
    IF r.done \/ r.refused \/ r.lines = <<>> THEN r
    ELSE IF Len(r.lines) = 1 THEN [r EXCEPT !.done = TRUE]
    ELSE [r EXCEPT !.refused = TRUE]

RequestChunk(r, chunk) == IF r.done THEN r ELSE AcceptOne(PushChunk(r, chunk))

RequestEnd(r) ==
    IF r.done \/ r.refused THEN r
    ELSE IF FinishDecoder(r).lines = <<>> THEN [r EXCEPT !.refused = TRUE]
    ELSE AcceptOne(FinishDecoder(r))

-----------------------------------------------------------------------------
Chunks == UNION {[1 .. n -> Bytes] : n \in 1 .. MaxChunk}

Receive(chunk) ==
    /\ ~ ended /\ Len(received) + Len(chunk) <= MaxBytes
    /\ received' = received \o chunk
    /\ reader' = FoldLeft(ReadByte, reader, chunk)
    /\ decoder' = PushChunk(decoder, chunk)
    /\ request' = RequestChunk(request, chunk)
    /\ UNCHANGED ended

EndOfBytes ==
    /\ ~ ended /\ ended' = TRUE
    /\ reader' = ReadEnd(reader)
    /\ decoder' = FinishDecoder(decoder)
    /\ request' = RequestEnd(request)
    /\ UNCHANGED received

NextFraming == (\E chunk \in Chunks : Receive(chunk)) \/ EndOfBytes

Framing == InitFraming /\ [][NextFraming]_framingVars

-----------------------------------------------------------------------------
(* Properties.                                                             *)

\* What a reader that did not fail has returned, when the rest is what is left.
Exactly(r, bytes, rest) ==
    ~ r.refused =>
        IF ended /\ RestOf(bytes) # <<>>
        THEN r.lines = Append(LinesOf(bytes), rest)
        ELSE r.lines = LinesOf(bytes)

\* A line that does not fit the cap, its newline counted.
TooLong(bytes) ==
    \E i, j \in DOMAIN bytes :
        /\ j - i >= Cap /\ \A k \in i .. j - 1 : bytes[k] # LF
        /\ i = 1 \/ bytes[i - 1] = LF

\* The lines a reader returned are the lines of the bytes it was given, however
\* they were cut; the last one, that no newline ends, is returned at the end,
\* by the decoder with the carriage return the line reader would take off.  The
\* line reader refuses a stream for a line over the cap and for nothing else;
\* the decoder refuses what the line reader does, and more only if lines within
\* the cap are buffered together.
ReadersAreExact ==
    /\ Exactly(reader, received, Strip(RestOf(received)))
    /\ Exactly(decoder, received, RestOf(received))
    /\ reader.refused <=> TooLong(received)
    /\ reader.refused => decoder.refused
    /\ decoder.refused => Len(received) > Cap

\* The message of a request body is the first line of the body, and a body that
\* is one message within the cap is accepted, however it is cut.
RequestIsFirstLine ==
    /\ request.done =>
           LET first == IF LinesOf(received) = <<>> THEN RestOf(received)
                        ELSE Head(LinesOf(received))
           IN request.lines = <<first>>
    /\ ended /\ received # <<>> /\ Len(received) <= Cap
         /\ Len(Ends(received)) <= 1
         => request.done
=============================================================================

----------------------------- MODULE BridgeClient -----------------------------
(***************************************************************************)
(* The calling commands of the transport bridge (http-client, h2-client,   *)
(* h3wt-client and the two session clients, in                             *)
(* tools/transport_bridge/src/main.rs).                                    *)
(*                                                                         *)
(* The client library starts a bridge as a child, writes its requests to   *)
(* the child's stdin and reads answers from its stdout, a line each.  The  *)
(* plain commands do one exchange after the other.  A session client       *)
(* selects between the next line of stdin, the end of one of its tasks,    *)
(* each of which does one exchange, and (h2) the end of the connection.    *)
(* What select does not choose it drops: the read of a line starts afresh, *)
(* and the bytes it had taken from stdin are gone.                         *)
(*                                                                         *)
(* The library writes a request and its newline apart (lib/client.zig),    *)
(* and a pipe and the reader's buffer cut a long request anywhere: stdin   *)
(* carries Pieces pieces of text and a newline for each request.  What is  *)
(* read of a request up to its newline is one message; the k-th message    *)
(* read from stdin has exchange k.                                         *)
(***************************************************************************)
EXTENDS Naturals, SequencesExt

CONSTANTS
    Commands,   \* the commands under study
    Submitted,  \* how many requests the client library submits
    Pieces,     \* the pieces of text in which stdin delivers a request
    MaxLines,   \* bound: lines of one answer
    Nobody      \* the owner of stdout when it is free

Sessions == {"h2-session-client", "h3wt-session-client"}
AllCommands == {"http-client", "h2-client", "h3wt-client"} \cup Sessions

ASSUME CommandsAssumption == Commands \subseteq AllCommands
ASSUME BoundsAssumption ==
    /\ Submitted \in Nat \ {0} /\ Pieces \in Nat \ {0}
    /\ MaxLines \in Nat \ {0}

Exchanges == 1 .. Submitted
ASSUME NobodyAssumption == Nobody \notin Exchanges

VARIABLES
    command,
    sentLines,      \* the pipe: whole requests written to stdin,
    sentPieces,     \* pieces of the next one,
    eof,            \* and its end
    takenLines,     \* whole requests read from stdin,
    takenPieces,    \* pieces of the next one,
    from,           \* and those of them taken before the read in progress began
    stdinClosed,    \* stdin_closed
    main,           \* the main task: read (or select), exchange, or how it ended
    asked,          \* the messages read, in order: which pieces of which request
    opened,         \* the exchanges in the order their streams were made
    task,           \* per exchange: where it is
    answer,         \* per exchange: the server's status
    lines, ended,   \* per exchange: lines of the server, and their end
    copied,         \* per exchange: lines taken from the server
    stdout,         \* the pieces written to stdout
    owner           \* of the lock of stdout

stdin == <<sentLines, sentPieces, eof>>
taken == <<takenLines, takenPieces>>
reading == <<taken, from, stdinClosed>>
server == <<answer, lines, ended>>
output == <<copied, stdout, owner>>
vars == <<command, stdin, reading, main, asked, opened, task, server, output>>

Session == command \in Sessions
WebTransport == command \in {"h3wt-client", "h3wt-session-client"}
Exited == main \in {"ok", "error"}

Init ==
    /\ command \in Commands
    /\ sentLines = 0 /\ sentPieces = 0 /\ eof = FALSE
    /\ takenLines = 0 /\ takenPieces = 0 /\ from = 0 /\ stdinClosed = FALSE
    /\ main = "read"
    /\ asked = <<>> /\ opened = <<>> /\ stdout = <<>> /\ owner = Nobody
    /\ task = [k \in Exchanges |-> "none"]
    /\ answer = [k \in Exchanges |-> "none"]
    /\ lines = [k \in Exchanges |-> 0]
    /\ ended = [k \in Exchanges |-> FALSE]
    /\ copied = [k \in Exchanges |-> 0]

\* The pieces of stdout: a line of an exchange, and what ends a line.
Newline == <<0, 0>>

\* An http response is one message, as long as its Content-Length says.
OneLine == command = "http-client"

Goto(k, label) == task' = [task EXCEPT ![k] = label]

-----------------------------------------------------------------------------
(* The client library and the server.                                      *)

Write ==
    /\ sentLines < Submitted /\ ~ eof
    /\ IF sentPieces < Pieces
       THEN sentPieces' = sentPieces + 1 /\ UNCHANGED sentLines
       ELSE sentPieces' = 0 /\ sentLines' = sentLines + 1
    /\ UNCHANGED <<command, eof, reading, main, asked, opened, task, server, output>>

Close ==
    /\ ~ eof /\ eof' = TRUE
    /\ UNCHANGED <<command, sentLines, sentPieces, reading, main, asked, opened, task, server, output>>

Has(k) == k \in Range(opened)

\* A status: h2 and http have one, a WebTransport stream has none.
ServerAnswers(k) ==
    /\ Has(k) /\ answer[k] = "none"
    /\ \/ answer' = [answer EXCEPT ![k] = "ok"]
       \/ /\ ~ WebTransport
          /\ answer' = [answer EXCEPT ![k] = "refused"]
    /\ UNCHANGED <<command, stdin, reading, main, asked, opened, task, lines, ended, output>>

ServerWrites(k) ==
    /\ answer[k] = "ok" /\ ~ ended[k] /\ lines[k] < MaxLines
    /\ lines' = [lines EXCEPT ![k] = @ + 1]
    /\ UNCHANGED <<command, stdin, reading, main, asked, opened, task, answer, ended, output>>

\* A server that fails before its first line breaks an h2 stream; dropping a
\* WebTransport stream finishes it, as if the answer were empty.
ServerEnds(k) ==
    /\ answer[k] # "none" /\ ~ ended[k]
    /\ answer[k] = "ok" /\ ~ WebTransport => lines[k] > 0
    /\ ended' = [ended EXCEPT ![k] = TRUE]
    /\ UNCHANGED <<command, stdin, reading, main, asked, opened, task, answer, lines, output>>

-----------------------------------------------------------------------------
(* The main task.                                                          *)

Quit(how) == main' = how

\* Variant: each session makes its streams in the tasks.
BeginInTask(m) ==
    /\ asked' = Append(asked, m)
    /\ Goto(Len(asked) + 1, "opening") /\ UNCHANGED opened
    /\ main' = IF Session THEN "read" ELSE "exchange"

\* A message has been read.  h2-session-client makes its stream at once, a
\* plain command goes on with its exchange and reads nothing meanwhile.
Begin(m) ==
    LET k == Len(asked) + 1 IN
    /\ asked' = Append(asked, m)
    /\ IF command = "h2-session-client"
       THEN Goto(k, "headers") /\ opened' = Append(opened, k)
       ELSE Goto(k, "opening") /\ UNCHANGED opened
    /\ main' = IF Session THEN "read" ELSE "exchange"

\* What the read in progress has of the request it is in: the pieces from
\* first to last, none when a read was dropped after all of them.
Line == [request |-> takenLines + 1, first |-> from + 1, last |-> takenPieces]

AllTaken == takenLines = sentLines /\ takenPieces = sentPieces

\* read_line_message takes what stdin has: some text, or what ends the line.
ReadText ==
    /\ main = "read" /\ ~ stdinClosed
    /\ takenPieces < (IF takenLines < sentLines THEN Pieces ELSE sentPieces)
    /\ takenPieces' = takenPieces + 1
    /\ UNCHANGED <<command, stdin, takenLines, from, stdinClosed, main, asked, opened, task, server,
                   output>>

ReadNewline ==
    /\ main = "read" /\ ~ stdinClosed
    /\ takenLines < sentLines /\ takenPieces = Pieces
    /\ takenLines' = takenLines + 1 /\ takenPieces' = 0 /\ from' = 0
    /\ Begin(Line)
    /\ UNCHANGED <<command, stdin, stdinClosed, server, output>>

\* At the end of stdin a text without newline is a message, and none the end.
ReadEnd ==
    /\ main = "read" /\ ~ stdinClosed
    /\ eof /\ AllTaken
    /\ IF from < takenPieces
       THEN Begin(Line) /\ from' = takenPieces /\ UNCHANGED stdinClosed
       ELSE /\ stdinClosed' = TRUE
            /\ IF Session THEN UNCHANGED main ELSE Quit("ok")
            /\ UNCHANGED <<from, asked, opened, task>>
    /\ UNCHANGED <<command, stdin, taken, server, output>>

\* A line that is too long, or no h2 stream to be had.
ReadFails ==
    /\ main = "read" /\ ~ stdinClosed /\ ~ AllTaken
    /\ Quit("error")
    /\ UNCHANGED <<command, stdin, reading, asked, opened, task, server, output>>

\* tasks.join_next is chosen, and the read is dropped with the text it has.
Join(k) ==
    /\ main = "read" /\ Session /\ task[k] = "done"
    /\ Goto(k, "joined") /\ from' = takenPieces
    /\ UNCHANGED <<command, stdin, taken, stdinClosed, main, asked, opened, server, output>>

\* One failed task ends the session and aborts the others.
JoinFails(k) ==
    /\ main = "read" /\ Session /\ task[k] = "failed"
    /\ Quit("error")
    /\ UNCHANGED <<command, stdin, reading, asked, opened, task, server, output>>

\* connection_result is chosen: something is always left to do by then.
ConnectionEnds ==
    /\ main = "read" /\ command = "h2-session-client"
    /\ ~ stdinClosed \/ \E k \in Exchanges : task[k] \notin {"none", "joined"}
    /\ Quit("error")
    /\ UNCHANGED <<command, stdin, reading, asked, opened, task, server, output>>

\* Variant: the end of stdin alone ends a session.
FinishEarly ==
    /\ main = "read" /\ stdinClosed
    /\ Quit("ok")
    /\ UNCHANGED <<command, stdin, reading, asked, opened, task, server, output>>

FinishSession ==
    /\ main = "read" /\ stdinClosed
    /\ \A k \in Exchanges : task[k] \in {"none", "joined"}
    /\ Quit("ok")
    /\ UNCHANGED <<command, stdin, reading, asked, opened, task, server, output>>

\* A plain command awaits its exchange.
Return(k) ==
    /\ main = "exchange" /\ task[k] \in {"done", "failed"}
    /\ IF task[k] = "done" THEN main' = "read" ELSE Quit("error")
    /\ Goto(k, "joined")
    /\ UNCHANGED <<command, stdin, reading, asked, opened, server, output>>

-----------------------------------------------------------------------------
(* An exchange.                                                            *)

Open(k) ==
    /\ ~ Exited /\ task[k] = "opening"
    /\ opened' = Append(opened, k)
    /\ Goto(k, "headers")
    /\ UNCHANGED <<command, stdin, reading, main, asked, server, output>>

Headers(k) ==
    /\ ~ Exited /\ task[k] = "headers" /\ answer[k] # "none"
    /\ Goto(k, IF answer[k] = "ok" THEN "body" ELSE "failed")
    /\ UNCHANGED <<command, stdin, reading, main, asked, opened, server, output>>

\* Five seconds to open a WebTransport stream, twenty for the headers in an h2
\* session.  Nothing else that a command asks of its server has a timeout.
TimesOut(k) ==
    /\ ~ Exited
    /\ \/ task[k] = "opening" /\ WebTransport
       \/ task[k] = "headers" /\ command = "h2-session-client"
    /\ Goto(k, "failed")
    /\ UNCHANGED <<command, stdin, reading, main, asked, opened, server, output>>

\* A stream that breaks, a line that is too long.
Fails(k) ==
    /\ ~ Exited /\ task[k] \in {"opening", "headers", "body"}
    /\ Goto(k, "failed")
    /\ UNCHANGED <<command, stdin, reading, main, asked, opened, server, output>>

\* Variant: the last line is taken again when the body ends.
TakeLastAgain(k) ==
    /\ ~ Exited /\ task[k] = "body" /\ (copied[k] < lines[k] \/ ended[k])
    /\ copied' = [copied EXCEPT ![k] = @ + 1]
    /\ Goto(k, "line")
    /\ UNCHANGED <<command, stdin, reading, main, asked, opened, server, stdout, owner>>

TakeLine(k) ==
    /\ ~ Exited /\ task[k] = "body" /\ copied[k] < lines[k]
    /\ copied' = [copied EXCEPT ![k] = @ + 1]
    /\ Goto(k, "line")
    /\ UNCHANGED <<command, stdin, reading, main, asked, opened, server, stdout, owner>>

\* Variant: a line is written without the lock.
WriteLineUnlocked(k) ==
    /\ ~ Exited /\ task[k] = "line"
    /\ stdout' = Append(stdout, <<k, copied[k]>>)
    /\ Goto(k, "newline")
    /\ UNCHANGED <<command, stdin, reading, main, asked, opened, server, copied, owner>>

\* The lock of stdout is held for a line and its newline.
WriteLine(k) ==
    /\ ~ Exited /\ task[k] = "line" /\ owner = Nobody
    /\ owner' = k
    /\ stdout' = Append(stdout, <<k, copied[k]>>)
    /\ Goto(k, "newline")
    /\ UNCHANGED <<command, stdin, reading, main, asked, opened, server, copied>>

\* Variant: the lock is not given back.
WriteNewlineKeepsLock(k) ==
    /\ ~ Exited /\ task[k] = "newline"
    /\ stdout' = Append(stdout, Newline)
    /\ Goto(k, IF OneLine THEN "done" ELSE "body")
    /\ UNCHANGED <<command, stdin, reading, main, asked, opened, server, copied, owner>>

WriteNewline(k) ==
    /\ ~ Exited /\ task[k] = "newline"
    /\ owner' = Nobody
    /\ stdout' = Append(stdout, Newline)
    /\ Goto(k, IF OneLine THEN "done" ELSE "body")
    /\ UNCHANGED <<command, stdin, reading, main, asked, opened, server, copied>>

BodyEnds(k) ==
    /\ ~ Exited /\ task[k] = "body" /\ ended[k] /\ copied[k] = lines[k]
    /\ Goto(k, "done")
    /\ UNCHANGED <<command, stdin, reading, main, asked, opened, server, output>>

-----------------------------------------------------------------------------
\* What a task does of itself, once the server has done its part.
Goes(k) ==
    \/ Headers(k) \/ TakeLine(k) \/ WriteLine(k) \/ WriteNewline(k) \/ BodyEnds(k)
    \/ Return(k)

Reads == ReadText \/ ReadNewline \/ ReadEnd

Next ==
    \/ Write \/ Close \/ Reads \/ ReadFails \/ ConnectionEnds \/ FinishSession
    \/ \E k \in Exchanges :
          \/ ServerAnswers(k) \/ ServerWrites(k) \/ ServerEnds(k)
          \/ Open(k) \/ Goes(k) \/ TimesOut(k) \/ Fails(k) \/ Join(k) \/ JoinFails(k)

Spec == Init /\ [][Next]_vars

\* The scheduler runs every task, timers fire and select is fair to each of its
\* branches.  Nothing is assumed of the library or of the server.
Fairness ==
    /\ WF_vars(Reads) /\ WF_vars(FinishSession)
    /\ \A k \in Exchanges :
          /\ WF_vars(Goes(k)) /\ WF_vars(TimesOut(k))
          /\ WF_vars(Join(k)) /\ WF_vars(JoinFails(k))

FairSpec == Spec /\ Fairness

-----------------------------------------------------------------------------
(* Properties.                                                             *)

\* The values the state of the client commands takes.
TypeOK ==
    /\ command \in Commands
    /\ sentLines \in 0 .. Submitted /\ sentPieces \in 0 .. Pieces
    /\ takenLines \in 0 .. sentLines /\ takenPieces \in 0 .. Pieces
    /\ takenLines = sentLines => takenPieces <= sentPieces
    /\ from \in 0 .. takenPieces
    /\ main \in {"read", "exchange", "ok", "error"}
    /\ asked \in Seq([request : Exchanges, first : 1 .. Pieces + 1, last : 1 .. Pieces])
    /\ Len(asked) <= Submitted
    /\ Len(opened) <= Len(asked) /\ IsInjective(opened) /\ Range(opened) \subseteq Exchanges
    /\ \A k \in Exchanges : copied[k] <= lines[k]
    /\ owner \in Exchanges \cup {Nobody}

\* The library reads whole lines from stdout, and those of one answer in the
\* order in which the server sent them, however the exchanges of a session
\* interleave.
StdoutIsLines ==
    \A i \in DOMAIN stdout :
        IF i % 2 = 0 THEN stdout[i] = Newline
        ELSE /\ stdout[i] # Newline
             /\ \A j \in 1 .. i - 1 : j % 2 = 1 /\ stdout[j][1] = stdout[i][1]
                                        => stdout[j][2] < stdout[i][2]

\* A bridge that exits well has copied every line of the answer to every
\* message it read, and has read all the library wrote.
CleanExit ==
    main = "ok" =>
        /\ AllTaken /\ Len(opened) = Len(asked)
        /\ \A k \in Range(opened) :
              /\ answer[k] = "ok"
              /\ \A n \in 1 .. (IF OneLine THEN 1 ELSE lines[k]) :
                    \E i \in DOMAIN stdout : stdout[i] = <<k, n>>
        /\ Len(stdout) % 2 = 0

\* The k-th message is of the k-th request and goes on to where it ends, its
\* newline or, when the library died in the middle, what it had written: no
\* message runs over two requests, and none is asked twice or before an earlier
\* one.  What a session's dropped read costs is the beginning of a request, up
\* to the whole of its text; a plain command loses nothing.
AskedInOrder ==
    /\ \A k \in DOMAIN asked :
          /\ asked[k].request = k
          /\ \/ asked[k].last = Pieces
             \/ eof /\ k = sentLines + 1 /\ asked[k].last = sentPieces
          /\ ~ Session => asked[k].first = 1
    /\ command # "h3wt-session-client" => \A i \in DOMAIN opened : opened[i] = i

\* An exchange waits for the server where the command has set no timeout: the
\* body of an answer, and all of a plain exchange but the opening of a
\* WebTransport stream.
AwaitsServer(k) ==
    \/ task[k] = "opening" /\ ~ WebTransport
    \/ task[k] = "headers" /\ answer[k] = "none" /\ command # "h2-session-client"
    \/ task[k] = "body" /\ copied[k] = lines[k] /\ ~ ended[k]

\* A command ends once stdin has ended, unless it waits for the server in an
\* exchange for ever (as it does for a stream the server leaves open), and it
\* ends when an exchange fails, whatever the others wait for.
Exits ==
    \/ <>eof /\ \A k \in Exchanges : []<>(~ AwaitsServer(k))
    \/ <>(\E k \in Exchanges : task[k] = "failed")
    => <>Exited

\* "Keep H2 stream creation in stdin order so daemon-side FIFO lanes observe
\* the same request ordering the client submitted": the n-th request the daemon
\* is sent is the n-th that was submitted, from its beginning.
OpenedAsSubmitted ==
    command = "h2-session-client" =>
        \A i \in DOMAIN opened : asked[opened[i]].request = i /\ asked[opened[i]].first = 1
=============================================================================

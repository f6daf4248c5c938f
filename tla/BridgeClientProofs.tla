-------------------------- MODULE BridgeClientProofs --------------------------
(***************************************************************************)
(* Proofs about BridgeClient for any number of requests, any length of the *)
(* answers, and all commands.                                              *)
(*                                                                         *)
(* OutputInv ties the lock of stdout to what has been written; ReadInv     *)
(* says which message the pieces taken from stdin belong to; OpenInv where *)
(* the exchanges of the commands that keep their order are.                *)
(*                                                                         *)
(* What holds when a command exits well, and its type invariant, count the *)
(* streams that were made against the messages that were read: PlaceInv    *)
(* says how far stdin and the tasks are, StreamInv which messages have a   *)
(* stream, and CopyInv which lines have been copied.                       *)
(***************************************************************************)
EXTENDS BridgeClient, FiniteSetTheorems, TLAPS

Tasks == {"none", "opening", "headers", "body", "line", "newline", "done", "failed",
          "joined"}

\* Some pieces of a request.
Message == [request : Nat, first : Nat, last : Nat]

Types ==
    /\ command \in Commands
    /\ sentLines \in Nat /\ sentPieces \in Nat
    /\ takenLines \in Nat /\ takenPieces \in Nat /\ from \in Nat
    /\ main \in {"read", "exchange", "ok", "error"}
    /\ asked \in Seq(Message) /\ opened \in Seq(Nat)
    /\ task \in [Exchanges -> Tasks]
    /\ lines \in [Exchanges -> Nat] /\ copied \in [Exchanges -> Nat]
    /\ stdout \in Seq(Nat \X Nat)
    /\ owner \in Exchanges \cup {Nobody}
    /\ \A k \in Exchanges : k > Len(asked) => task[k] = "none"

\* Whole lines, and those of one exchange in their order.
Lines(s) ==
    \A i \in DOMAIN s :
        IF i % 2 = 0 THEN s[i] = Newline
        ELSE /\ s[i] # Newline
             /\ \A j \in 1 .. i - 1 : j % 2 = 1 /\ s[j][1] = s[i][1] => s[j][2] < s[i][2]

\* The lines of exchange k go up to line n.
UpTo(s, k, n) == \A i \in DOMAIN s : i % 2 = 1 /\ s[i][1] = k => s[i][2] <= n

\* Whoever owns stdout has written a line and not its newline, nobody else has,
\* and no line has been written that was not taken from the server.
OutputInv ==
    /\ Lines(stdout)
    /\ owner = Nobody => Len(stdout) % 2 = 0
    /\ owner # Nobody => Len(stdout) % 2 = 1 /\ task[owner] = "newline"
    /\ \A k \in Exchanges :
          /\ task[k] = "newline" => owner = k
          /\ UpTo(stdout, k, copied[k])
          /\ task[k] = "line" => UpTo(stdout, k, copied[k] - 1)

-----------------------------------------------------------------------------
LEMMA TypesInit == Init => Types
BY CommandsAssumption DEF Init, Types, Tasks

LEMMA LineType == Types => Line \in Message
BY DEF Types, Line, Message

\* What beginning an exchange does to the tasks: the next one leaves "none".
LEMMA BeginTasks ==
    ASSUME Types, NEW m \in Message, Begin(m)
    PROVE  /\ task' \in [Exchanges -> Tasks]
           /\ \A k \in Exchanges :
                 \/ task'[k] = task[k] /\ k # Len(asked) + 1
                 \/ task[k] = "none" /\ k = Len(asked) + 1 /\ task'[k] \in {"opening", "headers"}
<1>1. /\ Len(asked) \in Nat /\ task \in [Exchanges -> Tasks]
      /\ \A k \in Exchanges : k > Len(asked) => task[k] = "none"
    BY DEF Types
<1>2. Exchanges \subseteq Nat
    BY BoundsAssumption DEF Exchanges
<1>3. ASSUME NEW l \in {"opening", "headers"}, task' = [task EXCEPT ![Len(asked) + 1] = l]
      PROVE  /\ task' \in [Exchanges -> Tasks]
             /\ \A k \in Exchanges :
                   \/ task'[k] = task[k] /\ k # Len(asked) + 1
                   \/ task[k] = "none" /\ k = Len(asked) + 1 /\ task'[k] = l
    <2>1. task' \in [Exchanges -> Tasks]
        BY <1>1, <1>3 DEF Tasks
    <2>2. \A k \in Exchanges : IF k = Len(asked) + 1 THEN task'[k] = l ELSE task'[k] = task[k]
        BY <1>1, <1>3
    <2>3. \A k \in Exchanges : k = Len(asked) + 1 => task[k] = "none"
        BY <1>1, <1>2
    <2>. QED  BY <2>1, <2>2, <2>3
<1>4. CASE command = "h2-session-client"
    <2>1. task' = [task EXCEPT ![Len(asked) + 1] = "headers"]
        BY <1>4 DEF Begin, Goto
    <2>. QED  BY <1>3, <2>1
<1>5. CASE command # "h2-session-client"
    <2>1. task' = [task EXCEPT ![Len(asked) + 1] = "opening"]
        BY <1>5 DEF Begin, Goto
    <2>. QED  BY <1>3, <2>1
<1>. QED  BY <1>4, <1>5

LEMMA BeginType ==
    ASSUME Types, NEW m \in Message, Begin(m),
           UNCHANGED <<command, sentLines, sentPieces, lines, copied, stdout, owner>>,
           takenLines' \in Nat, takenPieces' \in Nat, from' \in Nat
    PROVE  Types'
<1>1. asked' \in Seq(Message) /\ Len(asked') = Len(asked) + 1
    BY DEF Begin, Types
<1>2. opened' \in Seq(Nat)
    <2>1. CASE command = "h2-session-client"
        <3>1. opened' = Append(opened, Len(asked) + 1)
            BY <2>1 DEF Begin
        <3>2. Len(asked) + 1 \in Nat
            BY DEF Types
        <3>. QED  BY <3>1, <3>2 DEF Types
    <2>2. CASE command # "h2-session-client"
        BY <2>2 DEF Begin, Types
    <2>. QED  BY <2>1, <2>2
<1>3. main' \in {"read", "exchange", "ok", "error"}
    BY DEF Begin
<1>4. Len(asked) \in Nat
    BY DEF Types
<1>5. \A k \in Exchanges : k > Len(asked') => task'[k] = "none"
    <2>1. Exchanges \subseteq Nat /\ \A k \in Exchanges : k > Len(asked) => task[k] = "none"
        BY BoundsAssumption DEF Exchanges, Types
    <2>. QED  BY <1>1, <1>4, <2>1, BeginTasks
<1>. QED  BY <1>1, <1>2, <1>3, <1>5, BeginTasks DEF Types

LEMMA TypesStep == Types /\ [Next]_vars => Types'
<1>. SUFFICES ASSUME Types, [Next]_vars PROVE Types'
    OBVIOUS
<1>. USE DEF Types, Tasks, Goto, stdin, taken, reading, server, output
<1>1. CASE Write
    BY <1>1 DEF Write
<1>2. CASE Close
    BY <1>2 DEF Close
<1>3. CASE ReadText
    BY <1>3 DEF ReadText
<1>4. CASE ReadNewline
    <2>1. /\ Begin(Line) /\ Line \in Message
          /\ takenLines' \in Nat /\ takenPieces' \in Nat /\ from' \in Nat
        BY <1>4, LineType DEF ReadNewline
    <2>2. UNCHANGED <<command, sentLines, sentPieces, lines, copied, stdout, owner>>
        BY <1>4 DEF ReadNewline
    <2>. QED  BY <2>1, <2>2, BeginType
<1>5. CASE ReadEnd
    <2>1. CASE from < takenPieces
        <3>1. /\ Begin(Line) /\ Line \in Message
              /\ takenLines' \in Nat /\ takenPieces' \in Nat /\ from' \in Nat
            BY <1>5, <2>1, LineType DEF ReadEnd
        <3>2. UNCHANGED <<command, sentLines, sentPieces, lines, copied, stdout, owner>>
            BY <1>5 DEF ReadEnd
        <3>. QED  BY <3>1, <3>2, BeginType
    <2>2. CASE ~ (from < takenPieces)
        BY <1>5, <2>2 DEF ReadEnd, Quit
    <2>. QED  BY <2>1, <2>2
<1>6. CASE ReadFails
    BY <1>6 DEF ReadFails, Quit
<1>7. CASE ConnectionEnds
    BY <1>7 DEF ConnectionEnds, Quit
<1>8. CASE FinishSession
    BY <1>8 DEF FinishSession, Quit
<1>9. ASSUME NEW k \in Exchanges, ServerAnswers(k) PROVE Types'
    BY <1>9 DEF ServerAnswers
<1>10. ASSUME NEW k \in Exchanges, ServerWrites(k) PROVE Types'
    BY <1>10 DEF ServerWrites
<1>11. ASSUME NEW k \in Exchanges, ServerEnds(k) PROVE Types'
    BY <1>11 DEF ServerEnds
<1>12. ASSUME NEW k \in Exchanges, Open(k) PROVE Types'
    <2>1. k \in Nat
        BY BoundsAssumption DEF Exchanges
    <2>2. opened' \in Seq(Nat)
        BY <1>12, <2>1 DEF Open
    <2>. QED  BY <1>12, <2>2 DEF Open
<1>13. ASSUME NEW k \in Exchanges, Headers(k) PROVE Types'
    BY <1>13 DEF Headers
<1>14. ASSUME NEW k \in Exchanges, Fails(k) PROVE Types'
    BY <1>14 DEF Fails
<1>15. ASSUME NEW k \in Exchanges, TakeLine(k) PROVE Types'
    <2>1. copied' \in [Exchanges -> Nat]
        BY <1>15 DEF TakeLine
    <2>2. task' \in [Exchanges -> Tasks] /\ task[k] # "none"
        BY <1>15 DEF TakeLine
    <2>3. \A j \in Exchanges : task'[j] = "none" <=> task[j] = "none"
        BY <1>15 DEF TakeLine
    <2>. QED  BY <1>15, <2>1, <2>2, <2>3 DEF TakeLine
<1>16. ASSUME NEW k \in Exchanges, WriteLine(k) PROVE Types'
    <2>1. k \in Nat /\ copied[k] \in Nat
        BY BoundsAssumption DEF Exchanges
    <2>2. stdout' \in Seq(Nat \X Nat)
        BY <1>16, <2>1 DEF WriteLine
    <2>. QED  BY <1>16, <2>2 DEF WriteLine
<1>17. ASSUME NEW k \in Exchanges, WriteNewline(k) PROVE Types'
    <2>1. stdout' \in Seq(Nat \X Nat)
        BY <1>17 DEF WriteNewline, Newline
    <2>. QED  BY <1>17, <2>1 DEF WriteNewline
<1>18. ASSUME NEW k \in Exchanges, BodyEnds(k) PROVE Types'
    BY <1>18 DEF BodyEnds
<1>19. ASSUME NEW k \in Exchanges, Return(k) PROVE Types'
    BY <1>19 DEF Return, Quit
<1>20. ASSUME NEW k \in Exchanges, Join(k) PROVE Types'
    BY <1>20 DEF Join
<1>21. ASSUME NEW k \in Exchanges, JoinFails(k) PROVE Types'
    BY <1>21 DEF JoinFails, Quit
<1>22. ASSUME NEW k \in Exchanges, TimesOut(k) PROVE Types'
    BY <1>22 DEF TimesOut
<1>23. CASE UNCHANGED vars
    BY <1>23 DEF vars
<1>. QED
    BY <1>1, <1>2, <1>3, <1>4, <1>5, <1>6, <1>7, <1>8, <1>9, <1>10, <1>11,
       <1>12, <1>13, <1>14, <1>15, <1>16, <1>17, <1>18, <1>19, <1>20, <1>21,
       <1>22, <1>23
       DEF Next, Reads, Goes

-----------------------------------------------------------------------------
(* The lines of stdout.                                                    *)

LEMMA AppendFacts ==
    ASSUME NEW S, NEW s \in Seq(S), NEW e \in S
    PROVE  LET t == Append(s, e) IN
           /\ Len(s) \in Nat /\ Len(t) = Len(s) + 1 /\ t[Len(s) + 1] = e
           /\ \A i \in DOMAIN s : i \in Nat /\ i <= Len(s) /\ t[i] = s[i]
           /\ \A i \in DOMAIN t : i \in Nat /\ (i \in DOMAIN s \/ i = Len(s) + 1)
           /\ \A i \in DOMAIN t : \A j \in 1 .. i - 1 : j \in DOMAIN s
OBVIOUS

LEMMA Parity ==
    ASSUME NEW n \in Nat
    PROVE  n % 2 = 0 <=> (n + 1) % 2 = 1
OBVIOUS

LEMMA ParityOf ==
    ASSUME NEW n \in Nat
    PROVE  n % 2 \in {0, 1}
OBVIOUS

\* A line after whole lines, beyond those of its exchange.
LEMMA AppendLine ==
    ASSUME NEW s \in Seq(Nat \X Nat), Lines(s), Len(s) % 2 = 0,
           NEW k \in Nat \ {0}, NEW n \in Nat, UpTo(s, k, n - 1)
    PROVE  LET t == Append(s, <<k, n>>) IN
           /\ Lines(t) /\ Len(t) % 2 = 1 /\ UpTo(t, k, n)
           /\ \A j, m : j # k /\ UpTo(s, j, m) => UpTo(t, j, m)
<1>. DEFINE t == Append(s, <<k, n>>)
<1>1. /\ Len(s) \in Nat /\ Len(t) = Len(s) + 1 /\ t[Len(s) + 1] = <<k, n>>
      /\ \A i \in DOMAIN s : i \in Nat /\ i <= Len(s) /\ t[i] = s[i]
      /\ \A i \in DOMAIN t : i \in Nat /\ (i \in DOMAIN s \/ i = Len(s) + 1)
      /\ \A i \in DOMAIN t : \A j \in 1 .. i - 1 : j \in DOMAIN s
    BY AppendFacts
<1>2. \A i \in DOMAIN s : s[i] \in Nat \X Nat /\ s[i][2] \in Nat
    OBVIOUS
<1>. HIDE DEF t
<1>3. Len(t) % 2 = 1
    BY <1>1, Parity
<1>4. \A i \in DOMAIN s : i % 2 = 1 /\ s[i][1] = k => s[i][2] < n
    BY <1>2 DEF UpTo
<1>5. Lines(t)
    <2>1. ASSUME NEW i \in DOMAIN t, i \in DOMAIN s
          PROVE  IF i % 2 = 0 THEN t[i] = Newline
                 ELSE /\ t[i] # Newline
                      /\ \A j \in 1 .. i - 1 : j % 2 = 1 /\ t[j][1] = t[i][1] => t[j][2] < t[i][2]
        BY <1>1, <2>1 DEF Lines
    <2>2. ASSUME NEW i \in DOMAIN t, i = Len(s) + 1
          PROVE  /\ i % 2 = 1 /\ t[i] # Newline
                 /\ \A j \in 1 .. i - 1 : j % 2 = 1 /\ t[j][1] = t[i][1] => t[j][2] < t[i][2]
        <3>1. i % 2 = 1 /\ t[i] = <<k, n>>
            BY <1>1, <1>3, <2>2
        <3>2. t[i] # Newline /\ t[i][1] = k /\ t[i][2] = n
            BY <3>1 DEF Newline
        <3>3. ASSUME NEW j \in 1 .. i - 1, j % 2 = 1, t[j][1] = k PROVE t[j][2] < n
            BY <1>1, <1>4, <3>3
        <3>. QED  BY <3>1, <3>2, <3>3
    <2>3. \A i \in DOMAIN t : i % 2 = 1 => i % 2 # 0
        OBVIOUS
    <2>4. \A i \in DOMAIN t : i \in DOMAIN s \/ i = Len(s) + 1
        BY <1>1
    <2>. QED  BY <2>1, <2>2, <2>3, <2>4, Zenon DEF Lines
<1>6. UpTo(t, k, n)
    BY <1>1, <1>2, <1>4 DEF UpTo
<1>7. ASSUME NEW j, NEW m, j # k, UpTo(s, j, m) PROVE UpTo(t, j, m)
    <2>1. t[Len(s) + 1][1] # j
        BY <1>1, <1>7
    <2>. QED  BY <1>1, <1>7, <2>1 DEF UpTo
<1>. QED  BY <1>3, <1>5, <1>6, <1>7 DEF t

\* A newline after a line.
LEMMA AppendNewline ==
    ASSUME NEW s \in Seq(Nat \X Nat), Lines(s), Len(s) % 2 = 1
    PROVE  LET t == Append(s, Newline) IN
           /\ Lines(t) /\ Len(t) % 2 = 0
           /\ \A j, m : UpTo(s, j, m) => UpTo(t, j, m)
<1>. DEFINE t == Append(s, Newline)
<1>1. /\ Len(s) \in Nat /\ Len(t) = Len(s) + 1 /\ t[Len(s) + 1] = Newline
      /\ \A i \in DOMAIN s : i \in Nat /\ i <= Len(s) /\ t[i] = s[i]
      /\ \A i \in DOMAIN t : i \in Nat /\ (i \in DOMAIN s \/ i = Len(s) + 1)
      /\ \A i \in DOMAIN t : \A j \in 1 .. i - 1 : j \in DOMAIN s
    BY AppendFacts DEF Newline
<1>. HIDE DEF t
<1>2. Len(t) % 2 = 0
    BY <1>1, Parity, ParityOf
<1>3. Lines(t)
    <2>1. ASSUME NEW i \in DOMAIN t, i \in DOMAIN s
          PROVE  IF i % 2 = 0 THEN t[i] = Newline
                 ELSE /\ t[i] # Newline
                      /\ \A j \in 1 .. i - 1 : j % 2 = 1 /\ t[j][1] = t[i][1] => t[j][2] < t[i][2]
        BY <1>1, <2>1 DEF Lines
    <2>. QED  BY <1>1, <1>2, <2>1 DEF Lines
<1>4. ASSUME NEW j, NEW m, UpTo(s, j, m) PROVE UpTo(t, j, m)
    <2>1. Len(s) + 1 \in Nat /\ (Len(s) + 1) % 2 = 0
        BY <1>1, <1>2
    <2>2. \A i \in DOMAIN t : i % 2 = 1 => i \in DOMAIN s /\ t[i] = s[i]
        BY <1>1, <2>1
    <2>. QED  BY <1>4, <2>2 DEF UpTo
<1>. QED  BY <1>2, <1>3, <1>4 DEF t

LEMMA OutputInit == Init => OutputInv
BY DEF Init, OutputInv, Lines, UpTo

\* A step that writes nothing and brings no task to its writing.
LEMMA OutputRests ==
    ASSUME OutputInv, UNCHANGED output,
           \A k \in Exchanges :
               \/ task'[k] = task[k]
               \/ task[k] # "newline" /\ task'[k] \notin {"line", "newline"},
           owner \in Exchanges \cup {Nobody}
    PROVE  OutputInv'
BY DEF OutputInv, output

LEMMA TakeOutput ==
    ASSUME Types, OutputInv, NEW k \in Exchanges, TakeLine(k)
    PROVE  OutputInv'
<1>1. /\ task[k] = "body" /\ task'[k] = "line"
      /\ \A j \in Exchanges \ {k} : task'[j] = task[j]
    BY DEF TakeLine, Goto, Types
<1>2. /\ copied[k] \in Nat /\ copied'[k] = copied[k] + 1
      /\ \A j \in Exchanges \ {k} : copied'[j] = copied[j]
      /\ stdout' = stdout /\ owner' = owner
    BY DEF TakeLine, Types
<1>3. UpTo(stdout, k, copied[k]) /\ UpTo(stdout, k, copied[k] + 1)
    <2>1. UpTo(stdout, k, copied[k])
        BY DEF OutputInv
    <2>2. \A i \in DOMAIN stdout : stdout[i][2] \in Nat
        BY DEF Types
    <2>. QED  BY <1>2, <2>1, <2>2 DEF UpTo
<1>4. copied'[k] - 1 = copied[k]
    BY <1>2
<1>5. \A j \in Exchanges :
          /\ task'[j] = "newline" => owner = j
          /\ UpTo(stdout, j, copied'[j])
          /\ task'[j] = "line" => UpTo(stdout, j, copied'[j] - 1)
    BY <1>1, <1>2, <1>3, <1>4 DEF OutputInv
<1>6. owner # Nobody => Len(stdout) % 2 = 1 /\ task'[owner] = "newline"
    BY <1>1 DEF OutputInv, Types
<1>. QED  BY <1>2, <1>5, <1>6 DEF OutputInv

LEMMA LineOutput ==
    ASSUME Types, OutputInv, NEW k \in Exchanges, WriteLine(k)
    PROVE  OutputInv'
<1>1. /\ task[k] = "line" /\ task'[k] = "newline"
      /\ \A j \in Exchanges \ {k} : task'[j] = task[j]
    BY DEF WriteLine, Goto, Types
<1>2. /\ owner = Nobody /\ owner' = k /\ owner' # Nobody
      /\ stdout' = Append(stdout, <<k, copied[k]>>) /\ copied' = copied
    BY NobodyAssumption DEF WriteLine
<1>3. /\ stdout \in Seq(Nat \X Nat) /\ Lines(stdout) /\ Len(stdout) % 2 = 0
      /\ k \in Nat \ {0} /\ copied[k] \in Nat /\ UpTo(stdout, k, copied[k] - 1)
    BY <1>1, <1>2, BoundsAssumption DEF Types, OutputInv, Exchanges
<1>4. /\ Lines(stdout') /\ Len(stdout') % 2 = 1 /\ UpTo(stdout', k, copied[k])
      /\ \A j, m : j # k /\ UpTo(stdout, j, m) => UpTo(stdout', j, m)
    BY <1>2, <1>3, AppendLine
<1>5. ASSUME NEW j \in Exchanges
      PROVE  /\ task'[j] = "newline" => owner' = j
             /\ UpTo(stdout', j, copied'[j])
             /\ task'[j] = "line" => UpTo(stdout', j, copied'[j] - 1)
    BY <1>1, <1>2, <1>4, NobodyAssumption DEF OutputInv
<1>. QED  BY <1>1, <1>2, <1>4, <1>5 DEF OutputInv

LEMMA NewlineOutput ==
    ASSUME Types, OutputInv, NEW k \in Exchanges, WriteNewline(k)
    PROVE  OutputInv'
<1>1. /\ task[k] = "newline" /\ task'[k] \in {"done", "body"}
      /\ \A j \in Exchanges \ {k} : task'[j] = task[j]
    BY DEF WriteNewline, Goto, Types
<1>2. /\ owner = k /\ owner' = Nobody
      /\ stdout' = Append(stdout, Newline) /\ copied' = copied
    BY <1>1 DEF WriteNewline, OutputInv
<1>3. stdout \in Seq(Nat \X Nat) /\ Lines(stdout) /\ Len(stdout) % 2 = 1
    BY <1>2, NobodyAssumption DEF Types, OutputInv
<1>4. /\ Lines(stdout') /\ Len(stdout') % 2 = 0
      /\ \A j, m : UpTo(stdout, j, m) => UpTo(stdout', j, m)
    BY <1>2, <1>3, AppendNewline
<1>5. ASSUME NEW j \in Exchanges
      PROVE  /\ task'[j] # "newline"
             /\ UpTo(stdout', j, copied'[j])
             /\ task'[j] = "line" => UpTo(stdout', j, copied'[j] - 1)
    BY <1>1, <1>2, <1>4 DEF OutputInv
<1>. QED  BY <1>2, <1>4, <1>5 DEF OutputInv

LEMMA OutputStep == Types /\ OutputInv /\ [Next]_vars => OutputInv'
<1>. SUFFICES ASSUME Types, OutputInv, [Next]_vars PROVE OutputInv'
    OBVIOUS
<1>. USE NobodyAssumption
     DEF Types, OutputInv, Goto, stdin, taken, reading, server, output
<1>1. CASE Write
    BY <1>1 DEF Write
<1>2. CASE Close
    BY <1>2 DEF Close
<1>3. CASE ReadText
    BY <1>3 DEF ReadText
<1>4. CASE ReadNewline
    BY <1>4, LineType, BeginTasks, OutputRests DEF ReadNewline
<1>5. CASE ReadEnd
    <2>1. CASE from < takenPieces
        BY <1>5, <2>1, LineType, BeginTasks, OutputRests DEF ReadEnd
    <2>2. CASE ~ (from < takenPieces)
        BY <1>5, <2>2, OutputRests DEF ReadEnd
    <2>. QED  BY <2>1, <2>2
<1>6. CASE ReadFails
    BY <1>6 DEF ReadFails, Quit
<1>7. CASE ConnectionEnds
    BY <1>7 DEF ConnectionEnds, Quit
<1>8. CASE FinishSession
    BY <1>8 DEF FinishSession, Quit
<1>9. ASSUME NEW k \in Exchanges, ServerAnswers(k) PROVE OutputInv'
    BY <1>9 DEF ServerAnswers
<1>10. ASSUME NEW k \in Exchanges, ServerWrites(k) PROVE OutputInv'
    BY <1>10 DEF ServerWrites
<1>11. ASSUME NEW k \in Exchanges, ServerEnds(k) PROVE OutputInv'
    BY <1>11 DEF ServerEnds
<1>12. ASSUME NEW k \in Exchanges, Open(k) PROVE OutputInv'
    BY <1>12 DEF Open
<1>13. ASSUME NEW k \in Exchanges, Headers(k) PROVE OutputInv'
    BY <1>13 DEF Headers
<1>14. ASSUME NEW k \in Exchanges, Fails(k) PROVE OutputInv'
    BY <1>14 DEF Fails
<1>15. ASSUME NEW k \in Exchanges, TakeLine(k) PROVE OutputInv'
    BY <1>15, TakeOutput
<1>16. ASSUME NEW k \in Exchanges, WriteLine(k) PROVE OutputInv'
    BY <1>16, LineOutput
<1>17. ASSUME NEW k \in Exchanges, WriteNewline(k) PROVE OutputInv'
    BY <1>17, NewlineOutput
<1>18. ASSUME NEW k \in Exchanges, BodyEnds(k) PROVE OutputInv'
    BY <1>18 DEF BodyEnds
<1>19. ASSUME NEW k \in Exchanges, Return(k) PROVE OutputInv'
    BY <1>19 DEF Return, Quit
<1>20. ASSUME NEW k \in Exchanges, Join(k) PROVE OutputInv'
    BY <1>20 DEF Join
<1>21. ASSUME NEW k \in Exchanges, JoinFails(k) PROVE OutputInv'
    BY <1>21 DEF JoinFails, Quit
<1>22. ASSUME NEW k \in Exchanges, TimesOut(k) PROVE OutputInv'
    BY <1>22 DEF TimesOut
<1>23. CASE UNCHANGED vars
    BY <1>23 DEF vars
<1>. QED
    BY <1>1, <1>2, <1>3, <1>4, <1>5, <1>6, <1>7, <1>8, <1>9, <1>10, <1>11,
       <1>12, <1>13, <1>14, <1>15, <1>16, <1>17, <1>18, <1>19, <1>20, <1>21,
       <1>22, <1>23
       DEF Next, Reads, Goes

\* However the exchanges interleave, stdout holds whole lines, those of one answer
\* in the order of the server.
THEOREM LinesStayWhole == Spec => []StdoutIsLines
<1>1. OutputInv => StdoutIsLines
    BY DEF OutputInv, Lines, StdoutIsLines
<1>. QED  BY <1>1, TypesInit, TypesStep, OutputInit, OutputStep, PTL DEF Spec

-----------------------------------------------------------------------------
(* The order of requests.                                                  *)

\* A message is of the request at its place and goes on to its end.
InPlace(m, k) ==
    /\ m.request = k /\ m.first \in 1 .. Pieces + 1 /\ m.last \in 1 .. Pieces
    /\ m.last = Pieces \/ (eof /\ k = sentLines + 1 /\ m.last = sentPieces)
    /\ ~ Session => m.first = 1

\* There is a message for each request that was read, and one for a text without
\* newline at the end of stdin.  Only a session starts a read within a request.
ReadInv ==
    /\ eof \in BOOLEAN
    /\ sentPieces <= Pieces /\ takenPieces <= Pieces /\ from <= takenPieces
    /\ takenLines <= sentLines /\ (takenLines = sentLines => takenPieces <= sentPieces)
    /\ \/ Len(asked) = takenLines /\ (~ Session => from = 0)
       \/ /\ Len(asked) = takenLines + 1 /\ eof /\ AllTaken
          /\ from = takenPieces /\ takenPieces > 0
    /\ \A k \in DOMAIN asked : InPlace(asked[k], k)

LEMMA ReadInit == Init => ReadInv
<1>. SUFFICES ASSUME Init PROVE ReadInv
    OBVIOUS
<1>1. /\ takenLines = 0 /\ takenPieces = 0 /\ from = 0 /\ sentLines = 0 /\ sentPieces = 0
      /\ Len(asked) = 0 /\ DOMAIN asked = {}
    BY DEF Init
<1>2. eof \in BOOLEAN
    BY DEF Init
<1>3. Pieces \in Nat
    BY BoundsAssumption
<1>. QED  BY <1>1, <1>2, <1>3 DEF ReadInv, AllTaken

\* A line that is asked at its place leaves all messages in theirs.
LEMMA BeginAsked ==
    ASSUME Types, Begin(Line), UNCHANGED <<command, stdin>>,
           \A k \in DOMAIN asked : InPlace(asked[k], k),
           InPlace(Line, Len(asked) + 1)
    PROVE  /\ Len(asked) \in Nat /\ Len(asked') = Len(asked) + 1
           /\ \A k \in DOMAIN asked' : InPlace(asked[k], k)'
<1>1. asked \in Seq(Message) /\ Line \in Message /\ asked' = Append(asked, Line)
    BY LineType DEF Types, Begin
<1>2. Session' = Session /\ eof' = eof /\ sentLines' = sentLines /\ sentPieces' = sentPieces
    BY DEF Session, stdin
<1>3. ASSUME NEW k \in DOMAIN asked'
      PROVE  InPlace(asked[k], k)'
    <2>1. CASE k \in DOMAIN asked
        <3>1. asked'[k] = asked[k] /\ InPlace(asked[k], k)
            BY <1>1, <2>1
        <3>. QED  BY <1>2, <3>1 DEF InPlace
    <2>2. CASE k = Len(asked) + 1
        <3>1. asked'[k] = Line /\ InPlace(Line, k)
            BY <1>1, <2>2
        <3>. QED  BY <1>2, <3>1 DEF InPlace
    <2>. QED  BY <1>1, <2>1, <2>2
<1>. QED  BY <1>1, <1>3

LEMMA ReadStep == Types /\ ReadInv /\ [Next]_vars => ReadInv'
<1>. SUFFICES ASSUME Types, ReadInv, [Next]_vars PROVE ReadInv'
    OBVIOUS
<1>0. Pieces \in Nat \ {0} /\ Len(asked) \in Nat
    BY BoundsAssumption DEF Types
<1>. USE <1>0
     DEF Types, ReadInv, InPlace, AllTaken, Session, Goto, stdin, taken, reading, server, output
<1>1. CASE Write
    <2>1. /\ ~ eof /\ UNCHANGED <<command, eof, takenLines, takenPieces, from, asked>>
          /\ \/ sentPieces < Pieces /\ sentPieces' = sentPieces + 1 /\ sentLines' = sentLines
             \/ sentPieces' = 0 /\ sentLines' = sentLines + 1
        BY <1>1 DEF Write
    <2>2. \A k \in DOMAIN asked : asked[k].last = Pieces
        BY <2>1
    <2>. QED  BY <2>1, <2>2
<1>2. CASE Close
    BY <1>2 DEF Close
<1>3. CASE ReadText
    BY <1>3 DEF ReadText
<1>4. CASE ReadNewline
    <2>1. /\ Begin(Line) /\ takenLines < sentLines /\ takenPieces = Pieces
          /\ takenLines' = takenLines + 1 /\ takenPieces' = 0 /\ from' = 0
          /\ UNCHANGED <<command, stdin>>
        BY <1>4 DEF ReadNewline
    <2>2. Len(asked) = takenLines /\ (~ Session => from = 0)
        BY <2>1
    <2>3. InPlace(Line, Len(asked) + 1)
        BY <2>1, <2>2 DEF Line
    <2>4. /\ Len(asked') = Len(asked) + 1
          /\ \A k \in DOMAIN asked' : InPlace(asked[k], k)'
        <3>. HIDE DEF InPlace
        <3>. QED  BY <2>1, <2>3, BeginAsked
    <2>. QED  BY <2>1, <2>2, <2>4
<1>5. CASE ReadEnd
    <2>1. CASE from < takenPieces
        <3>1. /\ Begin(Line) /\ eof /\ takenLines = sentLines /\ takenPieces = sentPieces
              /\ from' = takenPieces
              /\ UNCHANGED <<command, stdin, takenLines, takenPieces>>
            BY <1>5, <2>1 DEF ReadEnd
        <3>2. Len(asked) = takenLines /\ (~ Session => from = 0)
            BY <2>1
        <3>3. InPlace(Line, Len(asked) + 1)
            BY <2>1, <3>1, <3>2 DEF Line
        <3>4. /\ Len(asked') = Len(asked) + 1
              /\ \A k \in DOMAIN asked' : InPlace(asked[k], k)'
            <4>. HIDE DEF InPlace
            <4>. QED  BY <3>1, <3>3, BeginAsked
        <3>. QED  BY <2>1, <3>1, <3>2, <3>4
    <2>2. CASE ~ (from < takenPieces)
        BY <1>5, <2>2 DEF ReadEnd
    <2>. QED  BY <2>1, <2>2
<1>6. CASE ReadFails
    BY <1>6 DEF ReadFails, Quit
<1>7. CASE ConnectionEnds
    BY <1>7 DEF ConnectionEnds, Quit
<1>8. CASE FinishSession
    BY <1>8 DEF FinishSession, Quit
<1>9. ASSUME NEW k \in Exchanges, ServerAnswers(k) PROVE ReadInv'
    BY <1>9 DEF ServerAnswers
<1>10. ASSUME NEW k \in Exchanges, ServerWrites(k) PROVE ReadInv'
    BY <1>10 DEF ServerWrites
<1>11. ASSUME NEW k \in Exchanges, ServerEnds(k) PROVE ReadInv'
    BY <1>11 DEF ServerEnds
<1>12. ASSUME NEW k \in Exchanges, Open(k) PROVE ReadInv'
    BY <1>12 DEF Open
<1>13. ASSUME NEW k \in Exchanges, Headers(k) PROVE ReadInv'
    BY <1>13 DEF Headers
<1>14. ASSUME NEW k \in Exchanges, Fails(k) PROVE ReadInv'
    BY <1>14 DEF Fails
<1>15. ASSUME NEW k \in Exchanges, TakeLine(k) PROVE ReadInv'
    BY <1>15 DEF TakeLine
<1>16. ASSUME NEW k \in Exchanges, WriteLine(k) PROVE ReadInv'
    BY <1>16 DEF WriteLine
<1>17. ASSUME NEW k \in Exchanges, WriteNewline(k) PROVE ReadInv'
    BY <1>17 DEF WriteNewline
<1>18. ASSUME NEW k \in Exchanges, BodyEnds(k) PROVE ReadInv'
    BY <1>18 DEF BodyEnds
<1>19. ASSUME NEW k \in Exchanges, Return(k) PROVE ReadInv'
    BY <1>19 DEF Return, Quit
<1>20. ASSUME NEW k \in Exchanges, Join(k) PROVE ReadInv'
    BY <1>20 DEF Join
<1>21. ASSUME NEW k \in Exchanges, JoinFails(k) PROVE ReadInv'
    BY <1>21 DEF JoinFails, Quit
<1>22. ASSUME NEW k \in Exchanges, TimesOut(k) PROVE ReadInv'
    BY <1>22 DEF TimesOut
<1>23. CASE UNCHANGED vars
    BY <1>23 DEF vars
<1>. QED
    BY <1>1, <1>2, <1>3, <1>4, <1>5, <1>6, <1>7, <1>8, <1>9, <1>10, <1>11,
       <1>12, <1>13, <1>14, <1>15, <1>16, <1>17, <1>18, <1>19, <1>20, <1>21,
       <1>22, <1>23
       DEF Next, Reads, Goes

\* Where an exchange of a plain command is between being begun and returned.
Active == {"opening", "headers", "body", "line", "newline", "done"}

\* h2-session-client has a stream for every message.  A plain command is at the
\* last message it read, and has its stream unless it is about to make it.
OpenInv ==
    command # "h3wt-session-client" =>
        /\ \A i \in DOMAIN opened : opened[i] = i
        /\ Session => /\ Len(opened) = Len(asked)
                      /\ \A k \in Exchanges : task[k] # "opening"
        /\ ~ Session =>
              /\ main = "read" => /\ Len(opened) = Len(asked)
                                  /\ \A k \in Exchanges : task[k] \notin Active
              /\ \A k \in Exchanges :
                    /\ task[k] \in Active => k = Len(asked)
                    /\ task[k] = "opening" => Len(opened) + 1 = Len(asked)
                    /\ task[k] \in Active \ {"opening"} => Len(opened) = Len(asked)

LEMMA OpenInit == Init => OpenInv
BY DEF Init, OpenInv, Active

LEMMA BeginOpened ==
    ASSUME Types, OpenInv, main = "read", Begin(Line), command' = command
    PROVE  OpenInv'
<1>1. Line \in Message
    BY LineType
<1>2. /\ asked \in Seq(Message) /\ asked' = Append(asked, Line)
      /\ Len(asked) \in Nat /\ Len(asked') = Len(asked) + 1
    BY <1>1 DEF Types, Begin
<1>3. \A k \in Exchanges :
          \/ task'[k] = task[k] /\ k # Len(asked) + 1
          \/ task[k] = "none" /\ k = Len(asked) + 1 /\ task'[k] \in {"opening", "headers"}
    BY <1>1, BeginTasks
<1>4. CASE command = "h2-session-client"
    <2>1. Session /\ Session' /\ opened' = Append(opened, Len(asked) + 1)
        BY <1>4 DEF Begin, Session, Sessions
    <2>2. task' = [task EXCEPT ![Len(asked) + 1] = "headers"]
        BY <1>4 DEF Begin, Goto
    <2>3. /\ opened \in Seq(Nat) /\ Len(opened) = Len(asked)
          /\ \A i \in DOMAIN opened : opened[i] = i
          /\ \A k \in Exchanges : task[k] # "opening"
        BY <1>4, <2>1 DEF Types, OpenInv
    <2>4. /\ Len(opened') = Len(asked')
          /\ \A i \in DOMAIN opened' : opened'[i] = i
        BY <1>2, <2>1, <2>3
    <2>5. \A k \in Exchanges : task'[k] # "opening"
        BY <2>2, <2>3 DEF Types
    <2>. QED  BY <1>4, <2>1, <2>4, <2>5 DEF OpenInv
<1>5. CASE ~ Session
    <2>1. command # "h2-session-client" /\ ~ Session'
        BY <1>5 DEF Session, Sessions
    <2>2. task' = [task EXCEPT ![Len(asked) + 1] = "opening"]
        BY <2>1 DEF Begin, Goto
    <2>3. opened' = opened /\ main' = "exchange"
        BY <1>5, <2>1 DEF Begin
    <2>4. CASE command = "h3wt-session-client"
        BY <2>4 DEF OpenInv
    <2>5. CASE command # "h3wt-session-client"
        <3>1. /\ Len(opened) = Len(asked) /\ \A i \in DOMAIN opened : opened[i] = i
              /\ \A k \in Exchanges : task[k] \notin Active
            BY <1>5, <2>5 DEF OpenInv
        <3>2. \A k \in Exchanges :
                  task'[k] \in Active => k = Len(asked) + 1 /\ task'[k] = "opening"
            BY <1>3, <2>2, <3>1 DEF Active, Types
        <3>. QED  BY <1>2, <2>1, <2>3, <3>1, <3>2 DEF OpenInv
    <2>. QED  BY <2>4, <2>5
<1>6. CASE command = "h3wt-session-client"
    BY <1>6 DEF OpenInv
<1>. QED  BY <1>4, <1>5, <1>6 DEF Session, Sessions

LEMMA OpenStep == Types /\ OpenInv /\ [Next]_vars => OpenInv'
<1>. SUFFICES ASSUME Types, OpenInv, [Next]_vars PROVE OpenInv'
    OBVIOUS
<1>. USE DEF Types, Tasks, OpenInv, Active, Session, Sessions, Goto, stdin, taken, reading, server,
             output
<1>1. CASE Write
    BY <1>1 DEF Write
<1>2. CASE Close
    BY <1>2 DEF Close
<1>3. CASE ReadText
    BY <1>3 DEF ReadText
<1>4. CASE ReadNewline
    <2>1. Begin(Line) /\ main = "read" /\ command' = command
        BY <1>4 DEF ReadNewline
    <2>. QED  BY <2>1, BeginOpened
<1>5. CASE ReadEnd
    <2>1. CASE from < takenPieces
        <3>1. Begin(Line) /\ main = "read" /\ command' = command
            BY <1>5, <2>1 DEF ReadEnd
        <3>. QED  BY <3>1, BeginOpened
    <2>2. CASE ~ (from < takenPieces)
        BY <1>5, <2>2 DEF ReadEnd, Quit
    <2>. QED  BY <2>1, <2>2
<1>6. CASE ReadFails
    BY <1>6 DEF ReadFails, Quit
<1>7. CASE ConnectionEnds
    BY <1>7 DEF ConnectionEnds, Quit
<1>8. CASE FinishSession
    BY <1>8 DEF FinishSession, Quit
<1>9. ASSUME NEW k \in Exchanges, ServerAnswers(k) PROVE OpenInv'
    BY <1>9 DEF ServerAnswers
<1>10. ASSUME NEW k \in Exchanges, ServerWrites(k) PROVE OpenInv'
    BY <1>10 DEF ServerWrites
<1>11. ASSUME NEW k \in Exchanges, ServerEnds(k) PROVE OpenInv'
    BY <1>11 DEF ServerEnds
<1>12. ASSUME NEW k \in Exchanges, Open(k) PROVE OpenInv'
    <2>1. task[k] = "opening" /\ opened' = Append(opened, k) /\ k \in Nat
        BY <1>12, BoundsAssumption DEF Open, Exchanges
    <2>2. /\ UNCHANGED <<command, main, asked>>
          /\ task'[k] = "headers" /\ \A j \in Exchanges \ {k} : task'[j] = task[j]
        BY <1>12 DEF Open
    <2>3. CASE command = "h3wt-session-client"
        BY <2>2, <2>3
    <2>4. CASE command # "h3wt-session-client"
        <3>1. ~ Session /\ k = Len(asked) /\ Len(opened) + 1 = k
            BY <2>1, <2>4
        <3>2. Len(opened') = k /\ \A i \in DOMAIN opened' : opened'[i] = i
            BY <2>1, <2>4, <3>1
        <3>3. main # "read"
            BY <2>1, <2>4, <3>1
        <3>. QED  BY <2>2, <2>4, <3>1, <3>2, <3>3
    <2>. QED  BY <2>3, <2>4
<1>13. ASSUME NEW k \in Exchanges, Headers(k) PROVE OpenInv'
    BY <1>13 DEF Headers
<1>14. ASSUME NEW k \in Exchanges, Fails(k) PROVE OpenInv'
    BY <1>14 DEF Fails
<1>15. ASSUME NEW k \in Exchanges, TakeLine(k) PROVE OpenInv'
    BY <1>15 DEF TakeLine
<1>16. ASSUME NEW k \in Exchanges, WriteLine(k) PROVE OpenInv'
    BY <1>16 DEF WriteLine
<1>17. ASSUME NEW k \in Exchanges, WriteNewline(k) PROVE OpenInv'
    BY <1>17 DEF WriteNewline
<1>18. ASSUME NEW k \in Exchanges, BodyEnds(k) PROVE OpenInv'
    BY <1>18 DEF BodyEnds
<1>19. ASSUME NEW k \in Exchanges, Return(k) PROVE OpenInv'
    BY <1>19 DEF Return, Quit
<1>20. ASSUME NEW k \in Exchanges, Join(k) PROVE OpenInv'
    BY <1>20 DEF Join
<1>21. ASSUME NEW k \in Exchanges, JoinFails(k) PROVE OpenInv'
    BY <1>21 DEF JoinFails, Quit
<1>22. ASSUME NEW k \in Exchanges, TimesOut(k) PROVE OpenInv'
    BY <1>22 DEF TimesOut
<1>23. CASE UNCHANGED vars
    BY <1>23 DEF vars
<1>. QED
    BY <1>1, <1>2, <1>3, <1>4, <1>5, <1>6, <1>7, <1>8, <1>9, <1>10, <1>11,
       <1>12, <1>13, <1>14, <1>15, <1>16, <1>17, <1>18, <1>19, <1>20, <1>21,
       <1>22, <1>23
       DEF Next, Reads, Goes

\* The k-th message is of the k-th request and goes on to its end, a plain
\* command loses nothing of it, and all but h3wt-session-client make the streams
\* in the order in which they read the messages.
THEOREM MessagesKeepTheirPlace == Spec => []AskedInOrder
<1>1. ReadInv /\ OpenInv => AskedInOrder
    BY DEF ReadInv, InPlace, OpenInv, AskedInOrder
<1>. QED
    BY <1>1, TypesInit, TypesStep, ReadInit, ReadStep, OpenInit, OpenStep, PTL DEF Spec

-----------------------------------------------------------------------------
(* The end of a command.                                                   *)

\* What the server does is well typed.
ServerTypes ==
    /\ answer \in [Exchanges -> {"none", "ok", "refused"}]
    /\ ended \in [Exchanges -> BOOLEAN]

\* Tasks of a plain command but the last one, and all tasks of a command that
\* exited well, are over.
PlaceInv ==
    /\ sentLines <= Submitted /\ (sentLines = Submitted => sentPieces = 0)
    /\ Len(asked) <= Submitted
    /\ stdinClosed => eof /\ AllTaken
    /\ main = "ok" => stdinClosed
    /\ \A k \in Exchanges :
          /\ k <= Len(asked) => task[k] # "none"
          /\ main = "ok" \/ (~ Session /\ main = "read") => task[k] \in {"none", "joined"}
          /\ ~ Session /\ task[k] \notin {"none", "joined"} => k = Len(asked)

\* A task that did not fail and is past its opening.
HasStream(k) ==
    \/ task[k] \in {"headers", "body", "line", "newline", "done"}
    \/ task[k] = "joined" /\ main # "error"

\* Streams are those of messages, and each has one at most.
StreamInv ==
    /\ \A i \in DOMAIN opened :
          /\ opened[i] \in Exchanges /\ opened[i] <= Len(asked)
          /\ task[opened[i]] \notin {"none", "opening"}
    /\ \A i, j \in DOMAIN opened : opened[i] = opened[j] => i = j
    /\ \A k \in Exchanges : HasStream(k) => \E i \in DOMAIN opened : opened[i] = k

Written(k, n) == \E i \in DOMAIN stdout : stdout[i] = <<k, n>>

\* What a task has taken it has written, but for the line it is about to write,
\* and one that is done has taken all.
CopyInv ==
    \A k \in Exchanges :
        /\ HasStream(k) /\ task[k] # "headers" => answer[k] = "ok"
        /\ HasStream(k) /\ task[k] \in {"done", "joined"} =>
               IF OneLine THEN copied[k] >= 1 ELSE ended[k] /\ copied[k] = lines[k]
        /\ ended[k] => answer[k] # "none"
        /\ ended[k] /\ answer[k] = "ok" /\ ~ WebTransport => lines[k] > 0
        /\ copied[k] <= lines[k]
        /\ task[k] \in {"line", "newline"} => copied[k] >= 1
        /\ \A n \in 1 .. copied[k] :
              Written(k, n) \/ (task[k] = "line" /\ n = copied[k])

-----------------------------------------------------------------------------
LEMMA ServerTypesInit == Init => ServerTypes
BY DEF Init, ServerTypes

LEMMA ServerTypesStep == ServerTypes /\ [Next]_vars => ServerTypes'
<1>. SUFFICES ASSUME ServerTypes, [Next]_vars PROVE ServerTypes'
    OBVIOUS
<1>. USE DEF ServerTypes, server
<1>1. CASE Write
    BY <1>1 DEF Write
<1>2. CASE Close
    BY <1>2 DEF Close
<1>3. CASE ReadText
    BY <1>3 DEF ReadText
<1>4. CASE ReadNewline
    BY <1>4 DEF ReadNewline, Begin
<1>5. CASE ReadEnd
    BY <1>5 DEF ReadEnd, Begin, Quit
<1>6. CASE ReadFails
    BY <1>6 DEF ReadFails, Quit
<1>7. CASE ConnectionEnds
    BY <1>7 DEF ConnectionEnds, Quit
<1>8. CASE FinishSession
    BY <1>8 DEF FinishSession, Quit
<1>9. ASSUME NEW k \in Exchanges, ServerAnswers(k) PROVE ServerTypes'
    BY <1>9 DEF ServerAnswers
<1>10. ASSUME NEW k \in Exchanges, ServerWrites(k) PROVE ServerTypes'
    BY <1>10 DEF ServerWrites
<1>11. ASSUME NEW k \in Exchanges, ServerEnds(k) PROVE ServerTypes'
    BY <1>11 DEF ServerEnds
<1>12. ASSUME NEW k \in Exchanges, Open(k) PROVE ServerTypes'
    BY <1>12 DEF Open
<1>13. ASSUME NEW k \in Exchanges, Headers(k) PROVE ServerTypes'
    BY <1>13 DEF Headers
<1>14. ASSUME NEW k \in Exchanges, Fails(k) PROVE ServerTypes'
    BY <1>14 DEF Fails
<1>15. ASSUME NEW k \in Exchanges, TakeLine(k) PROVE ServerTypes'
    BY <1>15 DEF TakeLine
<1>16. ASSUME NEW k \in Exchanges, WriteLine(k) PROVE ServerTypes'
    BY <1>16 DEF WriteLine
<1>17. ASSUME NEW k \in Exchanges, WriteNewline(k) PROVE ServerTypes'
    BY <1>17 DEF WriteNewline
<1>18. ASSUME NEW k \in Exchanges, BodyEnds(k) PROVE ServerTypes'
    BY <1>18 DEF BodyEnds
<1>19. ASSUME NEW k \in Exchanges, Return(k) PROVE ServerTypes'
    BY <1>19 DEF Return, Quit
<1>20. ASSUME NEW k \in Exchanges, Join(k) PROVE ServerTypes'
    BY <1>20 DEF Join
<1>21. ASSUME NEW k \in Exchanges, JoinFails(k) PROVE ServerTypes'
    BY <1>21 DEF JoinFails, Quit
<1>22. ASSUME NEW k \in Exchanges, TimesOut(k) PROVE ServerTypes'
    BY <1>22 DEF TimesOut
<1>23. CASE UNCHANGED vars
    BY <1>23 DEF vars
<1>. QED
    BY <1>1, <1>2, <1>3, <1>4, <1>5, <1>6, <1>7, <1>8, <1>9, <1>10, <1>11,
       <1>12, <1>13, <1>14, <1>15, <1>16, <1>17, <1>18, <1>19, <1>20, <1>21,
       <1>22, <1>23
       DEF Next, Reads, Goes

-----------------------------------------------------------------------------
(* The place of the tasks.                                                 *)

LEMMA PlaceInit == Init => PlaceInv
<1>. SUFFICES ASSUME Init PROVE PlaceInv
    OBVIOUS
<1>1. /\ sentLines = 0 /\ sentPieces = 0 /\ Len(asked) = 0 /\ stdinClosed = FALSE /\ main = "read"
      /\ \A k \in Exchanges : task[k] = "none"
    BY DEF Init
<1>2. \A k \in Exchanges : ~ k <= 0
    BY BoundsAssumption DEF Exchanges
<1>. QED  BY <1>1, <1>2, BoundsAssumption DEF PlaceInv

\* What is read is a message.
MessageReady ==
    \/ takenLines < sentLines /\ takenPieces = Pieces
    \/ AllTaken /\ from < takenPieces

\* There is a request left when a message is about to be begun.
LEMMA RoomToBegin ==
    ASSUME Types, ReadInv, PlaceInv, MessageReady
    PROVE  Len(asked) < Submitted
<1>1. /\ takenLines \in Nat /\ takenPieces \in Nat /\ sentLines \in Nat /\ from \in Nat
      /\ Len(asked) \in Nat /\ Submitted \in Nat
    BY BoundsAssumption DEF Types
<1>2. Len(asked) = takenLines
    BY <1>1 DEF ReadInv, MessageReady, AllTaken
<1>3. takenLines < Submitted
    BY <1>1 DEF PlaceInv, MessageReady, AllTaken
<1>. QED  BY <1>2, <1>3

LEMMA BeginPlace ==
    ASSUME Types, ReadInv, PlaceInv, Begin(Line), main = "read", ~ stdinClosed, MessageReady,
           UNCHANGED <<command, stdin, stdinClosed>>
    PROVE  PlaceInv'
<1>1. Len(asked) < Submitted
    BY RoomToBegin
<1>2. Line \in Message /\ Len(asked) \in Nat /\ Len(asked') = Len(asked) + 1
    BY LineType DEF Types, Begin
<1>3. \A k \in Exchanges :
          \/ task'[k] = task[k] /\ k # Len(asked) + 1
          \/ task[k] = "none" /\ k = Len(asked) + 1 /\ task'[k] \in {"opening", "headers"}
    BY <1>2, BeginTasks
<1>4. main' = (IF Session THEN "read" ELSE "exchange") /\ Session' = Session
    BY DEF Begin, Session
<1>5. Exchanges \subseteq Nat /\ Submitted \in Nat
    BY BoundsAssumption DEF Exchanges
<1>6. ASSUME NEW k \in Exchanges
      PROVE  /\ k <= Len(asked') => task'[k] # "none"
             /\ main' = "ok" \/ (~ Session' /\ main' = "read") => task'[k] \in {"none", "joined"}
             /\ ~ Session' /\ task'[k] \notin {"none", "joined"} => k = Len(asked')
    BY <1>2, <1>3, <1>4, <1>5 DEF PlaceInv
<1>. QED  BY <1>1, <1>2, <1>4, <1>5, <1>6 DEF PlaceInv, stdin

LEMMA PlaceStep == Types /\ ReadInv /\ PlaceInv /\ [Next]_vars => PlaceInv'
<1>. SUFFICES ASSUME Types, ReadInv, PlaceInv, [Next]_vars PROVE PlaceInv'
    OBVIOUS
<1>. USE BoundsAssumption
     DEF Types, ReadInv, PlaceInv, AllTaken, Session, Exited, Goto, stdin, taken, reading, server, output
<1>1. CASE Write
    BY <1>1 DEF Write
<1>2. CASE Close
    BY <1>2 DEF Close
<1>3. CASE ReadText
    BY <1>3 DEF ReadText
<1>4. CASE ReadNewline
    <2>1. Begin(Line) /\ main = "read" /\ ~ stdinClosed /\ MessageReady
        BY <1>4 DEF ReadNewline, MessageReady
    <2>2. UNCHANGED <<command, stdin, stdinClosed>>
        BY <1>4 DEF ReadNewline
    <2>. QED  BY <2>1, <2>2, BeginPlace
<1>5. CASE ReadEnd
    <2>1. CASE from < takenPieces
        <3>1. Begin(Line) /\ main = "read" /\ ~ stdinClosed /\ MessageReady
            BY <1>5, <2>1 DEF ReadEnd, MessageReady
        <3>2. UNCHANGED <<command, stdin, stdinClosed>>
            BY <1>5, <2>1 DEF ReadEnd
        <3>. QED  BY <3>1, <3>2, BeginPlace
    <2>2. CASE ~ (from < takenPieces)
        BY <1>5, <2>2 DEF ReadEnd, Quit
    <2>. QED  BY <2>1, <2>2
<1>6. CASE ReadFails
    BY <1>6 DEF ReadFails, Quit
<1>7. CASE ConnectionEnds
    BY <1>7 DEF ConnectionEnds, Quit
<1>8. CASE FinishSession
    BY <1>8 DEF FinishSession, Quit
<1>9. ASSUME NEW k \in Exchanges, ServerAnswers(k) PROVE PlaceInv'
    BY <1>9 DEF ServerAnswers
<1>10. ASSUME NEW k \in Exchanges, ServerWrites(k) PROVE PlaceInv'
    BY <1>10 DEF ServerWrites
<1>11. ASSUME NEW k \in Exchanges, ServerEnds(k) PROVE PlaceInv'
    BY <1>11 DEF ServerEnds
<1>12. ASSUME NEW k \in Exchanges, Open(k) PROVE PlaceInv'
    BY <1>12 DEF Open
<1>13. ASSUME NEW k \in Exchanges, Headers(k) PROVE PlaceInv'
    BY <1>13 DEF Headers
<1>14. ASSUME NEW k \in Exchanges, Fails(k) PROVE PlaceInv'
    BY <1>14 DEF Fails
<1>15. ASSUME NEW k \in Exchanges, TakeLine(k) PROVE PlaceInv'
    BY <1>15 DEF TakeLine
<1>16. ASSUME NEW k \in Exchanges, WriteLine(k) PROVE PlaceInv'
    BY <1>16 DEF WriteLine
<1>17. ASSUME NEW k \in Exchanges, WriteNewline(k) PROVE PlaceInv'
    BY <1>17 DEF WriteNewline
<1>18. ASSUME NEW k \in Exchanges, BodyEnds(k) PROVE PlaceInv'
    BY <1>18 DEF BodyEnds
<1>19. ASSUME NEW k \in Exchanges, Return(k) PROVE PlaceInv'
    BY <1>19 DEF Return, Quit
<1>20. ASSUME NEW k \in Exchanges, Join(k) PROVE PlaceInv'
    BY <1>20 DEF Join
<1>21. ASSUME NEW k \in Exchanges, JoinFails(k) PROVE PlaceInv'
    BY <1>21 DEF JoinFails, Quit
<1>22. ASSUME NEW k \in Exchanges, TimesOut(k) PROVE PlaceInv'
    BY <1>22 DEF TimesOut
<1>23. CASE UNCHANGED vars
    BY <1>23 DEF vars
<1>. QED
    BY <1>1, <1>2, <1>3, <1>4, <1>5, <1>6, <1>7, <1>8, <1>9, <1>10, <1>11,
       <1>12, <1>13, <1>14, <1>15, <1>16, <1>17, <1>18, <1>19, <1>20, <1>21,
       <1>22, <1>23
       DEF Next, Reads, Goes

-----------------------------------------------------------------------------
(* The streams.                                                            *)

LEMMA StreamInit == Init => StreamInv
BY DEF Init, StreamInv, HasStream

LEMMA BeginStream ==
    ASSUME Types, StreamInv, Begin(Line), main = "read", command' = command,
           Len(asked) < Submitted
    PROVE  StreamInv'
<1>1. Line \in Message /\ Len(asked) \in Nat /\ Len(asked') = Len(asked) + 1
    BY LineType DEF Types, Begin
<1>2. \A k \in Exchanges :
          \/ task'[k] = task[k] /\ k # Len(asked) + 1
          \/ task[k] = "none" /\ k = Len(asked) + 1 /\ task'[k] \in {"opening", "headers"}
    BY <1>1, BeginTasks
<1>3. main' # "error" /\ Len(asked) + 1 \in Exchanges
    BY <1>1, BoundsAssumption DEF Begin, Exchanges
<1>4. CASE command = "h2-session-client"
    <2>1. opened' = Append(opened, Len(asked) + 1) /\ opened \in Seq(Nat)
        BY <1>4 DEF Begin, Types
    <2>2. task'[Len(asked) + 1] = "headers"
        BY <1>3, <1>4 DEF Begin, Goto, Types
    <2>3. /\ Len(opened') = Len(opened) + 1 /\ opened'[Len(opened) + 1] = Len(asked) + 1
          /\ \A i \in DOMAIN opened : i \in DOMAIN opened' /\ opened'[i] = opened[i]
          /\ \A i \in DOMAIN opened' : i \in DOMAIN opened \/ i = Len(opened) + 1
          /\ Len(opened) + 1 \in DOMAIN opened'
        BY <1>1, <2>1
    <2>4. \A i \in DOMAIN opened :
              opened[i] \in Exchanges /\ opened[i] \in Nat /\ opened[i] <= Len(asked)
        BY <2>1 DEF StreamInv
    <2>5. \A i \in DOMAIN opened' :
              /\ opened'[i] \in Exchanges /\ opened'[i] <= Len(asked')
              /\ task'[opened'[i]] \notin {"none", "opening"}
        BY <1>1, <1>2, <1>3, <2>2, <2>3, <2>4 DEF StreamInv
    <2>6. \A i, j \in DOMAIN opened' : opened'[i] = opened'[j] => i = j
        BY <1>1, <2>3, <2>4 DEF StreamInv
    <2>7. ASSUME NEW k \in Exchanges, HasStream(k)'
          PROVE  \E i \in DOMAIN opened' : opened'[i] = k
        BY <1>2, <2>3, <2>7 DEF StreamInv, HasStream
    <2>. QED  BY <2>5, <2>6, <2>7 DEF StreamInv
<1>5. CASE command # "h2-session-client"
    <2>1. opened' = opened /\ opened \in Seq(Nat)
        BY <1>5 DEF Begin, Types
    <2>2. task'[Len(asked) + 1] = "opening"
        BY <1>3, <1>5 DEF Begin, Goto, Types
    <2>3. \A i \in DOMAIN opened :
              opened[i] \in Exchanges /\ opened[i] \in Nat /\ opened[i] <= Len(asked)
        BY <2>1 DEF StreamInv
    <2>. QED  BY <1>1, <1>2, <1>3, <2>1, <2>2, <2>3 DEF StreamInv, HasStream
<1>. QED  BY <1>4, <1>5

LEMMA OpenStream ==
    ASSUME Types, StreamInv, NEW k \in Exchanges, Open(k)
    PROVE  StreamInv'
<1>1. /\ opened' = Append(opened, k) /\ opened \in Seq(Nat) /\ k \in Nat
      /\ task[k] = "opening" /\ Len(asked) \in Nat
    BY BoundsAssumption DEF Open, Exchanges, Types
<1>2. /\ asked' = asked /\ main' = main /\ task'[k] = "headers"
      /\ \A j \in Exchanges \ {k} : task'[j] = task[j]
    BY DEF Open, Goto, Types
<1>3. /\ \A i \in DOMAIN opened : i \in DOMAIN opened' /\ opened'[i] = opened[i]
      /\ \A i \in DOMAIN opened' : i \in DOMAIN opened \/ i = Len(opened) + 1
      /\ Len(opened) + 1 \in DOMAIN opened' /\ opened'[Len(opened) + 1] = k
    BY <1>1
<1>4. k <= Len(asked)
    <2>1. k > Len(asked) => task[k] = "none"
        BY DEF Types
    <2>. QED  BY <1>1, <2>1
<1>5. \A i \in DOMAIN opened : /\ opened[i] \in Exchanges \ {k} /\ opened[i] <= Len(asked)
                              /\ task[opened[i]] \notin {"none", "opening"}
    BY <1>1 DEF StreamInv
<1>6. \A i \in DOMAIN opened' :
          /\ opened'[i] \in Exchanges /\ opened'[i] <= Len(asked')
          /\ task'[opened'[i]] \notin {"none", "opening"}
    <2>. SUFFICES ASSUME NEW i \in DOMAIN opened'
                  PROVE  /\ opened'[i] \in Exchanges /\ opened'[i] <= Len(asked')
                         /\ task'[opened'[i]] \notin {"none", "opening"}
        OBVIOUS
    <2>1. CASE i \in DOMAIN opened
        BY <1>2, <1>3, <1>5, <2>1
    <2>2. CASE i = Len(opened) + 1
        BY <1>2, <1>3, <1>4, <2>2
    <2>. QED  BY <1>3, <2>1, <2>2
<1>7. \A i, j \in DOMAIN opened' : opened'[i] = opened'[j] => i = j
    BY <1>3, <1>5 DEF StreamInv
<1>8. ASSUME NEW j \in Exchanges, HasStream(j)'
      PROVE  \E i \in DOMAIN opened' : opened'[i] = j
    BY <1>2, <1>3, <1>8 DEF StreamInv, HasStream
<1>. QED  BY <1>6, <1>7, <1>8 DEF StreamInv

LEMMA StreamStep == Types /\ ReadInv /\ PlaceInv /\ StreamInv /\ [Next]_vars => StreamInv'
<1>. SUFFICES ASSUME Types, ReadInv, PlaceInv, StreamInv, [Next]_vars PROVE StreamInv'
    OBVIOUS
<1>. USE DEF Types, StreamInv, HasStream, Exited, Goto, stdin, taken, reading, server, output
<1>1. CASE Write
    BY <1>1 DEF Write
<1>2. CASE Close
    BY <1>2 DEF Close
<1>3. CASE ReadText
    BY <1>3 DEF ReadText
<1>4. CASE ReadNewline
    <2>1. Begin(Line) /\ main = "read" /\ command' = command /\ Len(asked) < Submitted
        BY <1>4, RoomToBegin DEF ReadNewline, MessageReady
    <2>. QED  BY <2>1, BeginStream
<1>5. CASE ReadEnd
    <2>1. CASE from < takenPieces
        <3>1. Begin(Line) /\ main = "read" /\ command' = command /\ Len(asked) < Submitted
            BY <1>5, <2>1, RoomToBegin DEF ReadEnd, MessageReady
        <3>. QED  BY <3>1, BeginStream
    <2>2. CASE ~ (from < takenPieces)
        BY <1>5, <2>2 DEF ReadEnd, Quit
    <2>. QED  BY <2>1, <2>2
<1>6. CASE ReadFails
    BY <1>6 DEF ReadFails, Quit
<1>7. CASE ConnectionEnds
    BY <1>7 DEF ConnectionEnds, Quit
<1>8. CASE FinishSession
    BY <1>8 DEF FinishSession, Quit
<1>9. ASSUME NEW k \in Exchanges, ServerAnswers(k) PROVE StreamInv'
    BY <1>9 DEF ServerAnswers
<1>10. ASSUME NEW k \in Exchanges, ServerWrites(k) PROVE StreamInv'
    BY <1>10 DEF ServerWrites
<1>11. ASSUME NEW k \in Exchanges, ServerEnds(k) PROVE StreamInv'
    BY <1>11 DEF ServerEnds
<1>12. ASSUME NEW k \in Exchanges, Open(k) PROVE StreamInv'
    BY <1>12, OpenStream
<1>13. ASSUME NEW k \in Exchanges, Headers(k) PROVE StreamInv'
    BY <1>13 DEF Headers
<1>14. ASSUME NEW k \in Exchanges, Fails(k) PROVE StreamInv'
    BY <1>14 DEF Fails
<1>15. ASSUME NEW k \in Exchanges, TakeLine(k) PROVE StreamInv'
    BY <1>15 DEF TakeLine
<1>16. ASSUME NEW k \in Exchanges, WriteLine(k) PROVE StreamInv'
    BY <1>16 DEF WriteLine
<1>17. ASSUME NEW k \in Exchanges, WriteNewline(k) PROVE StreamInv'
    BY <1>17 DEF WriteNewline
<1>18. ASSUME NEW k \in Exchanges, BodyEnds(k) PROVE StreamInv'
    BY <1>18 DEF BodyEnds
<1>19. ASSUME NEW k \in Exchanges, Return(k) PROVE StreamInv'
    BY <1>19 DEF Return, Quit
<1>20. ASSUME NEW k \in Exchanges, Join(k) PROVE StreamInv'
    BY <1>20 DEF Join
<1>21. ASSUME NEW k \in Exchanges, JoinFails(k) PROVE StreamInv'
    BY <1>21 DEF JoinFails, Quit
<1>22. ASSUME NEW k \in Exchanges, TimesOut(k) PROVE StreamInv'
    BY <1>22 DEF TimesOut
<1>23. CASE UNCHANGED vars
    BY <1>23 DEF vars
<1>. QED
    BY <1>1, <1>2, <1>3, <1>4, <1>5, <1>6, <1>7, <1>8, <1>9, <1>10, <1>11,
       <1>12, <1>13, <1>14, <1>15, <1>16, <1>17, <1>18, <1>19, <1>20, <1>21,
       <1>22, <1>23
       DEF Next, Reads, Goes

-----------------------------------------------------------------------------
(* The copying.                                                            *)

LEMMA CopyInit == Init => CopyInv
BY DEF Init, CopyInv, HasStream

LEMMA BeginCopied ==
    ASSUME Types, CopyInv, Begin(Line), main = "read",
           UNCHANGED <<command, server, output>>
    PROVE  CopyInv'
<1>1. \A k \in Exchanges :
          \/ task'[k] = task[k]
          \/ task[k] = "none" /\ task'[k] \in {"opening", "headers"}
    BY LineType, BeginTasks
<1>2. OneLine' = OneLine /\ WebTransport' = WebTransport
    BY DEF OneLine, WebTransport
<1>3. \A k, n : Written(k, n)' = Written(k, n)
    BY DEF Written, output
<1>. QED  BY <1>1, <1>2, <1>3 DEF CopyInv, HasStream, server, output

LEMMA AnswerCopied ==
    ASSUME Types, ServerTypes, CopyInv, NEW k \in Exchanges, ServerAnswers(k)
    PROVE  CopyInv'
<1>1. /\ answer[k] = "none" /\ \A j \in Exchanges \ {k} : answer'[j] = answer[j]
      /\ UNCHANGED <<command, main, task, lines, ended, copied, stdout>>
    BY DEF ServerAnswers, ServerTypes, output
<1>2. OneLine' = OneLine /\ WebTransport' = WebTransport
    BY <1>1 DEF OneLine, WebTransport
<1>3. \A j, n : Written(j, n)' = Written(j, n)
    BY <1>1 DEF Written
<1>4. ~ ended[k] /\ (HasStream(k) => task[k] = "headers")
    BY <1>1 DEF CopyInv, ServerTypes
<1>5. \A j \in Exchanges : HasStream(j)' = HasStream(j)
    BY <1>1 DEF HasStream
<1>. QED  BY <1>1, <1>2, <1>3, <1>4, <1>5 DEF CopyInv

\* What has been written stays.
LEMMA WrittenStays ==
    ASSUME NEW x \in Nat \X Nat, stdout \in Seq(Nat \X Nat), stdout' = Append(stdout, x)
    PROVE  /\ \A k, n : Written(k, n) => Written(k, n)'
           /\ \A k, n : x = <<k, n>> => Written(k, n)'
<1>1. /\ \A i \in DOMAIN stdout : i \in DOMAIN stdout' /\ stdout'[i] = stdout[i]
      /\ Len(stdout) + 1 \in DOMAIN stdout' /\ stdout'[Len(stdout) + 1] = x
    OBVIOUS
<1>. QED  BY <1>1 DEF Written

LEMMA LineCopied ==
    ASSUME Types, ServerTypes, CopyInv, NEW k \in Exchanges, WriteLine(k)
    PROVE  CopyInv'
<1>1. /\ UNCHANGED <<command, main, answer, lines, ended, copied>>
      /\ task[k] = "line" /\ task'[k] = "newline"
      /\ \A j \in Exchanges \ {k} : task'[j] = task[j]
      /\ stdout' = Append(stdout, <<k, copied[k]>>)
    BY DEF WriteLine, Goto, Types, server
<1>2. OneLine' = OneLine /\ WebTransport' = WebTransport
    BY <1>1 DEF OneLine, WebTransport
<1>3. <<k, copied[k]>> \in Nat \X Nat /\ stdout \in Seq(Nat \X Nat)
    BY BoundsAssumption DEF Types, Exchanges
<1>4. /\ \A j, n : Written(j, n) => Written(j, n)'
      /\ Written(k, copied[k])'
    BY <1>1, <1>3, WrittenStays
<1>5. HasStream(k) /\ \A j \in Exchanges : HasStream(j)' = HasStream(j)
    BY <1>1 DEF HasStream
<1>6. \A j \in Exchanges : \A n \in 1 .. copied'[j] :
          Written(j, n)' \/ (task'[j] = "line" /\ n = copied'[j])
    BY <1>1, <1>4 DEF CopyInv
<1>7. \A j \in Exchanges :
        /\ HasStream(j)' /\ task'[j] # "headers" => answer'[j] = "ok"
        /\ task'[j] \in {"line", "newline"} => copied'[j] >= 1
    BY <1>1, <1>5 DEF CopyInv
<1>8. \A j \in Exchanges :
        task'[j] \in {"done", "joined"} => j # k /\ task[j] \in {"done", "joined"}
    BY <1>1
<1>. QED  BY <1>1, <1>2, <1>5, <1>6, <1>7, <1>8 DEF CopyInv

LEMMA NewlineCopied ==
    ASSUME Types, ServerTypes, CopyInv, NEW k \in Exchanges, WriteNewline(k)
    PROVE  CopyInv'
<1>1. /\ UNCHANGED <<command, main, answer, lines, ended, copied>>
      /\ task[k] = "newline" /\ task'[k] = IF OneLine THEN "done" ELSE "body"
      /\ \A j \in Exchanges \ {k} : task'[j] = task[j]
      /\ stdout' = Append(stdout, Newline)
    BY DEF WriteNewline, Goto, Types, server
<1>2. OneLine' = OneLine /\ WebTransport' = WebTransport
    BY <1>1 DEF OneLine, WebTransport
<1>3. Newline \in Nat \X Nat /\ stdout \in Seq(Nat \X Nat)
    BY DEF Types, Newline
<1>4. \A j, n : Written(j, n) => Written(j, n)'
    BY <1>1, <1>3, WrittenStays
<1>5. HasStream(k) /\ \A j \in Exchanges : HasStream(j)' = HasStream(j)
    BY <1>1 DEF HasStream
<1>6. \A j \in Exchanges : \A n \in 1 .. copied'[j] :
          Written(j, n)' \/ (task'[j] = "line" /\ n = copied'[j])
    BY <1>1, <1>4 DEF CopyInv
<1>7. \A j \in Exchanges :
        /\ HasStream(j)' /\ task'[j] # "headers" => answer'[j] = "ok"
        /\ task'[j] \in {"line", "newline"} => copied'[j] >= 1
    BY <1>1, <1>5 DEF CopyInv
<1>8. \A j \in Exchanges :
        task'[j] \in {"done", "joined"} =>
            \/ j # k /\ task[j] \in {"done", "joined"}
            \/ j = k /\ OneLine /\ copied[k] >= 1
    BY <1>1 DEF CopyInv
<1>. QED  BY <1>1, <1>2, <1>5, <1>6, <1>7, <1>8 DEF CopyInv

LEMMA CopyStep ==
    Types /\ ServerTypes /\ CopyInv /\ [Next]_vars => CopyInv'
<1>. SUFFICES ASSUME Types, ServerTypes, CopyInv, [Next]_vars PROVE CopyInv'
    OBVIOUS
<1>. USE DEF Types, ServerTypes, CopyInv, HasStream, Written, OneLine, WebTransport, Exited,
             Goto, stdin, taken, reading, server, output
<1>1. CASE Write
    BY <1>1 DEF Write
<1>2. CASE Close
    BY <1>2 DEF Close
<1>3. CASE ReadText
    BY <1>3 DEF ReadText
<1>4. CASE ReadNewline
    <2>1. Begin(Line) /\ UNCHANGED <<command, server, output>>
        BY <1>4 DEF ReadNewline
    <2>2. main = "read"
        BY <1>4 DEF ReadNewline
    <2>. QED  BY <2>1, <2>2, BeginCopied
<1>5. CASE ReadEnd
    <2>1. CASE from < takenPieces
        <3>1. Begin(Line) /\ UNCHANGED <<command, server, output>>
            BY <1>5, <2>1 DEF ReadEnd
        <3>2. main = "read"
            BY <1>5 DEF ReadEnd
        <3>. QED  BY <3>1, <3>2, BeginCopied
    <2>2. CASE ~ (from < takenPieces)
        BY <1>5, <2>2 DEF ReadEnd, Quit
    <2>. QED  BY <2>1, <2>2
<1>6. CASE ReadFails
    <2>1. main = "read" /\ main' = "error"
          /\ UNCHANGED <<command, task, answer, lines, ended, copied, stdout>>
        BY <1>6 DEF ReadFails, Quit
    <2>. QED  BY <2>1
<1>7. CASE ConnectionEnds
    BY <1>7 DEF ConnectionEnds, Quit
<1>8. CASE FinishSession
    BY <1>8 DEF FinishSession, Quit
<1>9. ASSUME NEW k \in Exchanges, ServerAnswers(k) PROVE CopyInv'
    BY <1>9, AnswerCopied
<1>10. ASSUME NEW k \in Exchanges, ServerWrites(k) PROVE CopyInv'
    BY <1>10 DEF ServerWrites
<1>11. ASSUME NEW k \in Exchanges, ServerEnds(k) PROVE CopyInv'
    BY <1>11 DEF ServerEnds
<1>12. ASSUME NEW k \in Exchanges, Open(k) PROVE CopyInv'
    BY <1>12 DEF Open
<1>13. ASSUME NEW k \in Exchanges, Headers(k) PROVE CopyInv'
    BY <1>13 DEF Headers
<1>14. ASSUME NEW k \in Exchanges, Fails(k) PROVE CopyInv'
    BY <1>14 DEF Fails
<1>15. ASSUME NEW k \in Exchanges, TakeLine(k) PROVE CopyInv'
    BY <1>15 DEF TakeLine
<1>16. ASSUME NEW k \in Exchanges, WriteLine(k) PROVE CopyInv'
    BY <1>16, LineCopied
<1>17. ASSUME NEW k \in Exchanges, WriteNewline(k) PROVE CopyInv'
    BY <1>17, NewlineCopied
<1>18. ASSUME NEW k \in Exchanges, BodyEnds(k) PROVE CopyInv'
    BY <1>18 DEF BodyEnds
<1>19. ASSUME NEW k \in Exchanges, Return(k) PROVE CopyInv'
    BY <1>19 DEF Return, Quit
<1>20. ASSUME NEW k \in Exchanges, Join(k) PROVE CopyInv'
    BY <1>20 DEF Join
<1>21. ASSUME NEW k \in Exchanges, JoinFails(k) PROVE CopyInv'
    BY <1>21 DEF JoinFails, Quit
<1>22. ASSUME NEW k \in Exchanges, TimesOut(k) PROVE CopyInv'
    BY <1>22 DEF TimesOut
<1>23. CASE UNCHANGED vars
    BY <1>23 DEF vars
<1>. QED
    BY <1>1, <1>2, <1>3, <1>4, <1>5, <1>6, <1>7, <1>8, <1>9, <1>10, <1>11,
       <1>12, <1>13, <1>14, <1>15, <1>16, <1>17, <1>18, <1>19, <1>20, <1>21,
       <1>22, <1>23
       DEF Next, Reads, Goes

-----------------------------------------------------------------------------
(* The two theorems.                                                       *)

LEMMA Counted ==
    ASSUME NEW n \in Nat
    PROVE  IsFiniteSet(1 .. n) /\ Cardinality(1 .. n) = n
<1>1. 1 \in Int /\ n \in Int
    OBVIOUS
<1>2. IsFiniteSet(1 .. n) /\ Cardinality(1 .. n) = IF 1 > n THEN 0 ELSE n - 1 + 1
    BY <1>1, FS_Interval, Zenon
<1>. QED  BY <1>2

\* Streams are an injection of their places into the messages.
LEMMA StreamsAreFew ==
    ASSUME Types, StreamInv
    PROVE  /\ Len(opened) <= Len(asked)
           /\ (\A k \in 1 .. Len(asked) : \E i \in DOMAIN opened : opened[i] = k)
                  => Len(opened) = Len(asked)
<1>. DEFINE S == 1 .. Len(opened)
            T == 1 .. Len(asked)
<1>1. /\ Len(opened) \in Nat /\ Len(asked) \in Nat /\ DOMAIN opened = S
      /\ opened \in [S -> Nat]
    BY DEF Types
<1>2. opened \in Injection(S, T)
    <2>1. \A i \in S : opened[i] \in T
        BY <1>1, BoundsAssumption DEF StreamInv, Exchanges
    <2>2. opened \in [S -> T]
        BY <1>1, <2>1
    <2>3. IsInjective(opened)
        BY DEF StreamInv, IsInjective
    <2>. QED  BY <2>2, <2>3 DEF Injection
<1>3. IsFiniteSet(S) /\ Cardinality(S) = Len(opened)
    BY <1>1, Counted
<1>4. IsFiniteSet(T) /\ Cardinality(T) = Len(asked)
    BY <1>1, Counted
<1>5. /\ Cardinality(S) <= Cardinality(T)
      /\ Cardinality(S) = Cardinality(T) <=> opened \in Surjection(S, T)
    BY <1>2, <1>4, FS_Injection
<1>6. (\A k \in T : \E i \in S : opened[i] = k) => opened \in Surjection(S, T)
    BY <1>2 DEF Injection, Surjection
<1>. QED  BY <1>1, <1>3, <1>4, <1>5, <1>6

\* The values the state of the client commands takes, the number of streams,
\* which is never more than the messages that were read, among them.
THEOREM TypeCorrect == Spec => []TypeOK
<1>1. Types /\ ReadInv /\ PlaceInv /\ StreamInv /\ CopyInv => TypeOK
    <2>. SUFFICES ASSUME Types, ReadInv, PlaceInv, StreamInv, CopyInv PROVE TypeOK
        OBVIOUS
    <2>1. /\ Len(asked) \in Nat /\ Submitted \in Nat /\ Len(asked) <= Submitted
          /\ sentLines \in 0 .. Submitted /\ takenLines \in 0 .. sentLines
          /\ sentPieces \in 0 .. Pieces /\ takenPieces \in 0 .. Pieces
          /\ takenLines = sentLines => takenPieces <= sentPieces
          /\ from \in 0 .. takenPieces
        BY BoundsAssumption DEF Types, ReadInv, PlaceInv
    <2>3. asked \in Seq([request : Exchanges, first : 1 .. Pieces + 1, last : 1 .. Pieces])
        <3>. DEFINE M == [request : Exchanges, first : 1 .. Pieces + 1, last : 1 .. Pieces]
        <3>1. ASSUME NEW k \in 1 .. Len(asked) PROVE asked[k] \in M
            <4>1. k \in Exchanges /\ asked[k] \in Message /\ InPlace(asked[k], k)
                BY <2>1, BoundsAssumption DEF Types, ReadInv, Exchanges
            <4>. QED  BY <4>1 DEF InPlace, Message
        <3>. HIDE DEF M
        <3>2. asked \in [1 .. Len(asked) -> M]
            BY <3>1 DEF Types
        <3>3. asked \in Seq(M)
            BY <2>1, <3>2
        <3>. QED  BY <3>3 DEF M
    <2>4. Len(opened) <= Len(asked)
        BY StreamsAreFew
    <2>5. IsInjective(opened) /\ Range(opened) \subseteq Exchanges
        BY DEF StreamInv, IsInjective, Range
    <2>6. \A k \in Exchanges : copied[k] <= lines[k]
        BY DEF CopyInv
    <2>. QED  BY <2>1, <2>3, <2>4, <2>5, <2>6 DEF TypeOK, Types
<1>. QED
    BY <1>1, TypesInit, TypesStep, ReadInit, ReadStep, PlaceInit, PlaceStep, StreamInit,
       StreamStep, ServerTypesInit, ServerTypesStep, CopyInit, CopyStep, PTL DEF Spec

\* A bridge that exits well has read all that was written to it, has made a
\* stream for every message, every one was answered well, and every line of
\* every answer has been written, the last with its newline.
THEOREM CleanExits == Spec => []CleanExit
<1>1. Types /\ OutputInv /\ PlaceInv /\ StreamInv /\ CopyInv => CleanExit
    <2>. SUFFICES ASSUME Types, OutputInv, PlaceInv, StreamInv, CopyInv, main = "ok"
                  PROVE  /\ AllTaken /\ Len(opened) = Len(asked)
                         /\ \A k \in Range(opened) :
                               /\ answer[k] = "ok"
                               /\ \A n \in 1 .. (IF OneLine THEN 1 ELSE lines[k]) : Written(k, n)
                         /\ Len(stdout) % 2 = 0
        BY DEF CleanExit, Written
    <2>1. AllTaken /\ \A k \in Exchanges : task[k] \in {"none", "joined"}
        BY DEF PlaceInv
    <2>2. \A k \in 1 .. Len(asked) : \E i \in DOMAIN opened : opened[i] = k
        <3>. SUFFICES ASSUME NEW k \in 1 .. Len(asked)
                      PROVE  \E i \in DOMAIN opened : opened[i] = k
            OBVIOUS
        <3>1. k \in Exchanges
            BY BoundsAssumption DEF Exchanges, PlaceInv, Types
        <3>2. task[k] = "joined"
            BY <2>1, <3>1 DEF PlaceInv
        <3>. QED  BY <3>1, <3>2 DEF StreamInv, HasStream
    <2>3. Len(opened) = Len(asked)
        BY <2>2, StreamsAreFew
    <2>4. ASSUME NEW k \in Range(opened)
          PROVE  /\ answer[k] = "ok"
                 /\ \A n \in 1 .. (IF OneLine THEN 1 ELSE lines[k]) : Written(k, n)
        <3>1. k \in Exchanges /\ task[k] = "joined"
            BY <2>1 DEF StreamInv, Range
        <3>2. /\ answer[k] = "ok"
              /\ IF OneLine THEN copied[k] >= 1 ELSE copied[k] = lines[k]
              /\ \A n \in 1 .. copied[k] : Written(k, n)
            BY <3>1 DEF CopyInv, HasStream
        <3>3. copied[k] \in Nat /\ lines[k] \in Nat
            BY <3>1 DEF Types
        <3>. QED  BY <3>2, <3>3
    <2>5. owner = Nobody
        BY <2>1 DEF Types, OutputInv
    <2>6. Len(stdout) % 2 = 0
        BY <2>5 DEF OutputInv
    <2>. QED  BY <2>1, <2>3, <2>4, <2>6
<1>. QED
    BY <1>1, TypesInit, TypesStep, OutputInit, OutputStep, ReadInit, ReadStep, PlaceInit,
       PlaceStep, StreamInit, StreamStep, ServerTypesInit, ServerTypesStep, CopyInit, CopyStep,
       PTL DEF Spec
=============================================================================

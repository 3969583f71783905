---------------------------- MODULE LegacySession ----------------------------
(***************************************************************************)
(* legacy/SRLHandler.java and CogcompClient.java: the annotator of type    *)
(* legacySRL, a client of a line-based semantic role labeler.              *)
(*                                                                         *)
(* performSRL opens a session for each sentence of a record, sends a       *)
(* handshake and the sentence, and closes the session.  getOutput sends a  *)
(* request and reads its answer; if reading fails it sleeps and sends the  *)
(* request again, at most as long as its sleeping time allows.  The      *)
(* client is built with allowHandshakes, so that a request that is sent    *)
(* again goes over the same socket: the answer to the first one may still  *)
(* come, and lines of it may have been read.                               *)
(*                                                                         *)
(* performSRL is synchronized: one record at a time.  A line of an answer  *)
(* is <<record, sentence, row>>; the handshake's only line is row 0, and   *)
(* the empty line that ends a sentence's answer is row Rows + 1.  A line    *)
(* that was cut in its middle stands as row Rows + 2.                      *)
(***************************************************************************)
EXTENDS Naturals, Sequences

CONSTANTS
  Record,      \* records the handler is asked to parse
  Sentences,   \* number of sentences of a record
  Rows,        \* number of rows (tokens) of a sentence's answer
  Ends         \* how the server may end a session: a subset of {"ended", "reset"}

None == "none"

ASSUME SessionAssumption ==
  /\ None \notin Record
  /\ Sentences \in Nat \ {0}
  /\ Rows \in Nat \ {0}
  /\ Ends \subseteq {"ended", "reset"}

VARIABLES
  current,   \* the record that is parsed, or None
  sentence,  \* the sentence performSRL is at
  place,     \* where performSRL and the client are, see Place
  socket,    \* "none", "up", "ended" (the server closed it) or "reset"
  asked,     \* requests on the socket the server has not answered
  inbox,     \* lines on the socket the client has not read
  output,    \* lines getOutput has read
  pause,     \* its sleeping time, in milliseconds
  forest,    \* for each sentence converted so far, the lines it was made from
  late       \* history: has reading timed out, for each sentence

session == <<socket, asked, inbox>>
callVars == <<current, sentence, place, socket, asked, inbox, output, pause, forest, late>>

Place == {"idle", "start", "send hello", "hello", "send text", "text", "forest", "failed"}

\* Where the client is when it is about to send a request.
Sending == [hello |-> "send hello", text |-> "send text"]

HelloLine == <<current, sentence, 0>>
Answer(r, s) == [k \in 1 .. Rows |-> <<r, s, k>>]
EndOf(line) == line[3] = Rows + 1
CutLine(r, s) == <<r, s, Rows + 2>>

\* What the server answers to a request, from how SRLHandler reads it.
LinesFor(request) ==
  IF request = "hello" THEN <<HelloLine>>
  ELSE Append(Answer(current, sentence), <<current, sentence, Rows + 1>>)

Retries == 5

CallInit ==
  /\ current = None /\ sentence = 1 /\ place = "idle"
  /\ socket = "none" /\ asked = << >> /\ inbox = << >>
  /\ output = << >> /\ pause = 100 /\ forest = << >>
  /\ late = [s \in 1 .. Sentences |-> FALSE]

\* parseRecord(record): performSRL makes a client without a session.  A session
\* that an exception left open belongs to a client nobody refers to any more.
ParseRecord(r) ==
  /\ place = "idle"
  /\ current' = r /\ sentence' = 1 /\ place' = "start"
  /\ socket' = "none" /\ asked' = << >> /\ inbox' = << >>
  /\ output' = << >> /\ forest' = << >>
  /\ late' = [s \in 1 .. Sentences |-> FALSE]
  /\ UNCHANGED pause

\* startSession: a socket of its own, or an exception, which ends the call.
StartSession ==
  /\ place = "start"
  /\ \/ socket' = "up" /\ place' = "send hello" /\ pause' = 100
     \/ socket' = "none" /\ place' = "failed" /\ UNCHANGED pause
  /\ asked' = << >> /\ inbox' = << >>
  /\ UNCHANGED <<current, sentence, output, forest, late>>

\* getOutputFromNetwork, in a session: println (which swallows errors), then read.
Send(request) ==
  /\ place = Sending[request]
  /\ place' = request
  /\ asked' = IF socket = "up" THEN Append(asked, request) ELSE asked
  /\ output' = << >>
  /\ UNCHANGED <<current, sentence, socket, inbox, pause, forest, late>>

\* The handshake is answered: getOutput starts over with the sentence.
GoOn ==
  /\ place' = "send text" /\ pause' = 100 /\ output' = << >>
  /\ UNCHANGED <<current, sentence, forest, late>>

\* Mutation: the handshake's answer is not waited for.
ReadNoHello ==
  /\ place = "hello"
  /\ GoOn
  /\ UNCHANGED <<socket, asked, inbox>>

\* The handshake's one line; null at the end of the stream is taken for one.
ReadHello ==
  /\ place = "hello"
  /\ \/ inbox # << >> /\ inbox' = Tail(inbox)
     \/ inbox = << >> /\ socket = "ended" /\ UNCHANGED inbox
  /\ GoOn
  /\ UNCHANGED <<socket, asked>>

Over == socket = "ended" /\ inbox = << >>

\* treesFromColumns and the step to the next sentence.  Without a line it throws;
\* lines that are not the answer to the sentence may make it throw.
Convert(columns) ==
  \/ /\ columns # << >>
     /\ forest' = Append(forest, columns)
     /\ IF sentence = Sentences
        THEN place' = "forest" /\ UNCHANGED sentence
        ELSE place' = "start" /\ sentence' = sentence + 1
  \/ /\ columns # Answer(current, sentence)
     /\ place' = "failed" /\ UNCHANGED <<sentence, forest>>

\* The answer to the sentence is read line by line ...
ReadRow ==
  /\ place = "text" /\ inbox # << >> /\ ~EndOf(Head(inbox))
  /\ output' = Append(output, Head(inbox))
  /\ inbox' = Tail(inbox)
  /\ UNCHANGED <<current, sentence, place, socket, asked, pause, forest, late>>

\* Mutation: one session for the record, with one handshake.
ReadEndInSession ==
  /\ place = "text"
  /\ Over \/ (inbox # << >> /\ EndOf(Head(inbox)))
  /\ inbox' = IF inbox = << >> THEN << >> ELSE Tail(inbox)
  /\ pause' = 100
  /\ IF output = << >> THEN place' = "failed" /\ UNCHANGED <<sentence, forest>>
     ELSE /\ forest' = Append(forest, output)
          /\ sentence' = IF sentence = Sentences THEN sentence ELSE sentence + 1
          /\ place' = IF sentence = Sentences THEN "forest" ELSE "send text"
  /\ output' = << >>
  /\ UNCHANGED <<current, socket, asked, late>>

\* ... up to an empty one or the end of the stream.  The session is closed.
ReadEnd ==
  /\ place = "text"
  /\ Over \/ (inbox # << >> /\ EndOf(Head(inbox)))
  /\ socket' = "none" /\ asked' = << >> /\ inbox' = << >>
  /\ Convert(output)
  /\ output' = << >>
  /\ UNCHANGED <<current, pause, late>>

\* Mutation: a connection that was reset is tried again at once.
SleepUnlessReset ==
  /\ IF socket # "reset" /\ pause > 100 * Retries * 2
     THEN place' = "failed" /\ UNCHANGED pause
     ELSE place' = Sending[place] /\ pause' = IF socket = "reset" THEN pause ELSE 2 * pause
  /\ UNCHANGED <<socket, asked, inbox>>

\* getOutput catches an IOException: it gives up, or sleeps and tries again.
SleepOrThrow ==
  /\ IF pause > 100 * Retries * 2
     THEN place' = "failed" /\ UNCHANGED pause
     ELSE place' = Sending[place] /\ pause' = 2 * pause
  /\ UNCHANGED <<socket, asked, inbox>>

\* readLine waits for 30 seconds, or finds the connection reset.
ReadFails ==
  /\ place \in {"hello", "text"} /\ inbox = << >>
  /\ \/ socket = "up" /\ late' = [late EXCEPT ![sentence] = TRUE]
     \/ socket = "reset" /\ UNCHANGED late
  /\ SleepOrThrow
  /\ UNCHANGED <<current, sentence, output, forest>>

\* parseRecord returns the forest or throws.
Return ==
  /\ place \in {"forest", "failed"}
  /\ place' = "idle" /\ current' = None
  /\ UNCHANGED <<sentence, socket, asked, inbox, output, pause, forest, late>>

\* The server answers the first request it has.
ServerAnswers ==
  /\ socket = "up" /\ asked # << >> /\ current # None
  /\ inbox' = inbox \o LinesFor(Head(asked))
  /\ asked' = Tail(asked)
  /\ UNCHANGED <<current, sentence, place, socket, output, pause, forest, late>>

\* It may be stopped anywhere in what it sent, which ends the stream or, with
\* something unread, resets the connection.  Of a stream that ends in the middle
\* of a line, readLine returns what there is of the line.
ServerEnds ==
  /\ socket = "up" /\ current # None
  /\ socket' \in Ends
  /\ \E n \in 0 .. Len(inbox) :
       \/ inbox' = SubSeq(inbox, 1, n)
       \/ /\ socket' = "ended" /\ n < Len(inbox) /\ ~EndOf(inbox[n + 1])
          /\ inbox' = Append(SubSeq(inbox, 1, n), CutLine(current, sentence))
  /\ asked' = << >>
  /\ UNCHANGED <<current, sentence, place, output, pause, forest, late>>

Client ==
  \/ StartSession \/ Send("hello") \/ ReadHello \/ Send("text") \/ ReadRow \/ ReadEnd
  \/ ReadFails \/ Return

CallNext == (\E r \in Record : ParseRecord(r)) \/ Client \/ ServerAnswers \/ ServerEnds

CallSpec == CallInit /\ [][CallNext]_callVars

\* The handler goes on: readLine returns or its timeout passes.  The server owes
\* nothing: it may be late for every request.
CallFairSpec == CallSpec /\ WF_callVars(Client)
-----------------------------------------------------------------------------
Line == Record \X (1 .. Sentences) \X (0 .. Rows + 2)

SleepingTime == {100, 200, 400, 800, 1600}

CallTypeOK ==
  /\ current \in Record \cup {None} /\ (current = None <=> place = "idle")
  /\ sentence \in 1 .. Sentences
  /\ place \in Place
  /\ socket \in {"none", "up", "ended", "reset"}
  /\ asked \in Seq({"hello", "text"})
  /\ inbox \in Seq(Line) /\ output \in Seq(Line)
  /\ pause \in SleepingTime
  /\ forest \in Seq(Seq(Line)) /\ Len(forest) <= Sentences
  /\ late \in [1 .. Sentences -> BOOLEAN]

\* However late the server was, and whatever an earlier call left on its socket:
\* no tree of a sentence is made from a line about another sentence or record.
\* (The session is closed after each sentence, SRLHandler.java:66.)
OwnSentenceOnly ==
  current # None =>
    \A s \in 1 .. Len(forest) : \A i \in 1 .. Len(forest[s]) :
      forest[s][i][1] = current /\ forest[s][i][2] = s

\* "creates an SRL parse as Forest for the record": unless reading timed out in a
\* sentence's session, its trees are made from the rows of its answer, without the
\* handshake's line and in order, though maybe not up to the last row: a server
\* that stops may cut the answer short, in the middle of the last line that came.
RowsUnlessLate ==
  current # None =>
    \A s \in 1 .. Len(forest) : ~late[s] =>
      /\ Len(forest[s]) <= Rows
      /\ \A i \in 1 .. Len(forest[s]) :
           \/ forest[s][i] = <<current, s, i>>
           \/ i = Len(forest[s]) /\ forest[s][i] = CutLine(current, s)

\* No call is stuck in its retries.
CallEnds == place # "idle" ~> place = "idle"
=============================================================================

------------------------- MODULE LegacySessionProofs -------------------------
(***************************************************************************)
(* For any records, any number of sentences and of rows, and however late  *)
(* the server is: the trees of a sentence are made of lines about it, and  *)
(* unless reading timed out they are the rows of its answer from the first *)
(* on, of which the last may be cut.                                       *)
(***************************************************************************)
EXTENDS LegacySession, SequenceTheorems, TLAPS

Sends == {"send hello", "send text"}
Waits == {"hello", "text"}

(* Every sentence up to the one performSRL is at has been converted, in order. *)
Progress ==
  /\ place \in {"start", "failed"} \cup Sends \cup Waits => Len(forest) = sentence - 1
  /\ place = "forest" => Len(forest) = sentence

About(lines, r, s) == \A i \in 1 .. Len(lines) : lines[i][1] = r /\ lines[i][2] = s

(* The socket is this sentence's: nothing about another comes over it. *)
OwnSocket ==
  current # None =>
    About(inbox, current, sentence) /\ About(output, current, sentence)

(* Requests are lost with the connection. *)
NothingAskedWhenDown == socket # "up" => asked = << >>

(* Nothing is under way when a request is sent for the first time, or once more over
   a connection that was reset; at most the handshake while that is awaited ... *)
HelloInOrder ==
  /\ place \in Sends => asked = << >> /\ inbox = << >>
  /\ place = "hello" =>
       \/ asked \in {<< >>, <<"hello">>} /\ inbox = << >>
       \/ asked = << >> /\ inbox \in {<<HelloLine>>, <<CutLine(current, sentence)>>}

(* ... and then what was read and what is still to be read continue each other, up
   to a line that may be cut, with nothing behind it. *)
RowsInOrder ==
  place = "text" =>
    /\ asked = << >> \/ (asked = <<"text">> /\ inbox = << >> /\ output = << >>)
    /\ Len(output) <= Rows
    /\ Len(output) + Len(inbox) <= Rows + 1
    /\ \A i \in 1 .. Len(output) :
         \/ output[i] = <<current, sentence, i>>
         \/ /\ i = Len(output) /\ inbox = << >>
            /\ output[i] = CutLine(current, sentence)
    /\ \A i \in 1 .. Len(inbox) :
         \/ inbox[i] = <<current, sentence, Len(output) + i>>
         \/ /\ i = Len(inbox) /\ Len(output) + i <= Rows
            /\ inbox[i] = CutLine(current, sentence)

InOrder ==
  current # None /\ ~late[sentence] => HelloInOrder /\ RowsInOrder

IInv == /\ CallTypeOK /\ Progress /\ OwnSocket /\ NothingAskedWhenDown /\ InOrder
        /\ OwnSentenceOnly /\ RowsUnlessLate
-----------------------------------------------------------------------------
(* The type invariant in two parts: what is counted, and what is collected. *)
Counts ==
  /\ current \in Record \cup {None} /\ (current = None <=> place = "idle")
  /\ sentence \in 1 .. Sentences
  /\ place \in Place
  /\ socket \in {"none", "up", "ended", "reset"}
  /\ Len(forest) <= Sentences
  /\ late \in [1 .. Sentences -> BOOLEAN]

Collects ==
  /\ asked \in Seq({"hello", "text"})
  /\ inbox \in Seq(Line) /\ output \in Seq(Line)
  /\ forest \in Seq(Seq(Line))

LEMMA TypeParts == CallTypeOK <=> Counts /\ Collects /\ pause \in SleepingTime
BY DEF CallTypeOK, Counts, Collects

LEMMA EmptyOnes ==
  /\ << >> \in Seq({"hello", "text"}) /\ << >> \in Seq(Line) /\ << >> \in Seq(Seq(Line))
  /\ Len(<< >>) = 0
BY EmptySeq

LEMMA SendingFacts ==
  /\ Sending["hello"] = "send hello" /\ Sending["text"] = "send text"
  /\ \A request \in Waits : Sending[request] \in Sends
BY DEF Sending, Sends, Waits

(* What the server sends is about the sentence, in the order of its rows. *)
LEMMA AnswerFacts ==
  ASSUME NEW r, NEW n
  PROVE  /\ Answer(r, n) \in Seq({<<r, n, k>> : k \in 1 .. Rows})
         /\ Len(Answer(r, n)) = Rows
         /\ \A k \in 1 .. Rows : Answer(r, n)[k] = <<r, n, k>>
<1>1. Answer(r, n) \in [1 .. Rows -> {<<r, n, k>> : k \in 1 .. Rows}] BY DEF Answer
<1>2. Answer(r, n) \in Seq({<<r, n, k>> : k \in 1 .. Rows})
  BY <1>1, SeqDef, SessionAssumption
<1>3. DOMAIN Answer(r, n) = 1 .. Rows BY DEF Answer
<1>4. Len(Answer(r, n)) = Rows BY <1>2, <1>3, LenProperties, SessionAssumption
<1>5. \A k \in 1 .. Rows : Answer(r, n)[k] = <<r, n, k>> BY DEF Answer
<1> QED BY <1>2, <1>4, <1>5

LEMMA LinesForFacts ==
  ASSUME current \in Record, sentence \in 1 .. Sentences, NEW request \in Waits
  PROVE  /\ LinesFor(request) \in Seq(Line)
         /\ About(LinesFor(request), current, sentence)
         /\ request = "text" =>
              /\ Len(LinesFor(request)) = Rows + 1
              /\ \A i \in 1 .. Rows + 1 : LinesFor(request)[i] = <<current, sentence, i>>
<1> USE SessionAssumption
<1>1. CASE request = "hello"
  <2>1. LinesFor(request) = <<HelloLine>> BY <1>1 DEF LinesFor
  <2>2. HelloLine \in Line BY DEF HelloLine, Line
  <2>3. HelloLine[1] = current /\ HelloLine[2] = sentence BY DEF HelloLine
  <2>4. <<HelloLine>> \in Seq(Line) BY <2>2
  <2>5. Len(<<HelloLine>>) = 1 /\ <<HelloLine>>[1] = HelloLine OBVIOUS
  <2>6. About(<<HelloLine>>, current, sentence) BY <2>3, <2>5 DEF About
  <2> QED BY <1>1, <2>1, <2>4, <2>6
<1>2. CASE request = "text"
  <2> DEFINE rows == Answer(current, sentence)
             last == <<current, sentence, Rows + 1>>
  <2>1. LinesFor(request) = Append(rows, last) BY <1>2 DEF LinesFor
  <2>2. \A k \in 0 .. Rows + 1 : <<current, sentence, k>> \in Line BY DEF Line
  <2>3. {<<current, sentence, k>> : k \in 1 .. Rows} \subseteq Line BY <2>2
  <2>4. /\ rows \in Seq(Line) /\ Len(rows) = Rows
        /\ \A k \in 1 .. Rows : rows[k] = <<current, sentence, k>>
    BY <2>3, AnswerFacts, SeqMonotonic
  <2>5. last \in Line BY <2>2
  <2> HIDE DEF rows
  <2>6. /\ Append(rows, last) \in Seq(Line) /\ Len(Append(rows, last)) = Rows + 1
        /\ \A k \in 1 .. Rows + 1 : Append(rows, last)[k] = <<current, sentence, k>>
    BY <2>4, <2>5
  <2> QED BY <2>1, <2>6 DEF About
<1> QED BY <1>1, <1>2 DEF Waits

(* Lines about a sentence remain so when some are read, joined or lost. *)
LEMMA AboutFacts ==
  ASSUME NEW a \in Seq(Line), NEW r, NEW n, About(a, r, n)
  PROVE  /\ a # << >> => /\ About(Tail(a), r, n) /\ Tail(a) \in Seq(Line)
                         /\ Len(Tail(a)) = Len(a) - 1
                         /\ \A i \in 1 .. Len(a) - 1 : Tail(a)[i] = a[i + 1]
                         /\ Head(a) = a[1] /\ Head(a) \in Line
                         /\ Head(a)[1] = r /\ Head(a)[2] = n
         /\ \A b \in Seq(Line) : About(b, r, n) =>
              About(a \o b, r, n) /\ a \o b \in Seq(Line)
         /\ \A line \in Line : line[1] = r /\ line[2] = n =>
              About(Append(a, line), r, n) /\ Append(a, line) \in Seq(Line)
         /\ \A k \in 0 .. Len(a) :
              /\ About(SubSeq(a, 1, k), r, n) /\ SubSeq(a, 1, k) \in Seq(Line)
              /\ Len(SubSeq(a, 1, k)) = k
              /\ \A i \in 1 .. k : SubSeq(a, 1, k)[i] = a[i]
<1>1. a # << >> => /\ Tail(a) \in Seq(Line) /\ Len(Tail(a)) = Len(a) - 1
                   /\ Len(a) \in Nat \ {0}
                   /\ \A i \in 1 .. Len(a) - 1 : Tail(a)[i] = a[i + 1]
                   /\ Head(a) = a[1] /\ Head(a) \in Line
  OBVIOUS
<1>2. a # << >> => /\ About(Tail(a), r, n) /\ Head(a)[1] = r /\ Head(a)[2] = n
  BY <1>1 DEF About
<1>3. ASSUME NEW b \in Seq(Line), About(b, r, n)
      PROVE  About(a \o b, r, n) /\ a \o b \in Seq(Line)
  <2>1. /\ a \o b \in Seq(Line) /\ Len(a \o b) = Len(a) + Len(b)
        /\ \A i \in 1 .. Len(a) + Len(b) :
             (a \o b)[i] = IF i <= Len(a) THEN a[i] ELSE b[i - Len(a)]
        /\ Len(a) \in Nat /\ Len(b) \in Nat
    BY ConcatProperties, LenProperties
  <2> QED BY <1>3, <2>1 DEF About
<1>4. ASSUME NEW line \in Line, line[1] = r, line[2] = n
      PROVE  About(Append(a, line), r, n) /\ Append(a, line) \in Seq(Line)
  BY <1>4 DEF About
<1>5. ASSUME NEW k \in 0 .. Len(a)
      PROVE  /\ About(SubSeq(a, 1, k), r, n) /\ SubSeq(a, 1, k) \in Seq(Line)
             /\ Len(SubSeq(a, 1, k)) = k
             /\ \A i \in 1 .. k : SubSeq(a, 1, k)[i] = a[i]
  <2>1. /\ SubSeq(a, 1, k) \in Seq(Line) /\ Len(SubSeq(a, 1, k)) = k
        /\ \A i \in 1 .. k : SubSeq(a, 1, k)[i] = a[i]
    OBVIOUS
  <2> QED BY <2>1 DEF About
<1> QED BY <1>1, <1>2, <1>3, <1>4, <1>5

LEMMA AboutNothing == \A r, n : About(<< >>, r, n)
BY DEF About
-----------------------------------------------------------------------------
(* What was converted stays converted. *)
LEMMA ForestKept ==
  ASSUME CallTypeOK, Progress, OwnSentenceOnly, RowsUnlessLate,
         UNCHANGED <<current, forest>>,
         \/ UNCHANGED late
         \/ place \in Waits /\ late' = [late EXCEPT ![sentence] = TRUE]
  PROVE  OwnSentenceOnly' /\ RowsUnlessLate'
<1>1. OwnSentenceOnly' BY DEF OwnSentenceOnly
<1>2. \A s \in 1 .. Len(forest) : s \in 1 .. Sentences /\ (~late'[s] => ~late[s])
  BY SessionAssumption, LenProperties DEF CallTypeOK
<1>3. RowsUnlessLate' BY <1>2 DEF RowsUnlessLate, CutLine
<1> QED BY <1>1, <1>3

LEMMA InitInv == CallInit => IInv
<1> SUFFICES ASSUME CallInit PROVE IInv OBVIOUS
<1> USE SessionAssumption DEF CallInit
<1>1. CallTypeOK
  <2>1. Collects BY EmptyOnes DEF Collects
  <2>2. Counts BY EmptyOnes DEF Counts, Place
  <2>3. pause \in SleepingTime BY DEF SleepingTime
  <2> QED BY <2>1, <2>2, <2>3 DEF CallTypeOK, Counts, Collects
<1>2. Progress BY DEF Progress, Sends, Waits
<1> QED BY <1>1, <1>2
    DEF IInv, OwnSocket, NothingAskedWhenDown, InOrder, OwnSentenceOnly, RowsUnlessLate

LEMMA ParseRecordInv ==
  ASSUME IInv, NEW r \in Record, ParseRecord(r)
  PROVE  IInv'
<1> USE SessionAssumption DEF IInv, ParseRecord
<1>1. CallTypeOK'
  <2>1. Collects' BY EmptyOnes DEF Collects
  <2>2. Counts'
    <3>1. Len(forest') = 0 BY EmptyOnes
    <3>2. /\ current' = r /\ sentence' = 1 /\ place' = "start" /\ socket' = "none"
          /\ late' = [s \in 1 .. Sentences |-> FALSE]
      OBVIOUS
    <3> HIDE DEF ParseRecord
    <3> QED BY <3>1, <3>2 DEF Counts, Place
  <2>3. (pause \in SleepingTime)' BY TypeParts
  <2> QED BY <2>1, <2>2, <2>3 DEF CallTypeOK, Counts, Collects
<1>2. Progress' BY DEF Progress, Sends, Waits
<1>3. OwnSocket' BY AboutNothing DEF OwnSocket
<1>4. NothingAskedWhenDown' BY DEF NothingAskedWhenDown
<1>5. InOrder' BY DEF InOrder, HelloInOrder, RowsInOrder, Sends
<1>6. OwnSentenceOnly' /\ RowsUnlessLate' BY DEF OwnSentenceOnly, RowsUnlessLate
<1> QED BY <1>1, <1>2, <1>3, <1>4, <1>5, <1>6

LEMMA StartSessionInv == IInv /\ StartSession => IInv'
<1> SUFFICES ASSUME IInv, StartSession PROVE IInv' OBVIOUS
<1> USE DEF IInv
<1>1. /\ place = "start" /\ place' \in {"send hello", "failed"} /\ socket' \in {"up", "none"}
      /\ UNCHANGED <<current, sentence, output, forest, late>>
  BY DEF StartSession
<1>2. asked' = << >> /\ inbox' = << >> BY DEF StartSession
<1>3. CallTypeOK'
  <2> USE TypeParts
  <2>1. Collects' BY <1>1, <1>2, EmptyOnes DEF Collects
  <2>2. Counts' BY <1>1 DEF Counts, Place
  <2>3. pause' \in SleepingTime
    <3>1. pause' = 100 \/ pause' = pause BY DEF StartSession
    <3> QED BY <3>1 DEF SleepingTime
  <2> QED BY <2>1, <2>2, <2>3 DEF CallTypeOK, Counts, Collects
<1>4. Progress' BY <1>1 DEF Progress, Sends, Waits
<1>5. OwnSocket' BY <1>1, <1>2, AboutNothing DEF OwnSocket
<1>6. NothingAskedWhenDown' BY <1>2 DEF NothingAskedWhenDown
<1>7. InOrder' BY <1>1, <1>2 DEF InOrder, HelloInOrder, RowsInOrder
<1>8. OwnSentenceOnly' /\ RowsUnlessLate' BY <1>1, ForestKept
<1> QED BY <1>3, <1>4, <1>5, <1>6, <1>7, <1>8

LEMMA SendInv ==
  ASSUME IInv, NEW request \in Waits, Send(request)
  PROVE  IInv'
<1> USE DEF IInv
<1>1. /\ place \in Sends /\ place' = request /\ request \in {"hello", "text"} /\ output' = << >>
      /\ asked' = (IF socket = "up" THEN Append(asked, request) ELSE asked)
      /\ UNCHANGED <<current, sentence, socket, inbox, pause, forest, late>>
  BY SendingFacts DEF Send, Waits
<1>2. CallTypeOK'
  <2>1. asked \in Seq({"hello", "text"}) BY DEF CallTypeOK
  <2>2. asked' \in Seq({"hello", "text"}) BY <1>1, <2>1
  <2>3. Collects' BY <1>1, <2>2, TypeParts, EmptyOnes DEF Collects
  <2>4. Counts' BY <1>1, TypeParts DEF Counts, Place, Sends
  <2> QED BY <1>1, <2>3, <2>4, TypeParts DEF CallTypeOK, Counts, Collects
<1>3. Progress' BY <1>1 DEF Progress, Waits, Sends
<1>4. OwnSocket' BY <1>1, AboutNothing DEF OwnSocket
<1>5. NothingAskedWhenDown' BY <1>1 DEF NothingAskedWhenDown
<1>6. InOrder'
  <2> SUFFICES ASSUME current # None, ~late[sentence] PROVE HelloInOrder' /\ RowsInOrder'
    BY <1>1 DEF InOrder
  <2>1. asked = << >> /\ inbox = << >> BY <1>1 DEF InOrder, HelloInOrder
  <2>2. Append(<< >>, request) = <<request>> OBVIOUS
  <2>3. asked' \in {<< >>, <<request>>} BY <1>1, <2>1, <2>2
  <2>4. HelloInOrder' BY <1>1, <2>1, <2>3 DEF HelloInOrder, Sends
  <2>5. RowsInOrder' BY <1>1, <2>1, <2>3, SessionAssumption DEF RowsInOrder
  <2> QED BY <2>4, <2>5
<1>7. OwnSentenceOnly' /\ RowsUnlessLate' BY <1>1, ForestKept
<1> QED BY <1>2, <1>3, <1>4, <1>5, <1>6, <1>7

LEMMA ReadHelloInv == IInv /\ ReadHello => IInv'
<1> SUFFICES ASSUME IInv, ReadHello PROVE IInv' OBVIOUS
<1> USE DEF IInv
<1>1. /\ place = "hello" /\ place' = "send text" /\ output' = << >>
      /\ \/ inbox # << >> /\ inbox' = Tail(inbox)
         \/ inbox = << >> /\ socket = "ended" /\ inbox' = inbox
      /\ UNCHANGED <<current, sentence, forest, late, socket, asked>>
  BY DEF ReadHello, GoOn
<1>2. inbox \in Seq(Line) /\ current # None BY <1>1, TypeParts DEF Collects, Counts
<1>3. About(inbox, current, sentence) BY <1>2 DEF OwnSocket
<1>4. inbox' \in Seq(Line) /\ About(inbox', current, sentence)
  <2>1. CASE inbox # << >> /\ inbox' = Tail(inbox)
    <3>1. Tail(inbox) \in Seq(Line) /\ About(Tail(inbox), current, sentence)
      BY <1>2, <1>3, <2>1, AboutFacts
    <3> QED BY <2>1, <3>1
  <2>2. CASE inbox' = inbox BY <1>2, <1>3, <2>2
  <2> QED BY <1>1, <2>1, <2>2
<1>5. CallTypeOK'
  <2>1. pause' \in SleepingTime BY DEF ReadHello, GoOn, SleepingTime
  <2>2. Collects' BY <1>1, <1>4, TypeParts, EmptyOnes DEF Collects
  <2>3. Counts' BY <1>1, TypeParts DEF Counts, Place
  <2> QED BY <2>1, <2>2, <2>3 DEF CallTypeOK, Counts, Collects
<1>6. Progress' BY <1>1 DEF Progress, Sends, Waits
<1>7. OwnSocket' BY <1>1, <1>4, AboutNothing DEF OwnSocket
<1>8. NothingAskedWhenDown' BY <1>1 DEF NothingAskedWhenDown
<1>9. InOrder'
  <2> SUFFICES ASSUME ~late[sentence] PROVE HelloInOrder' /\ RowsInOrder'
    BY <1>1 DEF InOrder
  <2>1. HelloInOrder BY <1>2 DEF InOrder
  <2>2. asked = << >> /\ inbox' = << >>
    <3>1. CASE inbox = << >> /\ socket = "ended" /\ inbox' = inbox
      BY <3>1 DEF NothingAskedWhenDown
    <3>2. CASE inbox # << >> /\ inbox' = Tail(inbox)
      <4>1. /\ asked = << >>
            /\ inbox \in {<<HelloLine>>, <<CutLine(current, sentence)>>}
        BY <1>1, <2>1, <3>2 DEF HelloInOrder
      <4>2. Len(inbox) = 1 BY <4>1
      <4>3. inbox' \in Seq(Line) /\ Len(inbox') = 0
        BY <1>2, <1>3, <3>2, <4>2, AboutFacts
      <4> QED BY <4>1, <4>3, EmptySeq
    <3> QED BY <1>1, <3>1, <3>2
  <2> QED BY <1>1, <2>2 DEF HelloInOrder, RowsInOrder
<1>10. OwnSentenceOnly' /\ RowsUnlessLate' BY <1>1, ForestKept
<1> QED BY <1>5, <1>6, <1>7, <1>8, <1>9, <1>10

LEMMA ReadRowInv == IInv /\ ReadRow => IInv'
<1> SUFFICES ASSUME IInv, ReadRow PROVE IInv' OBVIOUS
<1> USE DEF IInv
<1>0. /\ place = "text" /\ inbox # << >> /\ ~EndOf(Head(inbox))
      /\ output' = Append(output, Head(inbox)) /\ inbox' = Tail(inbox)
      /\ UNCHANGED <<current, sentence, place, socket, asked, pause, forest, late>>
  BY DEF ReadRow
<1>1. /\ inbox \in Seq(Line) /\ output \in Seq(Line) /\ current # None
      /\ About(inbox, current, sentence) /\ About(output, current, sentence)
  BY <1>0 DEF CallTypeOK, OwnSocket
<1>2. /\ inbox' \in Seq(Line) /\ About(inbox', current, sentence)
      /\ Len(inbox') = Len(inbox) - 1 /\ Len(inbox) \in Nat /\ Len(inbox) > 0
      /\ \A i \in 1 .. Len(inbox) - 1 : inbox'[i] = inbox[i + 1]
      /\ Head(inbox) = inbox[1] /\ Head(inbox) \in Line
      /\ Head(inbox)[1] = current /\ Head(inbox)[2] = sentence
  BY <1>0, <1>1, AboutFacts, EmptySeq
<1>3. /\ output' \in Seq(Line) /\ About(output', current, sentence)
      /\ Len(output) \in Nat /\ Len(output') = Len(output) + 1
      /\ \A i \in 1 .. Len(output) : output'[i] = output[i]
      /\ output'[Len(output) + 1] = Head(inbox)
  <2>1. output' = Append(output, Head(inbox)) BY <1>0
  <2>2. output' \in Seq(Line) /\ About(output', current, sentence)
    BY <1>1, <1>2, <2>1, AboutFacts
  <2> QED BY <1>1, <1>2, <2>1, <2>2
<1>4. CallTypeOK' BY <1>0, <1>2, <1>3 DEF CallTypeOK
<1>5. Progress' BY <1>0 DEF Progress
<1>6. OwnSocket' BY <1>0, <1>2, <1>3 DEF OwnSocket
<1>7. NothingAskedWhenDown' BY <1>0 DEF NothingAskedWhenDown
<1>8. InOrder'
  <2> SUFFICES ASSUME ~late[sentence] PROVE HelloInOrder' /\ RowsInOrder'
    BY <1>0 DEF InOrder
  <2>1. RowsInOrder BY <1>1 DEF InOrder
  <2>2. asked = << >> BY <1>0, <2>1 DEF RowsInOrder
  <2>3. /\ Len(output) <= Rows /\ Len(output) + Len(inbox) <= Rows + 1
        /\ \A i \in 1 .. Len(output) : output[i] = <<current, sentence, i>>
        /\ \A i \in 1 .. Len(inbox) :
             \/ inbox[i] = <<current, sentence, Len(output) + i>>
             \/ /\ i = Len(inbox) /\ Len(output) + i <= Rows
                /\ inbox[i] = CutLine(current, sentence)
    BY <1>0, <2>1 DEF RowsInOrder
  <2>4. Len(output) + 1 <= Rows
    <3>1. 1 \in 1 .. Len(inbox) BY <1>2
    <3>2. CASE inbox[1] = <<current, sentence, Len(output) + 1>>
      <4>1. Len(output) + 1 # Rows + 1 BY <1>0, <1>2, <3>2 DEF EndOf
      <4>2. Len(output) \in Nat /\ Len(output) <= Rows BY <1>3, <2>3
      <4> HIDE DEF IInv
      <4> QED BY <4>1, <4>2, SessionAssumption
    <3> QED BY <2>3, <3>1, <3>2
  <2>5. Len(output') <= Rows /\ Len(output') + Len(inbox') <= Rows + 1
    <3> HIDE DEF IInv
    <3> QED BY <1>2, <1>3, <2>3, <2>4, SessionAssumption
  <2>6. ASSUME NEW i \in 1 .. Len(output')
        PROVE  \/ output'[i] = <<current, sentence, i>>
               \/ /\ i = Len(output') /\ inbox' = << >>
                  /\ output'[i] = CutLine(current, sentence)
    <3>1. CASE i \in 1 .. Len(output) BY <1>3, <2>3, <3>1
    <3>2. CASE i = Len(output) + 1
      <4>1. 1 \in 1 .. Len(inbox) /\ output'[i] = inbox[1] BY <1>2, <1>3, <3>2
      <4>2. CASE inbox[1] = <<current, sentence, Len(output) + 1>> BY <3>2, <4>1, <4>2
      <4>3. CASE 1 = Len(inbox) /\ inbox[1] = CutLine(current, sentence)
        <5>1. Len(inbox') = 0
          <6>1. Len(inbox') = Len(inbox) - 1 BY <1>2
          <6>2. Len(inbox) = 1 BY <4>3
          <6> QED BY <6>1, <6>2
        <5>2. inbox' = << >> BY <1>2, <5>1, EmptySeq
        <5> QED BY <1>3, <3>2, <4>1, <4>3, <5>2
      <4> QED BY <2>3, <4>1, <4>2, <4>3
    <3> QED BY <1>3, <3>1, <3>2
  <2>7. ASSUME NEW i \in 1 .. Len(inbox')
        PROVE  \/ inbox'[i] = <<current, sentence, Len(output') + i>>
               \/ /\ i = Len(inbox') /\ Len(output') + i <= Rows
                  /\ inbox'[i] = CutLine(current, sentence)
    <3>1. i + 1 \in 1 .. Len(inbox) /\ i \in 1 .. Len(inbox) - 1 BY <1>2
    <3>2. inbox'[i] = inbox[i + 1] BY <1>2, <3>1
    <3>3. Len(output) + (i + 1) = Len(output') + i BY <1>3, <3>1
    <3>4. i + 1 = Len(inbox) => i = Len(inbox') BY <1>2, <3>1
    <3> HIDE DEF IInv
    <3> QED BY <2>3, <3>1, <3>2, <3>3, <3>4
  <2>8. RowsInOrder'
    BY <1>0, <2>2, <2>5, <2>6, <2>7 DEF RowsInOrder, CutLine
  <2> QED BY <1>0, <2>8 DEF HelloInOrder, Sends
<1>9. OwnSentenceOnly' /\ RowsUnlessLate' BY <1>0, ForestKept
<1> QED BY <1>4, <1>5, <1>6, <1>7, <1>8, <1>9

(* One more sentence is converted, from what was read in its session. *)
LEMMA ReadEndInv == IInv /\ ReadEnd => IInv'
<1> SUFFICES ASSUME IInv, ReadEnd PROVE IInv' OBVIOUS
<1> USE DEF IInv
<1>1. /\ place = "text" /\ socket' = "none" /\ UNCHANGED <<current, pause, late>>
      /\ \/ /\ forest' = Append(forest, output)
            /\ \/ sentence = Sentences /\ place' = "forest" /\ sentence' = sentence
               \/ sentence # Sentences /\ place' = "start" /\ sentence' = sentence + 1
         \/ place' = "failed" /\ UNCHANGED <<sentence, forest>>
  BY DEF ReadEnd, Convert
<1>2. asked' = << >> /\ inbox' = << >> /\ output' = << >> BY DEF ReadEnd
<1>3. /\ current \in Record /\ current # None /\ sentence \in 1 .. Sentences
      /\ output \in Seq(Line) /\ forest \in Seq(Seq(Line)) /\ Len(forest) = sentence - 1
      /\ About(output, current, sentence)
  BY <1>1, TypeParts DEF Counts, Collects, Progress, Waits, OwnSocket
<1>4. /\ Append(forest, output) \in Seq(Seq(Line))
      /\ Len(Append(forest, output)) = sentence
      /\ \A s \in 1 .. sentence - 1 : Append(forest, output)[s] = forest[s]
      /\ Append(forest, output)[sentence] = output
  BY <1>3
<1>5. CallTypeOK'
  <2>1. Collects' BY <1>1, <1>2, <1>3, <1>4, EmptyOnes DEF Collects
  <2>2. Counts'
    <3>1. Len(forest') <= Sentences /\ sentence' \in 1 .. Sentences
      BY <1>1, <1>3, <1>4, SessionAssumption
    <3> QED BY <1>1, <1>3, <3>1, TypeParts DEF Counts, Place
  <2>3. (pause \in SleepingTime)' BY <1>1, TypeParts
  <2> QED BY <2>1, <2>2, <2>3 DEF CallTypeOK, Counts, Collects
<1>6. Progress'
  <2>1. /\ place' = "forest" => Len(forest') = sentence'
        /\ place' \in {"start", "failed"} => Len(forest') = sentence' - 1
    BY <1>1, <1>3, <1>4
  <2>2. place' \in {"forest", "start", "failed"} BY <1>1
  <2> QED BY <2>1, <2>2 DEF Progress, Sends, Waits
<1>7. OwnSocket' BY <1>2, AboutNothing DEF OwnSocket
<1>8. NothingAskedWhenDown' BY <1>2 DEF NothingAskedWhenDown
<1>9. InOrder' BY <1>1 DEF InOrder, HelloInOrder, RowsInOrder, Sends
<1>10. CASE UNCHANGED forest BY <1>1, <1>5, <1>6, <1>7, <1>8, <1>9, <1>10, ForestKept
<1>11. CASE forest' = Append(forest, output)
  <2>1. \A s \in 1 .. Len(forest') : s \in 1 .. Len(forest) \/ s = sentence
    BY <1>3, <1>4, <1>11
  <2>2. /\ \A s \in 1 .. Len(forest) : forest'[s] = forest[s]
        /\ forest'[sentence] = output
    BY <1>3, <1>4, <1>11
  <2>3. OwnSentenceOnly'
    BY <1>1, <1>3, <2>1, <2>2 DEF OwnSentenceOnly, About
  <2>4. ASSUME ~late[sentence]
        PROVE  /\ Len(output) <= Rows
               /\ \A i \in 1 .. Len(output) :
                    \/ output[i] = <<current, sentence, i>>
                    \/ i = Len(output) /\ output[i] = CutLine(current, sentence)
    BY <1>1, <1>3, <2>4 DEF InOrder, RowsInOrder
  <2>5. RowsUnlessLate'
    <3> SUFFICES ASSUME NEW s \in 1 .. Len(forest'), ~late[s]
                 PROVE  /\ Len(forest'[s]) <= Rows
                        /\ \A i \in 1 .. Len(forest'[s]) :
                             \/ forest'[s][i] = <<current, s, i>>
                             \/ /\ i = Len(forest'[s])
                                /\ forest'[s][i] = CutLine(current, s)
      BY <1>1 DEF RowsUnlessLate, CutLine
    <3>1. CASE s \in 1 .. Len(forest) BY <1>3, <2>2, <3>1 DEF RowsUnlessLate
    <3>2. CASE s = sentence BY <2>2, <2>4, <3>2
    <3> QED BY <2>1, <3>1, <3>2
  <2> QED BY <1>5, <1>6, <1>7, <1>8, <1>9, <2>3, <2>5
<1> QED BY <1>1, <1>10, <1>11

LEMMA ReadFailsInv == IInv /\ ReadFails => IInv'
<1> SUFFICES ASSUME IInv, ReadFails PROVE IInv' OBVIOUS
<1> USE DEF IInv
<1>1. /\ place \in Waits /\ inbox = << >>
      /\ \/ late' = [late EXCEPT ![sentence] = TRUE]
         \/ socket = "reset" /\ late' = late
      /\ UNCHANGED <<socket, asked, inbox, current, sentence, output, forest>>
  BY DEF ReadFails, SleepOrThrow, Waits
<1>2. place' = "failed" \/ place' \in Sends
  BY <1>1, SendingFacts DEF ReadFails, SleepOrThrow
<1>3. pause' \in SleepingTime
  <2>1. IF pause > 1000 THEN pause' = pause ELSE pause' = 2 * pause
    BY DEF ReadFails, SleepOrThrow, Retries
  <2>2. pause \in SleepingTime BY TypeParts
  <2> HIDE DEF IInv
  <2> QED BY <2>1, <2>2 DEF SleepingTime
<1>4. CallTypeOK'
  <2>1. Collects' BY <1>1, TypeParts DEF Collects
  <2>2. Counts' BY <1>1, <1>2, TypeParts DEF Counts, Place, Sends, Waits
  <2> QED BY <1>3, <2>1, <2>2 DEF CallTypeOK, Counts, Collects
<1>5. Progress' BY <1>1, <1>2 DEF Progress, Sends
<1>6. OwnSocket' BY <1>1 DEF OwnSocket, About
<1>7. NothingAskedWhenDown' BY <1>1 DEF NothingAskedWhenDown
<1>8. InOrder'
  <2>1. sentence \in 1 .. Sentences /\ late \in [1 .. Sentences -> BOOLEAN]
    BY TypeParts DEF Counts
  <2>2. CASE late' = [late EXCEPT ![sentence] = TRUE] BY <1>1, <2>1, <2>2 DEF InOrder
  <2>3. CASE socket = "reset" /\ late' = late
    <3>1. asked = << >> BY <2>3 DEF NothingAskedWhenDown
    <3> QED BY <1>1, <1>2, <3>1 DEF InOrder, HelloInOrder, RowsInOrder, Sends
  <2> QED BY <1>1, <2>2, <2>3
<1>9. OwnSentenceOnly' /\ RowsUnlessLate' BY <1>1, ForestKept
<1> QED BY <1>4, <1>5, <1>6, <1>7, <1>8, <1>9

LEMMA ReturnInv == IInv /\ Return => IInv'
<1> SUFFICES ASSUME IInv, Return PROVE IInv' OBVIOUS
<1> USE DEF IInv, Return
<1>1. CallTypeOK'
  <2>1. Collects' BY TypeParts DEF Collects
  <2>2. Counts' BY TypeParts DEF Counts, Place
  <2>3. (pause \in SleepingTime)' BY TypeParts
  <2> QED BY <2>1, <2>2, <2>3 DEF CallTypeOK, Counts, Collects
<1>2. Progress' BY DEF Progress, Sends, Waits
<1>3. NothingAskedWhenDown' BY DEF NothingAskedWhenDown
<1> QED BY <1>1, <1>2, <1>3 DEF OwnSocket, InOrder, OwnSentenceOnly, RowsUnlessLate

(* An answer that comes late is still about the sentence whose session it is. *)
LEMMA ServerAnswersInv == IInv /\ ServerAnswers => IInv'
<1> SUFFICES ASSUME IInv, ServerAnswers PROVE IInv' OBVIOUS
<1> USE DEF IInv
<1>1. /\ socket = "up" /\ asked # << >> /\ current # None
      /\ inbox' = inbox \o LinesFor(Head(asked)) /\ asked' = Tail(asked)
      /\ UNCHANGED <<current, sentence, place, socket, output, pause, forest, late>>
  BY DEF ServerAnswers
<1> DEFINE lines == LinesFor(Head(asked))
<1>2. /\ current \in Record /\ sentence \in 1 .. Sentences
      /\ inbox \in Seq(Line) /\ asked \in Seq({"hello", "text"})
      /\ About(inbox, current, sentence)
  BY <1>1, TypeParts DEF Counts, Collects, OwnSocket
<1>3. Head(asked) \in Waits /\ Tail(asked) \in Seq({"hello", "text"}) BY <1>1, <1>2 DEF Waits
<1>4. lines \in Seq(Line) /\ About(lines, current, sentence) BY <1>2, <1>3, LinesForFacts
<1>5. inbox' \in Seq(Line) /\ About(inbox', current, sentence)
  <2> HIDE DEF lines
  <2>1. inbox' = inbox \o lines BY <1>1 DEF lines
  <2> QED BY <1>2, <1>4, <2>1, AboutFacts
<1>6. CallTypeOK'
  <2>1. Collects' BY <1>1, <1>3, <1>5, TypeParts DEF Collects
  <2>2. Counts' BY <1>1, TypeParts DEF Counts
  <2>3. (pause \in SleepingTime)' BY <1>1, TypeParts
  <2> QED BY <2>1, <2>2, <2>3 DEF CallTypeOK, Counts, Collects
<1>7. Progress' BY <1>1 DEF Progress
<1>8. OwnSocket' BY <1>1, <1>5 DEF OwnSocket
<1>9. NothingAskedWhenDown' BY <1>1 DEF NothingAskedWhenDown
<1>10. InOrder'
  <2> SUFFICES ASSUME ~late[sentence] PROVE HelloInOrder' /\ RowsInOrder'
    BY <1>1 DEF InOrder
  <2>1. HelloInOrder /\ RowsInOrder BY <1>1 DEF InOrder
  <2>2. ASSUME inbox = << >>, NEW request \in Waits, asked = <<request>>
        PROVE  asked' = << >> /\ inbox' = LinesFor(request)
    <3>1. Head(asked) = request /\ Tail(asked) = << >> BY <2>2
    <3>2. LinesFor(request) \in Seq(Line) BY <1>4, <3>1
    <3>3. << >> \o LinesFor(request) = LinesFor(request)
      <4> HIDE DEF LinesFor
      <4> QED BY <3>2, ConcatEmptySeq
    <3> QED BY <1>1, <2>2, <3>1, <3>3
  <2>3. CASE place = "hello"
    <3>1. asked = <<"hello">> /\ inbox = << >> BY <1>1, <2>1, <2>3 DEF HelloInOrder
    <3>2. asked' = << >> /\ inbox' = LinesFor("hello") BY <2>2, <3>1 DEF Waits
    <3>3. inbox' = <<HelloLine>> BY <3>2 DEF LinesFor
    <3>4. HelloLine' = HelloLine BY <1>1 DEF HelloLine
    <3> QED BY <1>1, <2>3, <3>2, <3>3, <3>4 DEF HelloInOrder, RowsInOrder, Sends
  <2>4. CASE place = "text"
    <3>1. asked = <<"text">> /\ inbox = << >> /\ output = << >>
      BY <1>1, <2>1, <2>4 DEF RowsInOrder
    <3>2. asked' = << >> /\ inbox' = LinesFor("text") BY <2>2, <3>1 DEF Waits
    <3>3. /\ Len(inbox') = Rows + 1
          /\ \A i \in 1 .. Rows + 1 : inbox'[i] = <<current, sentence, i>>
      BY <1>2, <3>2, LinesForFacts DEF Waits
    <3>4. Len(output) = 0 BY <3>1
    <3>5. RowsInOrder'
      <4>1. \A i \in 1 .. Len(inbox') : inbox'[i] = <<current, sentence, Len(output) + i>>
        BY <3>3, <3>4, SessionAssumption
      <4>2. Len(output) <= Rows /\ Len(output) + Len(inbox') <= Rows + 1
        BY <3>3, <3>4, SessionAssumption
      <4>3. \A i \in 1 .. Len(output) : output[i] = <<current, sentence, i>> BY <3>4
      <4> QED BY <1>1, <3>2, <4>1, <4>2, <4>3 DEF RowsInOrder, CutLine
    <3> QED BY <1>1, <2>4, <3>5 DEF HelloInOrder, Sends
  <2>5. CASE place \notin Waits
    <3>1. place \notin Sends BY <1>1, <2>1 DEF HelloInOrder
    <3> QED BY <1>1, <2>5, <3>1 DEF HelloInOrder, RowsInOrder, Waits
  <2> QED BY <2>3, <2>4, <2>5 DEF Waits
<1>11. OwnSentenceOnly' /\ RowsUnlessLate' BY <1>1, ForestKept
<1> QED BY <1>6, <1>7, <1>8, <1>9, <1>10, <1>11

LEMMA ServerEndsInv == IInv /\ ServerEnds => IInv'
<1> SUFFICES ASSUME IInv, ServerEnds PROVE IInv' OBVIOUS
<1> USE DEF IInv
<1>1. /\ current # None /\ socket' \in Ends /\ asked' = << >>
      /\ UNCHANGED <<current, sentence, place, output, pause, forest, late>>
  BY DEF ServerEnds
<1>2. PICK n \in 0 .. Len(inbox) :
        \/ inbox' = SubSeq(inbox, 1, n)
        \/ /\ n < Len(inbox) /\ ~EndOf(inbox[n + 1])
           /\ inbox' = Append(SubSeq(inbox, 1, n), CutLine(current, sentence))
  BY DEF ServerEnds
<1>3. /\ inbox \in Seq(Line) /\ About(inbox, current, sentence)
      /\ current \in Record /\ sentence \in 1 .. Sentences
  BY <1>1, TypeParts DEF Collects, Counts, OwnSocket
<1> DEFINE first == SubSeq(inbox, 1, n)
           line == CutLine(current, sentence)
<1>f. /\ first \in Seq(Line) /\ About(first, current, sentence) /\ Len(first) = n
      /\ \A i \in 1 .. n : first[i] = inbox[i]
      /\ Len(inbox) \in Nat
  BY <1>3, AboutFacts
<1>l. line \in Line /\ line[1] = current /\ line[2] = sentence
  BY <1>3, SessionAssumption DEF CutLine, Line
<1>a. /\ Append(first, line) \in Seq(Line)
      /\ About(Append(first, line), current, sentence)
      /\ Len(Append(first, line)) = n + 1 /\ Append(first, line)[n + 1] = line
      /\ \A i \in 1 .. n : Append(first, line)[i] = inbox[i]
  <2> HIDE DEF first, line
  <2>1. /\ Append(first, line) \in Seq(Line)
        /\ About(Append(first, line), current, sentence)
    BY <1>f, <1>l, AboutFacts
  <2> QED BY <1>f, <1>l, <2>1
<1>4. inbox' \in Seq(Line) /\ About(inbox', current, sentence)
  BY <1>2, <1>f, <1>a
<1>5. CallTypeOK'
  <2>1. Collects' BY <1>1, <1>4, TypeParts, EmptyOnes DEF Collects
  <2>2. Counts' BY <1>1, SessionAssumption, TypeParts DEF Counts
  <2>3. (pause \in SleepingTime)' BY <1>1, TypeParts
  <2> QED BY <2>1, <2>2, <2>3 DEF CallTypeOK, Counts, Collects
<1>6. Progress' BY <1>1 DEF Progress
<1>7. OwnSocket' BY <1>1, <1>4 DEF OwnSocket
<1>8. NothingAskedWhenDown' BY <1>1 DEF NothingAskedWhenDown
<1>9. InOrder'
  <2> SUFFICES ASSUME ~late[sentence] PROVE HelloInOrder' /\ RowsInOrder'
    BY <1>1 DEF InOrder
  <2>1. HelloInOrder /\ RowsInOrder BY <1>1 DEF InOrder
  <2>2. inbox = << >> => inbox' = << >>
    <3> SUFFICES ASSUME inbox = << >> PROVE inbox' = << >> OBVIOUS
    <3>1. Len(inbox) = 0 BY EmptyOnes
    <3>2. n = 0 /\ ~(n < Len(inbox)) BY <3>1
    <3>3. inbox' = first /\ Len(first) = 0 BY <1>2, <1>f, <3>2
    <3> QED BY <1>f, <3>3, EmptySeq
  <2>3. inbox \in {<<HelloLine>>, <<line>>} => inbox' \in {<< >>, inbox, <<line>>}
    <3> SUFFICES ASSUME Len(inbox) = 1 PROVE inbox' \in {<< >>, inbox, <<line>>} OBVIOUS
    <3>1. CASE n = 0
      <4>1. first = << >> BY <1>f, <3>1, EmptySeq
      <4>2. Append(<< >>, line) = <<line>> BY DEF line
      <4> QED BY <1>2, <4>1, <4>2
    <3>2. CASE n = 1
      <4>1. inbox' = first BY <1>2, <3>2
      <4>2. first = inbox BY <1>3, <1>f, <3>2, SeqEqual
      <4> QED BY <4>1, <4>2
    <3> QED BY <3>1, <3>2
  <2>4. HelloLine' = HelloLine BY <1>1 DEF HelloLine
  <2>5. HelloInOrder'
    <3> HIDE DEF IInv
    <3> QED BY <1>1, <2>1, <2>2, <2>3, <2>4 DEF HelloInOrder, CutLine
  <2>6. RowsInOrder'
    <3> SUFFICES ASSUME place = "text" PROVE RowsInOrder' BY <1>1 DEF RowsInOrder
    <3>1. Len(output) \in Nat /\ Len(inbox) \in Nat
      BY <1>3, TypeParts, LenProperties DEF Collects
    <3>2. /\ asked' = << >> /\ Len(output) <= Rows
          /\ Len(output) + Len(inbox) <= Rows + 1
          /\ \A i \in 1 .. Len(output) :
               \/ output[i] = <<current, sentence, i>>
               \/ i = Len(output) /\ inbox = << >> /\ output[i] = line
          /\ \A i \in 1 .. Len(inbox) :
               \/ inbox[i] = <<current, sentence, Len(output) + i>>
               \/ i = Len(inbox) /\ Len(output) + i <= Rows /\ inbox[i] = line
      BY <1>1, <2>1 DEF RowsInOrder
    <3> SUFFICES /\ Len(output) + Len(inbox') <= Rows + 1
                 /\ \A i \in 1 .. Len(inbox') :
                      \/ inbox'[i] = <<current, sentence, Len(output) + i>>
                      \/ i = Len(inbox') /\ Len(output) + i <= Rows /\ inbox'[i] = line
      BY <1>1, <2>2, <3>2 DEF RowsInOrder, CutLine
    <3> HIDE DEF IInv, line, first
    <3>3. CASE inbox' = first
      <4>1. Len(inbox') = n /\ \A i \in 1 .. n : inbox'[i] = inbox[i] BY <1>f, <3>3
      <4>2. n <= Len(inbox) /\ \A i \in 1 .. n : i \in 1 .. Len(inbox) BY <3>1
      <4>3. \A i \in 1 .. n : i = Len(inbox) => i = n BY <3>1
      <4>4. Len(output) + n <= Rows + 1 BY <3>1, <3>2, <4>2, SessionAssumption
      <4> QED BY <3>2, <4>1, <4>2, <4>3, <4>4
    <3>4. CASE /\ n < Len(inbox) /\ ~EndOf(inbox[n + 1])
               /\ inbox' = Append(first, line)
      <4>1. /\ Len(inbox') = n + 1 /\ inbox'[n + 1] = line
            /\ \A i \in 1 .. n : inbox'[i] = inbox[i]
        BY <1>a, <3>4
      <4>2. n + 1 \in 1 .. Len(inbox) BY <3>1, <3>4
      <4>3. Len(output) + (n + 1) <= Rows
        <5>1. CASE inbox[n + 1] = <<current, sentence, Len(output) + (n + 1)>>
          <6>1. Len(output) + (n + 1) # Rows + 1 BY <3>4, <5>1 DEF EndOf
          <6> QED BY <3>1, <3>2, <4>2, <6>1, SessionAssumption
        <5> QED BY <3>2, <4>2, <5>1
      <4>4. \A i \in 1 .. n : i \in 1 .. Len(inbox) /\ i # Len(inbox) BY <3>1, <3>4
      <4>5. \A i \in 1 .. n : inbox'[i] = <<current, sentence, Len(output) + i>>
        BY <3>2, <4>1, <4>4
      <4>6. \A i \in 1 .. Len(inbox') : i \in 1 .. n \/ i = n + 1 BY <4>1
      <4> QED BY <3>1, <4>1, <4>3, <4>5, <4>6, SessionAssumption
    <3> QED BY <1>2, <3>3, <3>4 DEF first, line
  <2> QED BY <2>5, <2>6
<1>10. OwnSentenceOnly' /\ RowsUnlessLate' BY <1>1, ForestKept
<1> QED BY <1>5, <1>6, <1>7, <1>8, <1>9, <1>10

LEMMA NextInv == IInv /\ [CallNext]_callVars => IInv'
<1> SUFFICES ASSUME IInv, [CallNext]_callVars PROVE IInv' OBVIOUS
<1>1. CASE UNCHANGED callVars
  <2> USE <1>1 DEF callVars, IInv
  <2>1. CallTypeOK' /\ Progress' BY DEF CallTypeOK, Progress
  <2>2. OwnSocket' /\ NothingAskedWhenDown' BY DEF OwnSocket, About, NothingAskedWhenDown
  <2>3. InOrder' BY DEF InOrder, HelloInOrder, RowsInOrder, HelloLine, CutLine
  <2>4. OwnSentenceOnly' /\ RowsUnlessLate' BY ForestKept
  <2> QED BY <2>1, <2>2, <2>3, <2>4
<1>2. CASE Send("hello") \/ Send("text") BY <1>2, SendInv DEF Waits
<1> QED BY <1>1, <1>2, ParseRecordInv, StartSessionInv, ReadHelloInv, ReadRowInv, ReadEndInv,
           ReadFailsInv, ReturnInv, ServerAnswersInv, ServerEndsInv
        DEF CallNext, Client

-----------------------------------------------------------------------------
LEMMA Inductive == CallSpec => []IInv
BY InitInv, NextInv, PTL DEF CallSpec

(* The client's and the handler's variables stay what they are declared to be: getOutput
   doubles its sleeping time no more than four times, and performSRL converts no more
   sentences than there are. *)
THEOREM TypeCorrect == CallSpec => []CallTypeOK
<1>1. IInv => CallTypeOK BY DEF IInv
<1> QED BY <1>1, Inductive, PTL

(* performSRL: no tree of a sentence is made from a line about another sentence or
   record, however late an answer is and whatever was left of a session. *)
THEOREM NoStrangeLine == CallSpec => []OwnSentenceOnly
<1>1. IInv => OwnSentenceOnly BY DEF IInv
<1> QED BY <1>1, Inductive, PTL

(* performSRL: unless reading timed out in a sentence's session, its trees are made
   from the rows of the answer in order, without the handshake's line. *)
THEOREM RowsInOrderUnlessLate == CallSpec => []RowsUnlessLate
<1>1. IInv => RowsUnlessLate BY DEF IInv
<1> QED BY <1>1, Inductive, PTL
=============================================================================

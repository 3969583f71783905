------------------------------ MODULE Taggers ------------------------------
(***************************************************************************)
(* The handlers of the part-of-speech tagger and of the chunker: how the   *)
(* tokens of a record become the input of a tagger that is not in the      *)
(* repository, sentence by sentence, and its answers chunks.  What the     *)
(* tagger answers is any type; a request fails where get() throws.         *)
(***************************************************************************)
EXTENDS RecordViews

CONSTANT Kind      \* kinds of chunks

NoKind == ""
Type == [letter : {"B", "I"}, kind : Kind] \cup [letter : {"O"}, kind : {NoKind}]

VARIABLES
  lists,           \* the tokens the tagger is given, sentence by sentence
  taken,           \* how many tokens are in the lists
  types,           \* the types the chunker's tagger has answered
  chunk            \* of the chunker: [open, clabel, labels]

NoChunk == [open |-> 0, clabel |-> NoKind, labels |-> << >>]
taggersVars == <<record, lists, taken, types, chunk>>

TaggersInit ==
  /\ RecordInit
  /\ lists = << >> /\ taken = 0 /\ types = << >>
  /\ chunk = NoChunk

-----------------------------------------------------------------------------
\* IllinoisPOSHandler.tokensAsStrings: sentences.get(0).
PosBegins ==
  /\ handler = "pos" /\ place = "asked"
  /\ IF sentences = << >> THEN place' = "failed" /\ UNCHANGED lists
     ELSE place' = "pos" /\ lists' = << << >> >>
  /\ UNCHANGED <<labelling, handler, taken, types, chunk>>

\* Mutation: a token that begins where the sentence ends is still in it.
PosTokenLate ==
  LET token == tokens[taken + 1]
      n == Len(lists)
  IN /\ place = "pos" /\ taken < Len(tokens)
     /\ \/ /\ token.start <= sentences[n].ending
           /\ lists' = [lists EXCEPT ![n] = Append(@, token)]
           /\ taken' = taken + 1 /\ UNCHANGED place
        \/ /\ token.start > sentences[n].ending /\ n < Len(sentences)
           /\ lists' = Append(lists, <<token>>)
           /\ taken' = taken + 1 /\ UNCHANGED place
        \/ /\ token.start > sentences[n].ending /\ n = Len(sentences)
           /\ place' = "failed" /\ UNCHANGED <<lists, taken>>
     /\ UNCHANGED <<labelling, handler, types, chunk>>

\* The loop's body: a token behind the sentence's end begins the next one.
PosToken ==
  LET token == tokens[taken + 1]
      n == Len(lists)
  IN /\ place = "pos" /\ taken < Len(tokens)
     /\ \/ /\ token.start < sentences[n].ending
           /\ lists' = [lists EXCEPT ![n] = Append(@, token)]
           /\ taken' = taken + 1 /\ UNCHANGED place
        \/ /\ token.start >= sentences[n].ending /\ n < Len(sentences)
           /\ lists' = Append(lists, <<token>>)
           /\ taken' = taken + 1 /\ UNCHANGED place
        \/ /\ token.start >= sentences[n].ending /\ n = Len(sentences)
           /\ place' = "failed" /\ UNCHANGED <<lists, taken>>
     /\ UNCHANGED <<labelling, handler, types, chunk>>

\* labelRecord goes on: every token has its tag.
PosEnds ==
  /\ place = "pos" /\ taken = Len(tokens)
  /\ place' = "answered"
  /\ UNCHANGED <<labelling, handler, lists, taken, types, chunk>>

-----------------------------------------------------------------------------
\* IllinoisChunkerHandler.recordToLBJTokensPos.  The pos view has the tokens' spans.
ChunkerBegins ==
  /\ handler = "chunker" /\ place = "asked"
  /\ place' = "chunker"
  /\ UNCHANGED <<labelling, handler, lists, taken, types, chunk>>

\* The tag at hand reached the end of its sentence: the do-while is left.
SentenceIsTaken == lists # << >> => tokens[taken].ending >= sentences[Len(lists)].ending

\* The body of the do-while: each sentence takes tags up to the first that reaches its
\* end, at least one.
ChunkerTag ==
  /\ place = "chunker"
  /\ ~ (SentenceIsTaken /\ Len(lists) = Len(sentences))
  /\ IF taken = Len(tokens) THEN place' = "failed" /\ UNCHANGED <<lists, taken>>
     ELSE /\ lists' = IF SentenceIsTaken THEN Append(lists, <<tokens[taken + 1]>>)
                      ELSE [lists EXCEPT ![Len(lists)] = Append(@, tokens[taken + 1])]
          /\ taken' = taken + 1
          /\ UNCHANGED place
  /\ UNCHANGED <<labelling, handler, types, chunk>>

ChunkerReads ==
  /\ place = "chunker"
  /\ SentenceIsTaken /\ Len(lists) = Len(sentences)
  /\ place' = "chunks"
  /\ UNCHANGED <<labelling, handler, lists, taken, types, chunk>>

\* Mutation: an I never begins a chunk.
BeginsChunkB(type, clabel) == type.letter = "B"

\* An I where its kind is not the current one is made a B.
BeginsChunk(type, clabel) == type.letter = "B" \/ (type.letter = "I" /\ type.kind # clabel)

ChunkLabel(kind, from, to) ==
  [label |-> kind, span |-> Span(tokens[from].start, tokens[to].ending)]

Closed(i) == Append(chunk.labels, ChunkLabel(chunk.clabel, chunk.open, i - 1))

\* The body of labelRecord's loop for a token, given the tagger's type of it.
ChunkToken(type) ==
  LET i == Len(types) + 1
      begins == BeginsChunk(type, chunk.clabel)
      closes == (begins \/ type.letter = "O") /\ chunk.open # 0
  IN /\ place = "chunks" /\ i <= taken
     /\ types' = Append(types, type)
     /\ chunk' = [open |-> IF begins THEN i ELSE IF closes THEN 0 ELSE chunk.open,
                  clabel |-> IF begins THEN type.kind ELSE chunk.clabel,
                  labels |-> IF closes THEN Closed(i) ELSE chunk.labels]
     /\ UNCHANGED <<record, lists, taken>>

ChunkerEnds ==
  /\ place = "chunks" /\ Len(types) = taken
  /\ chunk' = IF chunk.open = 0 THEN chunk
              ELSE [chunk EXCEPT !.open = 0, !.labels = Closed(Len(types) + 1)]
  /\ place' = "answered"
  /\ UNCHANGED <<labelling, handler, lists, taken, types>>

TaggersNext ==
  \/ RecordNext /\ UNCHANGED <<lists, taken, types, chunk>>
  \/ \E h \in {"pos", "chunker"} : Ask(h) /\ UNCHANGED <<lists, taken, types, chunk>>
  \/ PosBegins
  \/ PosToken
  \/ PosEnds
  \/ ChunkerBegins
  \/ ChunkerTag
  \/ ChunkerReads
  \/ \E type \in Type : ChunkToken(type)
  \/ ChunkerEnds

TaggersSpec == TaggersInit /\ [][TaggersNext]_taggersVars
-----------------------------------------------------------------------------
\* Sentences, tokens and the lists a tagger is given say the same of a text.  Each
\* character that is not blank is in one token, and each token in one sentence.  The
\* taggers, which find a sentence's tokens from where the one before it ended, come to
\* what the spans say: the tagger of IllinoisPOSHandler if no sentence is without
\* tokens, that of IllinoisChunkerHandler if no sentence ends in a blank either.
SentencesAgree ==
  place \notin {"whitespacer", "tokenizer", "splitting", "failed"} =>
    /\ \A p \in DOMAIN text :
         LET of == {w \in DOMAIN tokens : tokens[w].start < p /\ p <= tokens[w].ending} IN
         IF text[p] = Blank THEN of = {} ELSE \E w \in of : of = {w}
    /\ \A w \in DOMAIN tokens : \E i \in DOMAIN sentences :
         {j \in DOMAIN sentences : IsIn(tokens[w], sentences[j])} = {i}
    /\ /\ Answered({"pos"}) \/ place = "chunks" \/ Answered({"chunker"})
       /\ EverySentenceHasTokens
       /\ handler = "chunker" =>
            \A i \in DOMAIN sentences : TokensIn(i)[Len(TokensIn(i))].ending = sentences[i].ending
       => lists = [i \in DOMAIN sentences |-> TokensIn(i)]

\* The kind of the chunk the tagger last began before its i-th answer.
LastKind(i) ==
  LET inside == {j \in 1 .. i - 1 : types[j].letter # "O"}
  IN IF inside = {} THEN NoKind ELSE types[CHOOSE j \in inside : \A k \in inside : k <= j].kind

\* Whatever the tagger answers, in whatever order: the chunks are the runs of tokens of
\* one kind, in the text's order and apart from one another.  One begins with each B and
\* with an I of another kind than the token with a kind before it, and goes on up to the
\* next such token or O; an I behind an O that goes on with the kind of the chunk before
\* the O is in none.
ChunksAreRuns ==
  Answered({"chunker"}) =>
    LET n == Len(types)
        begins(i) == \/ types[i].letter = "B"
                     \/ types[i].letter = "I" /\ types[i].kind # LastKind(i)
        last(i) == CHOOSE j \in i .. n :
                     /\ \A k \in i + 1 .. j : types[k].letter = "I" /\ ~begins(k)
                     /\ j = n \/ begins(j + 1) \/ types[j + 1].letter = "O"
        beginnings == InOrder({i \in 1 .. n : begins(i)})
    IN chunk.labels = [c \in DOMAIN beginnings |->
         [label |-> types[beginnings[c]].kind,
          span |-> Span(tokens[beginnings[c]].start, tokens[last(beginnings[c])].ending)]]
=============================================================================

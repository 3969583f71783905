---------------------------- MODULE RecordViews ----------------------------
(***************************************************************************)
(* A record that gets its sentences and tokens.  A text comes as its       *)
(* sentences, which the Whitespacer labels while they are joined, or as it *)
(* is, for the tokenizer to label.  Then one of the annotators' handlers   *)
(* is asked for its view.  One iteration of a loop is a step.              *)
(***************************************************************************)
EXTENDS TokenViews

CONSTANTS
  Char,            \* characters of a text
  Texts,           \* texts that come as sequences of sentences
  RawTexts         \* texts that come as they are

ASSUME RecordAssumption ==
  /\ Texts \subseteq Seq(Seq(Char))
  /\ RawTexts \subseteq Seq(Char)

VARIABLES
  given,           \* the sentences that came
  text,            \* rawText
  offset,          \* of the Whitespacer
  split,           \* the words the tokenizer makes
  sentences, tokens,              \* views of the record: spans
  place,           \* where the handler is, or how it ended
  handler

labelling == <<given, text, offset, split, sentences, tokens>>
record == <<labelling, place, handler>>

RecordInit ==
  /\ \/ given \in Texts /\ text = << >> /\ place = "whitespacer"
     \/ given = << >> /\ text \in RawTexts /\ place = "tokenizer"
  /\ offset = 0 /\ split = << >> /\ sentences = << >> /\ tokens = << >>
  /\ handler = "none"

\* The loops of join, sentences and tokenize, for the next of the sentences that came.
WhitespaceSentence ==
  LET n == Len(sentences)
      sentence == given[n + 1]
      found == Words(sentence, {})
  IN /\ place = "whitespacer" /\ n < Len(given)
     /\ text' = IF n = 0 THEN sentence ELSE Append(text, Blank) \o sentence
     /\ sentences' = Append(sentences, Span(offset, Len(sentence) + offset))
     /\ tokens' = tokens \o [w \in DOMAIN found |->
                               Span(found[w].start + offset, found[w].ending + offset)]
     /\ offset' = offset + Len(sentence) + 1
     /\ UNCHANGED <<given, split, place, handler>>

WhitespacerEnds ==
  /\ place = "whitespacer" /\ Len(sentences) = Len(given)
  /\ place' = "labelled"
  /\ UNCHANGED <<labelling, handler>>

\* What the splitter takes to be words.
SplitAll ==
  /\ place = "tokenizer"
  /\ \E cuts \in SUBSET DOMAIN text : split' = Words(text, cuts)
  /\ place' = "splitting"
  /\ UNCHANGED <<given, text, offset, sentences, tokens, handler>>

\* IllinoisTokenizerHandler.labelRecord: the loop's body for a sentence, which is of the
\* next words.  Its ends are of the last character; a sentence's that is not in the text
\* is refused.
TokenizerSentence ==
  /\ place = "splitting" /\ Len(tokens) < Len(split)
  /\ \/ \E last \in Len(tokens) + 1 .. Len(split) :
          /\ sentences' = Append(sentences, Span(split[Len(tokens) + 1].start, split[last].ending))
          /\ tokens' = SubSeq(split, 1, last)
          /\ UNCHANGED place
     \/ place' = "failed" /\ UNCHANGED <<sentences, tokens>>
  /\ UNCHANGED <<given, text, offset, split, handler>>

TokenizerEnds ==
  /\ place = "splitting" /\ Len(tokens) = Len(split)
  /\ place' = "labelled"
  /\ UNCHANGED <<labelling, handler>>

Ask(h) ==
  /\ place = "labelled" /\ handler = "none"
  /\ handler' = h
  /\ place' = "asked"
  /\ UNCHANGED labelling

RecordNext ==
  \/ WhitespaceSentence
  \/ WhitespacerEnds
  \/ SplitAll
  \/ TokenizerSentence
  \/ TokenizerEnds

Answered(handlers) == handler \in handlers /\ place = "answered"

TokensIn(i) == Within(tokens, sentences[i])

EverySentenceHasTokens == \A i \in DOMAIN sentences : TokensIn(i) # << >>
=============================================================================

----------------------------- MODULE TokenViews -----------------------------
(***************************************************************************)
(* Words of a text, as spans.  A text is a sequence of characters, of      *)
(* which only matters whether they are blank.  A span is counted from      *)
(* zero, up to the character behind it.                                    *)
(***************************************************************************)
EXTENDS Integers, Sequences, FiniteSets

Blank == " "
Span(start, ending) == [start |-> start, ending |-> ending]
IsIn(span, outer) == span.start >= outer.start /\ span.ending <= outer.ending

\* A set of numbers, from the least to the greatest.
InOrder(S) ==
  CHOOSE s \in [1 .. Cardinality(S) -> S] : \A i, j \in DOMAIN s : i < j => s[i] < s[j]

\* Where words begin and end in a text: they are runs of characters that are not blank,
\* cut also at the places in cuts.
Starts(text, cuts) ==
  {p \in 0 .. Len(text) - 1 : text[p + 1] # Blank /\ (p = 0 \/ text[p] = Blank \/ p \in cuts)}

Ends(text, cuts) ==
  {p \in 1 .. Len(text) :
     text[p] # Blank /\ (p = Len(text) \/ text[p + 1] = Blank \/ p \in cuts)}

EndOf(p, ends) == CHOOSE e \in ends : e > p /\ \A f \in ends : f > p => e <= f

\* The words in their order.
Words(text, cuts) ==
  LET starts == InOrder(Starts(text, cuts))
  IN [i \in DOMAIN starts |-> Span(starts[i], EndOf(starts[i], Ends(text, cuts)))]

\* The parsers' handlers: "find tokens that fall within the current sentence".
Within(tokens, sentence) ==
  LET in == InOrder({w \in DOMAIN tokens : IsIn(tokens[w], sentence)})
  IN [i \in DOMAIN in |-> tokens[in[i]]]
=============================================================================

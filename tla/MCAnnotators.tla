---------------------------- MODULE MCAnnotators ----------------------------
(***************************************************************************)
(* Model checking of Annotators: texts with short, empty and blank         *)
(* sentences, and parses of the forms the handlers treat differently.      *)
(***************************************************************************)
EXTENDS Annotators

a == <<"a">>
aa == <<"a", "a">>
b == <<Blank>>

\* One sentence of three words, two sentences, one that ends in a blank, and one without
\* any word at the end and in the middle.
MCTexts ==
  {<<a \o b \o a \o b \o a>>, <<aa, a>>, <<a \o b, a>>, <<a, << >> >>, <<a, b, a>>}

\* No text at all, a word of two letters, which the splitter may cut, and two blanks.
MCRawTexts == {<< >>, aa \o b \o a, a \o b \o b \o a}

Tagged(leaves) == [w \in DOMAIN leaves |-> Inner("P", <<leaves[w]>>)]
Root(tops) == Inner("ROOT", tops)

\* A flat parse, a chain of binary nodes with made-up labels, and a root with several
\* children; there is no parse without words.
MCParses(leaves) ==
  LET tags == Tagged(leaves)
      binary == FoldLeft(LAMBDA left, tag : Inner("@S", <<left, tag>>), Head(tags), Tail(tags))
  IN IF leaves = << >> THEN {}
     ELSE {Root(<<Inner("S", tags)>>), Root(<<Inner("S", <<binary>>)>>), Root(tags)}

\* Dependencies between words, of which the second may have copies: two of them in a
\* sentence of two words.
MCDependencies(n) ==
  LET copies(i) == CASE i # 2 -> {0} [] i = 2 /\ n = 2 -> 0 .. 2 [] OTHER -> 0 .. 1
      words == UNION {[index : {i}, copy : copies(i)] : i \in 1 .. n}
  IN {td \in [gov : words, dep : words, reln : {"r"}] : td.gov # td.dep}

-----------------------------------------------------------------------------
\* The Charniak parsers.
MCHead1 == {<<"S", "VP">>, <<"PP", "IN">>}
MCHead2 == {<<"S", "NP">>}

HeadsEvenly == [w \in 1 .. 3 |-> 1]
HeadsByWord == [w \in 1 .. 3 |-> w]

WordItem(w) == [label |-> "N", word |-> w, hhprob |-> HeadsByWord]
Item(label, hhprob, edges) == [label |-> label, hhprob |-> hhprob, edges |-> edges]
EdgeOf(prob, left, head, right) == [prob |-> prob, left |-> left, head |-> head, right |-> right]

\* A word of either of two tags.
Either(w, p) ==
  Item("NP", HeadsByWord, <<EdgeOf(p, << >>, WordItem(w), << >>),
                            EdgeOf(2, << >>, [WordItem(w) EXCEPT !.label = "IN"], << >>)>>)

\* Two of them, either of which is the head.
Pair(v, w) == <<EdgeOf(3, << >>, v, <<w>>), EdgeOf(2, <<v>>, w, << >>)>>

\* A clause or a PP of these children, tags and phrases.
Only(label, left, head, right) ==
  Item(label, HeadsEvenly, <<EdgeOf(1, left, head, right)>>)

Labelled(label, w) ==
  IF label \in Tag THEN [WordItem(w) EXCEPT !.label = label]
  ELSE Only(label, << >>, WordItem(w), << >>)

Flat(n) ==
  LET flat(p, labels) ==
        {Only("S1", << >>, Only(p, << >>, Labelled(l[1], 1),
                                [w \in 1 .. n - 1 |-> Labelled(l[w + 1], w + 1)]), << >>) :
           l \in [1 .. n -> labels]}
  IN flat("S", {"N", ",", "S", "VP", "NP", "PP"}) \cup flat("PP", {"N", "IN", ",", "NP", "PP"})

\* One to three of them; three are put together in two ways.
Ambiguous(n) ==
  {Item("S1", HeadsEvenly,
        CASE n = 1 -> <<EdgeOf(1, << >>, Either(1, p), << >>)>>
          [] n = 2 -> Pair(Either(1, p), Either(2, q))
          [] n = 3 -> <<EdgeOf(s, <<Either(1, p)>>, Either(2, q), <<Either(3, r)>>),
                        EdgeOf(2, <<Item("NP", HeadsByWord, Pair(Either(1, p), Either(2, q)))>>,
                               Either(3, r), << >>)>>) :
     p \in {1, 3}, q \in IF n > 1 THEN {1, 2, 4} ELSE {1}, r \in IF n > 2 THEN {1, 5} ELSE {1},
     s \in IF n > 2 THEN {1, 4, 12} ELSE {1}}

MCPacked(n) == IF n = 0 THEN {} ELSE Ambiguous(n) \cup Flat(n)
=============================================================================

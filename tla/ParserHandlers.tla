--------------------------- MODULE ParserHandlers ---------------------------
(***************************************************************************)
(* The handlers of the parsers: how parseRecord turns a labelled record    *)
(* into the input of a library that is not in the repository, and the      *)
(* library's answer into a view.  What a library answers is any of a few   *)
(* values; a request of the handler fails when the code throws.            *)
(***************************************************************************)
EXTENDS RecordViews, ParseViews, KBestAnswers

CONSTANTS
  Parses(_),         \* parses a parser may find of a sequence of words it can parse
  KBest,             \* how many parses the k-best Stanford parser is to find
  Packed(_),         \* the items a Charniak parser may find for that many words
  Dependencies(_),   \* dependencies it may find in a sentence of a number of words
  MaxDependencies    \* bound: dependencies in all of a record

Lazy == INSTANCE LazyBests

ASSUME ParsersAssumption == KBest \in Nat \ {0} /\ MaxDependencies \in Nat

VARIABLES
  useTokens,      \* usetokens of the Stanford handlers' configuration
  parses,         \* history: for each sentence and rank, the parse's tops
  packed,         \* history: of a Charniak parser, for each sentence, item and answers
  forests,
  dependencies,   \* history: for each sentence, the dependencies that came
  nodes,          \* the nodes made of the last sentence's dependencies
  depForest       \* for each sentence, what DependencyTrees made of its nodes

depending == <<dependencies, nodes, depForest>>
parsing == <<useTokens, parses, packed, forests, depending>>

ParsersInit ==
  /\ useTokens = TRUE
  /\ parses = << >> /\ packed = << >> /\ forests = << >>
  /\ dependencies = << >> /\ nodes = << >> /\ depForest = << >>

-----------------------------------------------------------------------------
\* The sentence the parser's handler is at.
Current == Len(parses) + 1

\* Mutation: the spans of the record's tokens are moved as well.
SentenceOffsetAlways == sentences[Current].start

\* The words a Stanford handler gives its parser, or the parser finds in the raw
\* sentence, with the sentence's offset in that case.
SentenceOffset == IF useTokens THEN 0 ELSE sentences[Current].start

SentenceLeaves ==
  LET within == Within(tokens, sentences[Current])
      moved == IF useTokens THEN 0 ELSE sentences[Current].start
  IN [w \in DOMAIN within |-> Leaf(Span(within[w].start - moved, within[w].ending - moved))]

\* Trees are added to the k-th forest, which is made when it is not there.
AddTrees(fs, k, trees) ==
  IF k > Len(fs) THEN Append(fs, trees) ELSE [fs EXCEPT ![k] = @ \o trees]

\* What there is of a sentence that cannot be parsed: a tree of each word, whose leaf is
\* made of the word's text alone and has no positions.
NotParsed == Inner("X", <<Leaf(NoSpan)>>)
Unparsed(words) == Inner("X", [w \in DOMAIN words |-> NotParsed])

\* StanfordParserHandler.parseRecord: each child of the parse's root is a tree.  The
\* library's apply() ends as parseK does, and what it makes of an unparsed sentence, or
\* of one without words, may also be more than the handler or the library can take.
StanfordSentence ==
  /\ handler = "stanford" /\ place = "asked" /\ Current <= Len(sentences)
  /\ \/ \E parse \in Parses(SentenceLeaves) \cup {Unparsed(SentenceLeaves)} :
          LET tops == parse.children
              trees == [c \in DOMAIN tops |-> StanfordTree(tops[c], SentenceOffset)]
          IN /\ forests' = AddTrees(forests, 1, trees)
             /\ parses' = Append(parses, <<tops>>)
             /\ dependencies' = Append(dependencies, << >>)
             /\ nodes' = << >>
             /\ place' = "dependencies"
     \/ /\ place' = "failed"
        /\ UNCHANGED <<parses, forests, dependencies, nodes>>
  /\ UNCHANGED <<labelling, handler, useTokens, packed, depForest>>

HasHead(word) ==
  \E i \in DOMAIN Last(dependencies) : Last(dependencies)[i].dep = word

\* parseToDependencyTree: the loop's body.  A word with a head, a dependency that came
\* before included, is left with the first.
TakeDependency ==
  /\ place = "dependencies"
  /\ Len(FlattenSeq(dependencies)) < MaxDependencies
  /\ \E td \in Dependencies(Len(Within(tokens, sentences[Len(parses)]))) :
       /\ dependencies' = [dependencies EXCEPT ![Len(dependencies)] = Append(@, td)]
       /\ nodes' = IF HasHead(td.dep) THEN nodes ELSE AddDependency(nodes, td)
  /\ UNCHANGED <<record, useTokens, parses, packed, forests, depForest>>

\* parseToDependencyTree past the loop.  Its trees are left out when it overflows the
\* stack; an index that is none throws.
DependenciesEnd ==
  /\ place = "dependencies"
  /\ LET made == DependencyTrees(nodes) IN
     IF made.end = "bounds"
     THEN place' = "failed" /\ UNCHANGED depForest
     ELSE place' = "asked" /\ depForest' = Append(depForest, made)
  /\ UNCHANGED <<labelling, handler, useTokens, parses, packed, forests, dependencies, nodes>>

StanfordEnds ==
  /\ handler \in {"stanford", "kbest"} /\ place = "asked" /\ Current > Len(sentences)
  /\ place' = "answered"
  /\ UNCHANGED <<labelling, handler, parsing>>

\* parseK: up to KBest parses of the words, and exactly one of those it cannot parse.
Ranked(words) ==
  UNION {[1 .. k -> Parses(words)] : k \in 1 .. KBest} \cup {<<Unparsed(words)>>}

\* KBestStanfordParserHandler.parseRecord: the root's first child is the tree, of an
\* unparsed sentence its first word.  Where there is none, and where generateNode cannot
\* take a leaf for a Word, it throws.
KBestSentence ==
  /\ handler = "kbest" /\ place = "asked" /\ Current <= Len(sentences)
  /\ \/ \E ranked \in Ranked(SentenceLeaves) :
          LET top(k) == ranked[k].children[1]
              add(fs, k) == AddTrees(fs, k, <<StanfordTree(top(k), SentenceOffset)>>)
          IN /\ \A k \in DOMAIN ranked : ~IsLeaf(ranked[k])
             /\ forests' = FoldLeft(add, forests, [k \in DOMAIN ranked |-> k])
             /\ parses' = Append(parses, [k \in DOMAIN ranked |-> <<top(k)>>])
             /\ UNCHANGED place
     \/ place' = "failed" /\ UNCHANGED <<parses, forests>>
  /\ UNCHANGED <<labelling, handler, useTokens, packed, depending>>

\* BerkeleyParserHandler: the sentences that have tokens are the lines that are parsed;
\* the i-th line's leaves take the spans of the i-th sentence of all, and when those are
\* too few it throws.  So it does for a sentence without a parse, whose tree is a leaf
\* that knows no place of its own, and when there are fewer than kBest of them: the trees
\* of a lower rank are made as well, and thrown away.
BerkeleyLines == SelectSeq(sentences, LAMBDA s : Within(tokens, s) # << >>)

BerkeleySentence ==
  /\ handler = "berkeley" /\ place = "asked" /\ Current <= Len(BerkeleyLines)
  /\ LET line == Within(tokens, BerkeleyLines[Current])
         offsets == Within(tokens, sentences[Current])
     IN \/ \E parse \in Parses([w \in DOMAIN line |-> Leaf(line[w])]) :
             /\ Len(line) <= Len(offsets)
             /\ forests' = AddTrees(forests, 1, <<BerkeleyTree(parse, offsets)>>)
             /\ parses' = Append(parses, << <<parse>> >>)
             /\ UNCHANGED place
        \/ place' = "failed" /\ UNCHANGED <<parses, forests>>
  /\ UNCHANGED <<labelling, handler, useTokens, packed, depending>>

BerkeleyEnds ==
  /\ handler = "berkeley" /\ place = "asked" /\ Current > Len(BerkeleyLines)
  /\ place' = "answered"
  /\ UNCHANGED <<labelling, handler, parsing>>

\* What both Charniak servers refuse: a record without sentences, a sentence without
\* tokens or with too many, and one that has no parse.
CharniakRefuses ==
  /\ handler \in {"charniak", "charniak_kbest"} /\ place = "asked"
  /\ sentences = << >> \/ Current <= Len(sentences)
  /\ place' = "failed"
  /\ UNCHANGED <<labelling, handler, parsing>>

\* A node of a tree, as a parse: a tag has its word below.
RECURSIVE AsParse(_)
AsParse(at) ==
  Inner(at.trm, IF at.trm \in Tag THEN <<Leaf(NoSpan)>>
                ELSE [i \in DOMAIN at.subTrees |-> AsParse(at.subTrees[i])])

\* charniakThriftServer.C with one thread (CharniakServer.tla has several), and
\* Bchart::tokenize false, as config.txt says: the best tree of each sentence.  (parseIt.C
\* asks for more of them.)
CharniakSentence ==
  /\ handler = "charniak" /\ place = "asked" /\ Current <= Len(sentences)
  /\ LET words == Within(tokens, sentences[Current]) IN
     \E top \in Packed(Len(words)) :
       LET answers == Lazy!BestParse(top)
           at == answers[1].tree
       IN /\ forests' = AddTrees(forests, 1, <<CharniakTree(at, words)>>)
          /\ parses' = Append(parses, << <<AsParse(at)>> >>)
          /\ packed' = Append(packed, [top |-> top, answers |-> answers])
  /\ UNCHANGED <<record, useTokens, depending>>

\* The trees of an AnsTreeStr that setBests has not set.
NoTree == [trm |-> "", wrd |-> -1, subTrees |-> << >>]

\* charniakThriftServer_kBest.C: NumParses forests have a tree of each sentence,
\* whether or not there are so many.
KBestCharniakSentence ==
  /\ handler = "charniak_kbest" /\ place = "asked" /\ Current <= Len(sentences)
  /\ LET words == Within(tokens, sentences[Current]) IN
     \E top \in Packed(Len(words)) :
       LET answers == BestParse(top)
           at == [k \in 1 .. NumParses |-> IF k <= Len(answers) THEN answers[k].tree ELSE NoTree]
       IN /\ forests' = [k \in 1 .. NumParses |->
                           (IF forests = << >> THEN << >> ELSE forests[k])
                           \o <<CharniakTree(at[k], words)>>]
          /\ parses' = Append(parses, [k \in 1 .. NumParses |-> <<AsParse(at[k])>>])
          /\ packed' = Append(packed, [top |-> top, answers |-> answers])
  /\ UNCHANGED <<record, useTokens, depending>>

CharniakEnds ==
  /\ handler \in {"charniak", "charniak_kbest"} /\ place = "asked"
  /\ sentences # << >> /\ Current > Len(sentences)
  /\ place' = "answered"
  /\ UNCHANGED <<labelling, handler, parsing>>

\* A record that has its sentences and tokens is asked for a view of a parser.
ParsersNext ==
  \/ \E h \in {"berkeley", "charniak", "charniak_kbest"} : Ask(h) /\ UNCHANGED parsing
  \/ \E h \in {"stanford", "kbest"} :
       /\ Ask(h) /\ useTokens' \in BOOLEAN
       /\ UNCHANGED <<parses, packed, forests, depending>>
  \/ StanfordSentence
  \/ TakeDependency
  \/ DependenciesEnd
  \/ StanfordEnds
  \/ KBestSentence
  \/ BerkeleySentence
  \/ BerkeleyEnds
  \/ CharniakRefuses
  \/ CharniakSentence
  \/ KBestCharniakSentence
  \/ CharniakEnds

-----------------------------------------------------------------------------
\* A parse without its words, and for the Berkeley parser without made-up nodes.
RECURSIVE Bare(_)
Bare(parse) ==
  LET below(c) == IF IsLeaf(c) THEN << >>
              ELSE IF handler = "berkeley" /\ c.label \in MadeUp THEN Bare(c).children
              ELSE <<Bare(c)>>
  IN [label |-> parse.label,
      children |-> FlattenSeq([i \in DOMAIN parse.children |-> below(parse.children[i])])]

\* The tree below the i-th node of a Curator tree.
RECURSIVE Unfolded(_, _)
Unfolded(tree, i) ==
  LET children == SetToSortSeq(tree.nodes[i].children, <)
  IN [label |-> tree.nodes[i].label,
      children |-> [c \in DOMAIN children |-> Unfolded(tree, children[c])]]

\* The tops of the k-th parses, of those sentences that have one.
TopsOf(k) ==
  FlattenSeq([i \in DOMAIN parses |-> IF k \in DOMAIN parses[i] THEN parses[i][k] ELSE << >>])

Parsers == {"stanford", "kbest", "berkeley", "charniak", "charniak_kbest"}

\* The head among the children of a node, by headFinder.C: one that head1s names, the
\* last, but of a PP the first; the first with the parent's label; the last that head2s
\* names; the last tag that is not punctuation; the last phrase that is no PP; the last
\* PP; the last.
HeadAmong(lhs, terms) ==
  LET all == DOMAIN terms
      classes == << {i \in all : <<lhs, terms[i]>> \in Head1},
                    {i \in all : terms[i] = lhs},
                    {i \in all : <<lhs, terms[i]>> \in Head2},
                    {i \in all : terms[i] \in Tag \ Punctuation},
                    {i \in all : terms[i] \notin Tag \cup {"PP"}},
                    {i \in all : terms[i] \notin Tag}, all >>
      class == CHOOSE c \in DOMAIN classes : /\ classes[c] # {}
                                             /\ \A d \in 1 .. c - 1 : classes[d] = {}
  IN IF class = 2 \/ (class = 1 /\ lhs = "PP") THEN Min(classes[class]) ELSE Max(classes[class])

\* The k-th forest has a tree of each top of the k-th parses, in the order of the
\* sentences, with the parse's labels and nesting: generateNode lists a node after all
\* that is below it, and its children by their places in that list.  Of the Charniak
\* parsers each node with children has one head.
ForestsMirrorParses ==
  Answered(Parsers) =>
    /\ \A i \in DOMAIN parses : DOMAIN parses[i] \subseteq DOMAIN forests
    /\ \A k \in DOMAIN forests :
         [t \in DOMAIN forests[k] |-> Unfolded(forests[k][t], forests[k][t].top)] =
         [t \in DOMAIN TopsOf(k) |-> Bare(TopsOf(k)[t])]
    /\ handler \in {"charniak", "charniak_kbest"} =>
         \A k \in DOMAIN forests : \A t \in DOMAIN forests[k] :
           LET all == forests[k][t].nodes IN
           \A n \in DOMAIN all : all[n].children # {} =>
             LET children == SetToSortSeq(all[n].children, <)
                 terms == [c \in DOMAIN children |-> all[children[c]].label]
             IN all[n].head = children[HeadAmong(all[n].label, terms)]

\* The spans of a forest's nodes that have no children, in the order of the lists.
BottomSpans(forest) ==
  FlattenSeq([t \in DOMAIN forest |->
    LET bottom == SelectSeq(forest[t].nodes, LAMBDA node : node.children = {})
    IN [b \in DOMAIN bottom |-> bottom[b].span]])

\* A k-th forest's words are the record's tokens of the sentences it has trees of, one
\* by one, with their spans in the text whether or not the parser was given the tokens;
\* and a node spans what is below it.  That takes a sentence that is parsed: of one that
\* is not the Stanford handlers' trees have lost their places in the text.  It takes a
\* parse whose root has no second child (KBestStanfordParserHandler: "More than one child
\* in the top Tree"), which would be lost; for the Berkeley parser, a token in every
\* sentence; for the k-best Charniak server, which fills up with trees of one node, as
\* many parses as were asked for.
ForestsCoverTokens ==
  LET whole(i, k) == /\ \A t \in DOMAIN parses[i][k] : parses[i][k][t] # NotParsed
                     /\ Len(FlattenSeq([t \in DOMAIN parses[i][k] |->
                                          Yield(parses[i][k][t])])) = Len(TokensIn(i))
                     /\ parses[i][k] # <<AsParse(NoTree)>>
  IN Answered(Parsers)
     /\ (handler = "berkeley" => EverySentenceHasTokens) =>
     \A k \in DOMAIN forests :
       /\ (\A i \in DOMAIN parses : k \in DOMAIN parses[i] => whole(i, k)) =>
            BottomSpans(forests[k]) =
            FlattenSeq([i \in DOMAIN parses |->
                          IF k \in DOMAIN parses[i] THEN TokensIn(i) ELSE << >>])
       /\ \A t \in DOMAIN forests[k] : \A n \in DOMAIN forests[k][t].nodes :
            LET all == forests[k][t].nodes IN
            all[n].children # {} =>
              /\ \A c \in all[n].children : IsIn(all[c].span, all[n].span)
              /\ \E c \in all[n].children : all[c].span.start = all[n].span.start
              /\ \E c \in all[n].children : all[c].span.ending = all[n].span.ending

\* The Charniak parsers answer with the best of all the trees: the one although the
\* queues it puts them together with never have room for more than it is asked for, the
\* other although it makes a tree only when the trees it could come next to are given.
KBestAreBest ==
  \A i \in DOMAIN packed : AreBest(packed[i].answers, packed[i].top)

\* A word that hangs from one without a head, in at most n steps.
RECURSIVE BelowHead(_, _, _)
BelowHead(kept, word, n) ==
  \/ \A td \in kept : td.dep # word
  \/ n > 0 /\ \E td \in kept : td.dep = word /\ BelowHead(kept, td.gov, n - 1)

NoWord == [index |-> 0, copy |-> 0]

\* The trees of a sentence's dependencies have an arc for each dependency, of a word
\* with several heads for the first, and nothing else; no word is in them twice; and
\* left out is only what is on a circle of dependencies or hangs from one.  That takes
\* a sentence in which no word has two copies: the copies of a word share a node, which
\* then may have two heads, and extractNode numbers its children twice.
DependencyTreesMirror ==
  \A s \in DOMAIN depForest :
    LET tds == dependencies[s]
        kept == {tds[i] : i \in {j \in DOMAIN tds :
                                   \A h \in 1 .. j - 1 : tds[h].dep # tds[j].dep}}
        words == {td.gov : td \in kept} \cup {td.dep : td \in kept}
        rooted == {w \in words : BelowHead(kept, w, Len(tds))}
        made == depForest[s]
        listed == UNION {{<<t, n>> : n \in DOMAIN made.trees[t]} : t \in DOMAIN made.trees}
        node(at) == made.all[made.trees[at[1]][at[2]]]
        child(at, c) == IF c < at[2] THEN node(<<at[1], c>>).word ELSE NoWord
        arcs == UNION {{<<node(at).word, node(at).children[c], child(at, c)>> :
                          c \in DOMAIN node(at).children} : at \in listed}
    IN (\A v, w \in words : IsCopy(v) /\ IsCopy(w) /\ v.index = w.index => v = w) =>
         /\ made.end = "fine"
         /\ {node(at).word : at \in listed} = rooted
         /\ \A at, other \in listed : node(at).word = node(other).word => at = other
         /\ arcs = {<<td.gov, td.reln, td.dep>> : td \in {d \in kept : d.dep \in rooted}}
=============================================================================

----------------------------- MODULE ParseViews -----------------------------
(***************************************************************************)
(* What the handlers of the Stanford, the Berkeley and the Charniak parser *)
(* make of their parser's answer.  A parse is [label, span, children], the *)
(* children in a sequence; a leaf is a word, with the span the parser was  *)
(* told or found, and only leaves have spans.  A Curator tree is [nodes,   *)
(* top]: a list of nodes [label, span, children], whose children are       *)
(* indices of the list.                                                    *)
(***************************************************************************)
EXTENDS TokenViews, SequencesExt

CONSTANTS
  Head1, Head2,      \* head1s, head2s of headFinder.C: pairs of a parent and its head
  Tag,               \* the terms with terminal_p
  Punctuation        \* those with isPunc

ASSUME ParseViewsAssumption == Punctuation \subseteq Tag

NoSpan == Span(-1, -1)
Leaf(span) == [label |-> "word", span |-> span, children |-> << >>]
Inner(label, children) == [label |-> label, span |-> NoSpan, children |-> children]
IsLeaf(parse) == parse.children = << >>

RECURSIVE Yield(_)
Yield(parse) ==
  IF IsLeaf(parse) THEN <<parse.span>>
  ELSE FlattenSeq([i \in DOMAIN parse.children |-> Yield(parse.children[i])])

Covering(spans, offset) == Span(spans[1].start + offset, spans[Len(spans)].ending + offset)

\* StanfordParserHandler.generateNode, and the same in KBestStanfordParserHandler.
RECURSIVE GenerateNode(_, _, _)
GenerateNode(parse, nodes, offset) ==
  LET add(acc, pt) ==
        IF IsLeaf(pt) THEN acc
        ELSE LET below == GenerateNode(pt, acc.nodes, offset)
                 all == Append(below.nodes, below.node)
             IN [nodes |-> all, children |-> acc.children \cup {Len(all)}]
      made == FoldLeft(add, [nodes |-> nodes, children |-> {}], parse.children)
  IN [nodes |-> made.nodes,
      node |-> [label |-> parse.label, span |-> Covering(Yield(parse), offset),
                children |-> made.children]]

\* Mutation: the top is the last node before it is added.
WithTopBefore(made) ==
  [nodes |-> Append(made.nodes, made.node),
   top |-> IF made.nodes = << >> THEN 1 ELSE Len(made.nodes)]

WithTop(made) ==
  [nodes |-> Append(made.nodes, made.node), top |-> Len(made.nodes) + 1]

StanfordTree(parse, offset) == WithTop(GenerateNode(parse, << >>, offset))

\* Labels the binarization of a grammar makes up begin with "@".
MadeUp == {"@S"}

\* BerkeleyParserHandler.generateNode: the leaves take the sentence's tokens one after
\* the other, and a node with a made-up label hands its children to the one above it.
RECURSIVE BerkeleyNode(_, _, _)
BerkeleyNode(parse, nodes, offsets) ==
  IF IsLeaf(parse)
  THEN [nodes |-> nodes, rest |-> Tail(offsets),
        node |-> [label |-> parse.label, span |-> Head(offsets), children |-> {}]]
  ELSE LET least(a, b) == IF a <= b THEN a ELSE b
           most(a, b) == IF a >= b THEN a ELSE b
           around(acc, child) ==
             IF acc.span = NoSpan THEN child.span
             ELSE Span(least(acc.span.start, child.span.start),
                       most(acc.span.ending, child.span.ending))
           add(acc, pt) ==
             LET below == BerkeleyNode(pt, acc.nodes, acc.rest)
                 dropped == pt.label \in MadeUp \/ IsLeaf(pt)
                 all == IF dropped THEN below.nodes ELSE Append(below.nodes, below.node)
             IN [nodes |-> all, rest |-> below.rest, span |-> around(acc, below.node),
                 children |-> acc.children \cup
                                IF dropped THEN below.node.children ELSE {Len(all)}]
           made == FoldLeft(add, [nodes |-> nodes, rest |-> offsets, span |-> NoSpan,
                                  children |-> {}], parse.children)
       IN [nodes |-> made.nodes, rest |-> made.rest,
           node |-> [label |-> parse.label, span |-> made.span, children |-> made.children]]

BerkeleyTree(parse, offsets) == WithTop(BerkeleyNode(parse, << >>, offsets))

-----------------------------------------------------------------------------
(***************************************************************************)
(* The Charniak parser answers with trees [trm, wrd, subTrees].  They have *)
(* no spans: the words of the sentence go to the tags, from left to right. *)
(***************************************************************************)

\* What offsets are of when there is nothing below.
NoOffsets == Span(100000000, -1)

\* inputTreeFromBsts, and inputTreeFromAnsTree of CharniakServer2.0.  A tag takes the
\* word at pos; another node spans what is below it.
RECURSIVE InputTree(_, _, _)
InputTree(at, words, pos) ==
  IF at.trm \in Tag
  THEN [tree |-> [label |-> at.trm, span |-> words[pos], children |-> << >>], pos |-> pos + 1]
  ELSE LET least(a, b) == IF a < b THEN a ELSE b
           most(a, b) == IF a > b THEN a ELSE b
           add(acc, sub) ==
             LET sit == InputTree(sub, words, acc.pos)
             IN [tree |-> [acc.tree EXCEPT
                   !.span = Span(least(sit.tree.span.start, @.start),
                                 most(sit.tree.span.ending, @.ending)),
                   !.children = Append(@, sit.tree)],
                 pos |-> sit.pos]
       IN FoldLeft(add,
                   [tree |-> [label |-> at.trm, span |-> NoOffsets, children |-> << >>],
                    pos |-> pos],
                   at.subTrees)

\* headPriority: how well a child suits its parent as a head, given the best so far.
HeadPriority(lhs, rhs, best) ==
  IF lhs = "PP" /\ best = 1 THEN 10
  ELSE IF <<lhs, rhs>> \in Head1 THEN 1
  ELSE IF best <= 2 THEN 10
  ELSE IF rhs = lhs THEN 2
  ELSE IF <<lhs, rhs>> \in Head2 THEN 3
  ELSE IF best = 3 THEN 10
  ELSE IF rhs \in Tag \ Punctuation THEN 4
  ELSE IF best = 4 THEN 10
  ELSE IF rhs \notin Tag /\ rhs # "PP" THEN 5
  ELSE IF best = 5 THEN 10
  ELSE IF rhs \notin Tag THEN 6
  ELSE IF best = 6 THEN 10
  ELSE 7

\* headPosFromTree: 0 for none.
HeadPos(lhs, terms) ==
  LET look(acc, i) ==
        LET next == HeadPriority(lhs, terms[i], acc.best)
        IN IF next <= acc.best THEN [pos |-> i, best |-> next] ELSE acc
  IN FoldLeft(look, [pos |-> 0, best |-> 10], [i \in DOMAIN terms |-> i]).pos

\* addRootNodeAndTraverse: a node comes after all below it, and knows which of its
\* children is the head.
RECURSIVE AddRootNodeAndTraverse(_, _)
AddRootNodeAndTraverse(tree, nodes) ==
  LET headAt == HeadPos(tree.label, [i \in DOMAIN tree.children |-> tree.children[i].label])
      add(acc, i) ==
        LET below == AddRootNodeAndTraverse(tree.children[i], acc.nodes)
        IN [nodes |-> below, children |-> acc.children \cup {Len(below)},
            head |-> IF i = headAt THEN Len(below) ELSE acc.head]
      made == FoldLeft(add, [nodes |-> nodes, children |-> {}, head |-> 0],
                       [i \in DOMAIN tree.children |-> i])
  IN Append(made.nodes, [label |-> tree.label, span |-> tree.span,
                         children |-> made.children, head |-> made.head])

\* The Curator tree of one answer.
CharniakTree(at, words) ==
  LET all == AddRootNodeAndTraverse(InputTree(at, words, 1).tree, << >>)
  IN [nodes |-> all, top |-> Len(all)]

-----------------------------------------------------------------------------
(***************************************************************************)
(* Dependencies.  A typed dependency is [gov, dep, reln]; its words are    *)
(* [index, copy], where the parser may use a word again as a copy of it,   *)
(* and 0 is the word itself.  The nodes made of them are [word, children], *)
(* with children a function from indices of the list to relations.         *)
(***************************************************************************)
IsCopy(word) == word.copy # 0

\* mainNodeMap and copyNodeMap: a node is found by the word's index and by its being
\* a copy; which copy of the word it is makes no difference.
SameNode(word, other) == word.index = other.index /\ IsCopy(word) = IsCopy(other)

NodeOf(nodes, word) == {i \in DOMAIN nodes : SameNode(nodes[i].word, word)}

WithNode(nodes, word) ==
  IF NodeOf(nodes, word) # {} THEN nodes
  ELSE Append(nodes, [word |-> word, children |-> [c \in {} |-> ""]])

\* The loop's body, for a dependency whose dep has had no head so far.
AddDependency(nodes, td) ==
  LET both == WithNode(WithNode(nodes, td.gov), td.dep)
      head == CHOOSE i \in NodeOf(both, td.gov) : TRUE
      dep == CHOOSE i \in NodeOf(both, td.dep) : TRUE
  IN [both EXCEPT ![head].children =
        [c \in DOMAIN @ \cup {dep} |-> IF c = dep THEN td.reln ELSE @[c]]]

HeadNodes(nodes) ==
  {i \in DOMAIN nodes : \A h \in DOMAIN nodes : i \notin DOMAIN nodes[h].children}

\* Mutation: a node keeps the children's old indices.
ExtractedAsIs(all, i, children) == all

\* current.setChildren(children), in place: all and the trees share their nodes.
Extracted(all, i, children) == [all EXCEPT ![i].children = children]

\* extractNode: the nodes below the i-th of all are added to out, a list of indices of
\* all.  It ends with "overflow" when the stack has no room for another call, and with
\* "bounds" for an index that is none.
RECURSIVE ExtractNode(_, _, _, _)
ExtractNode(all, out, i, calls) ==
  IF calls = 0 THEN [all |-> all, out |-> out, end |-> "overflow"] ELSE
  IF i \notin DOMAIN all THEN [all |-> all, out |-> out, end |-> "bounds"] ELSE
  LET children == all[i].children
      add(acc, c) ==
        IF acc.end # "fine" THEN acc
        ELSE LET below == ExtractNode(acc.all, acc.out, c, calls - 1)
                 new == Append(below.out, c)
             IN [all |-> below.all, out |-> new, end |-> below.end,
                 children |-> [n \in DOMAIN acc.children \cup {Len(new)} |->
                                 IF n = Len(new) THEN children[c] ELSE acc.children[n]]]
      made == FoldLeft(add, [all |-> all, out |-> out, end |-> "fine",
                             children |-> [c \in {} |-> ""]],
                       SetToSortSeq(DOMAIN children, <))
  IN [all |-> IF made.end = "fine" THEN Extracted(made.all, i, made.children) ELSE made.all,
      out |-> made.out, end |-> made.end]

\* Bound: more calls than these, of which each is for a node, go round in a circle.
StackRoom == 12

\* extractTree for every head node: trees as lists of indices of the same nodes.
DependencyTrees(nodes) ==
  LET add(acc, head) ==
        IF acc.end # "fine" THEN acc
        ELSE LET below == ExtractNode(acc.all, << >>, head, StackRoom)
             IN [all |-> below.all, end |-> below.end,
                 trees |-> Append(acc.trees, Append(below.out, head))]
  IN FoldLeft(add, [all |-> nodes, end |-> "fine", trees |-> << >>],
              SetToSortSeq(HeadNodes(nodes), <))
=============================================================================

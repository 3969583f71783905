------------------------------ MODULE LazyBests ------------------------------
(***************************************************************************)
(* The second pass of the Charniak parser (CharniakServer_new): the best   *)
(* tree first, and the next ones when they are asked for (Bst.C).          *)
(*                                                                         *)
(* A Val is [prob, bsts, vec]: the tree whose i-th child is the vec[i]-th  *)
(* of bsts[i], counted from 1.  What a Bst has given (nbest) and what it   *)
(* may give next (heap) depends on how often it was asked only; here it is *)
(* asked NumParses times at once, and whoever uses it sees the answers.    *)
(***************************************************************************)
EXTENDS PackedParses

-----------------------------------------------------------------------------
(* ValHeap: an array in which no Val is better than its parent. *)

Swapped(array, i, j) == [array EXCEPT ![i] = array[j], ![j] = array[i]]

RECURSIVE Upheap(_, _)
Upheap(array, pos) ==
  LET parent == pos \div 2 IN
  IF pos = 1 \/ array[pos].prob <= array[parent].prob THEN array
  ELSE Upheap(Swapped(array, pos, parent), parent)

PushVal(array, val) == Upheap(Append(array, val), Len(array) + 1)

RECURSIVE DownHeap(_, _)
DownHeap(array, pos) ==
  LET children == {2 * pos, 2 * pos + 1} \cap DOMAIN array
      largec == IF Cardinality(children) = 2 /\ array[2 * pos].prob <= array[2 * pos + 1].prob
                THEN 2 * pos + 1 ELSE 2 * pos
  IN IF children = {} \/ array[pos].prob >= array[largec].prob THEN array
     ELSE DownHeap(Swapped(array, pos, largec), largec)

\* del_(0): the last of the array takes the place of the first.
WithoutTop(array) ==
  IF Len(array) = 1 THEN << >>
  ELSE DownHeap(<<Last(array)>> \o SubSeq(array, 2, Len(array) - 1), 1)

\* The top goes from the heap to those given.
Give(listed) ==
  IF listed.heap = << >> THEN listed
  ELSE [nbest |-> Append(listed.nbest, Head(listed.heap)), heap |-> WithoutTop(listed.heap)]

-----------------------------------------------------------------------------
(* Bst. *)

Val(prob, bsts) == [prob |-> prob, bsts |-> bsts, vec |-> [i \in DOMAIN bsts |-> 1]]

NewIth(val, i) ==
  LET at == val.vec[i]
      bst == val.bsts[i]
  IN IF at = Len(bst) THEN << >>
     ELSE <<[val EXCEPT !.vec[i] = at + 1,
                        !.prob = (@ * bst[at + 1].prob) \div bst[at].prob]>>

\* Mutation: every place is varied, whatever the places before it are.
VariationsAll(val) == FlattenSeq([i \in DOMAIN val.vec |-> NewIth(val, i)])

\* What next puts on the heap: val with the next answer of its i-th child, up to the
\* first child that has been moved already, so that no Val comes about in two ways.
Variations(val) ==
  LET moved == {i \in DOMAIN val.vec : val.vec[i] > 1}
      stop == IF moved = {} THEN Len(val.vec) ELSE Min(moved)
  IN FlattenSeq([i \in 1 .. stop |-> NewIth(val, i)])

\* next(n)
NextOf(bst) ==
  Give([bst EXCEPT !.heap = FoldLeft(PushVal, @, Variations(Last(bst.nbest)))])

\* The Vals a Bst with this heap gives when it is asked NumParses times.
Given(heap) ==
  FoldLeft(LAMBDA bst, n : IF bst.nbest = << >> THEN bst ELSE NextOf(bst),
           Give([nbest |-> << >>, heap |-> heap]), [n \in 1 .. NumParses - 1 |-> n]).nbest

-----------------------------------------------------------------------------
(* MeChart: bestParse goes through the heads, bestParseGivenHead through the edges;
   both leave out what has a part without a tree. *)

\* A Val for these Bsts; none if one of them has no answer.
PushUnlessEmpty(heap, prob, bsts) ==
  IF << >> \in Range(bsts) THEN heap
  ELSE PushVal(heap, Val(FoldLeft(LAMBDA p, bst : p * bst[1].prob, prob, bsts), bsts))

\* The tree of a Val's i-th child.
Chosen(val, i) == val.bsts[i][val.vec[i]].tree

AnswersOf(vals, tree(_)) == [n \in DOMAIN vals |-> Answer(vals[n].prob, tree(vals[n]))]

RECURSIVE BestParse(_), BestParseGivenHead(_, _)

BestParse(item) ==
  LET add(heap, w) == PushUnlessEmpty(heap, item.hhprob[w], <<BestParseGivenHead(item, w)>>)
      tree(val) == Chosen(val, 1)
  IN AnswersOf(Given(FoldLeft(add, << >>, SetToSortSeq(HeadsOf(item), <))), tree)

\* extendTrees puts the children's Bsts in order from left to right.
BestParseGivenHead(item, word) ==
  LET node(subTrees) == [trm |-> item.label, wrd |-> word, subTrees |-> subTrees]
      tree(val) == node([i \in DOMAIN val.bsts |-> Chosen(val, i)])
      answers(child) == IF child.dir = 0 THEN BestParseGivenHead(child.item, word)
                        ELSE BestParse(child.item)
      extend(bsts, child) == IF child.dir = 2 THEN bsts \o <<answers(child)>>
                             ELSE <<answers(child)>> \o bsts
      add(heap, edge) ==
        PushUnlessEmpty(heap, edge.prob, FoldLeft(extend, << >>, MiddleOut(edge)))
      withHead == SelectSeq(item.edges, LAMBDA e : word \in HeadsOf(e.head))
  IN IF IsTag(item) THEN <<Answer(1, node(<< >>))>>
     ELSE AnswersOf(Given(FoldLeft(add, << >>, withHead)), tree)
=============================================================================

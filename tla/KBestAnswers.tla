---------------------------- MODULE KBestAnswers ----------------------------
(***************************************************************************)
(* The second pass of the k-best Charniak parser (CharniakServer2.0): the  *)
(* best NumParses trees, put together bottom-up in queues of that size.    *)
(***************************************************************************)
EXTENDS PackedParses

(* AnsTreeQueue: at most NumParses answers, in no order, and which is the worst. *)

EmptyQueue == [list |-> << >>, worst |-> 0]
IsFull(queue) == Len(queue.list) = NumParses
WorstP(queue) == queue.list[queue.worst].prob

FirstWorst(list) ==
  CHOOSE i \in DOMAIN list : /\ \A j \in DOMAIN list : list[i].prob <= list[j].prob
                             /\ \A j \in 1 .. i - 1 : list[i].prob < list[j].prob

\* AnsTreeQueue::push: whoever calls it knows that prob is not worse than the worst.
Push(queue, prob, tree) ==
  IF IsFull(queue)
  THEN LET list == [queue.list EXCEPT ![queue.worst] = Answer(prob, tree)]
       IN [list |-> list, worst |-> FirstWorst(list)]
  ELSE [list |-> Append(queue.list, Answer(prob, tree)),
        worst |-> IF queue.worst = 0 \/ prob < WorstP(queue) THEN Len(queue.list) + 1
                  ELSE queue.worst]

\* setBests: pop takes the best of those left, the last of several.
SetBests(queue) ==
  LET list == queue.list
      inOrder == SetToSortSeq(DOMAIN list, LAMBDA i, j :
                   list[i].prob > list[j].prob \/ (list[i].prob = list[j].prob /\ i > j))
  IN [n \in DOMAIN list |-> list[inOrder[n]]]

\* CombineBests::addTo: the answers for one head, up to the first that is worse than
\* all the queue has.
AddTo(queue, answers, prob) ==
  LET add(acc, answer) ==
        LET p == prob * answer.prob IN
        IF acc.done \/ (IsFull(acc.queue) /\ p < WorstP(acc.queue))
        THEN [acc EXCEPT !.done = TRUE]
        ELSE [acc EXCEPT !.queue = Push(@, p, answer.tree)]
  IN FoldLeft(add, [queue |-> queue, done |-> FALSE], answers).queue

\* CombineBestsGh::addTo: all that was made of an edge.
AddEdgeTo(queue, ofEdge) ==
  FoldLeft(LAMBDA q, answer : IF ~IsFull(q) \/ answer.prob > WorstP(q)
                              THEN Push(q, answer.prob, answer.tree) ELSE q,
           queue, ofEdge.list)

WithSubTree(tree, sub, dir) ==
  [tree EXCEPT !.subTrees = IF dir = 2 THEN Append(@, sub) ELSE <<sub>> \o @,
               !.wrd = IF dir = 0 THEN sub.wrd ELSE @]

\* CombineBestsT::extendTrees: each tree so far with each answer for the next child.
\* The answers come best first; one that adds nothing ends it.
ExtendTrees(past, answers, dir) ==
  LET extend(acc, answer) ==
        LET with(a, old) ==
              LET p == old.prob * answer.prob IN
              IF IsFull(a.queue) /\ p <= WorstP(a.queue) THEN a
              ELSE [a EXCEPT !.queue = Push(@, p, WithSubTree(old.tree, answer.tree, dir)),
                             !.added = TRUE]
            made == FoldLeft(with, [acc EXCEPT !.added = FALSE], past.list)
        IN IF acc.done THEN acc ELSE [made EXCEPT !.done = ~made.added]
  IN FoldLeft(extend, [queue |-> EmptyQueue, added |-> FALSE, done |-> FALSE], answers).queue

-----------------------------------------------------------------------------

(* MeChart. *)

RECURSIVE BestParse(_), BestParseGivenHead(_, _)

BestParse(item) ==
  SetBests(FoldLeft(LAMBDA queue, w : AddTo(queue, BestParseGivenHead(item, w), item.hhprob[w]),
                    EmptyQueue, SetToSortSeq(HeadsOf(item), <)))

BestParseGivenHead(item, word) ==
  IF IsTag(item)
  THEN <<Answer(1, [trm |-> item.label, wrd |-> word, subTrees |-> << >>])>>
  ELSE LET withHead == SelectSeq(item.edges, LAMBDA e : word \in HeadsOf(e.head))
           extend(queue, child) ==
             ExtendTrees(queue,
               IF child.dir = 0 THEN BestParseGivenHead(child.item, word)
                                ELSE BestParse(child.item), child.dir)
           begun(edge) ==
             Push(EmptyQueue, edge.prob, [trm |-> item.label, wrd |-> -1, subTrees |-> << >>])
       IN SetBests(FoldLeft(LAMBDA queue, edge :
                              AddEdgeTo(queue, FoldLeft(extend, begun(edge), MiddleOut(edge))),
                            EmptyQueue, withHead))
=============================================================================

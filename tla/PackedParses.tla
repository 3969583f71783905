---------------------------- MODULE PackedParses ----------------------------
(***************************************************************************)
(* What the second pass of the Charniak parser (MeChart.C) works on: items *)
(* of the chart, each with the edges that build it.  Words are their       *)
(* numbers in the sentence.                                                *)
(*                                                                         *)
(* A tag is [label, word, hhprob]; another item [label, edges, hhprob]; an *)
(* edge [prob, left, head, right]: its probability, the items on both      *)
(* sides of its head in the order in which they were attached.  hhprob[w]  *)
(* is the probability of the head word w.  The history that a probability  *)
(* also depends on is left out.  Only products of probabilities and their  *)
(* order matter, so any positive integers do.                              *)
(*                                                                         *)
(* An answer is [prob, tree]; a tree [trm, wrd, subTrees].                 *)
(***************************************************************************)
EXTENDS Integers, Sequences, SequencesExt, FiniteSetsExt

CONSTANT NumParses       \* how many trees are asked for
ASSUME NumParsesAssumption == NumParses \in Nat \ {0}

Answer(prob, tree) == [prob |-> prob, tree |-> tree]

IsTag(item) == "word" \in DOMAIN item

\* fillInHeads: the words that may head an item, from the heads of its edges.
RECURSIVE HeadsOf(_)
HeadsOf(item) ==
  IF IsTag(item) THEN {item.word}
  ELSE UNION {HeadsOf(item.edges[e].head) : e \in DOMAIN item.edges}

\* MiddleOutGotIter: the head, what is left of it, what is right of it.
MiddleOut(edge) ==
  <<[item |-> edge.head, dir |-> 0]>>
  \o [i \in DOMAIN edge.left |-> [item |-> edge.left[i], dir |-> 1]]
  \o [i \in DOMAIN edge.right |-> [item |-> edge.right[i], dir |-> 2]]

-----------------------------------------------------------------------------
(* What they are the best of: all the trees of an item, with its head left open. *)

RECURSIVE Derivations(_)
Derivations(item) ==
  IF IsTag(item) THEN {Answer(1, [trm |-> item.label, wrd |-> item.word, subTrees |-> << >>])}
  ELSE LET choices(items) ==
             {c \in [DOMAIN items -> UNION {Derivations(items[i]) : i \in DOMAIN items}] :
                \A i \in DOMAIN items : c[i] \in Derivations(items[i])}
           headed(i, answer) == i.hhprob[answer.tree.wrd] * answer.prob
           product(items, c) ==
             FoldLeft(LAMBDA p, i : p * headed(items[i], c[i]), 1, [i \in DOMAIN items |-> i])
           of(edge) ==
             {Answer(edge.prob * c[3].prob * product(edge.left, c[1]) * product(edge.right, c[2]),
                     [trm |-> item.label, wrd |-> c[3].tree.wrd,
                      subTrees |-> Reverse([i \in DOMAIN c[1] |-> c[1][i].tree])
                                   \o <<c[3].tree>> \o [i \in DOMAIN c[2] |-> c[2][i].tree]]) :
                c \in choices(edge.left) \X choices(edge.right) \X Derivations(edge.head)}
       IN UNION {of(item.edges[e]) : e \in DOMAIN item.edges}

\* The answers are among the trees, with their probability, none twice, the best first;
\* as many as there are or were asked for; and what is left out is no better than they.
AreBest(answers, item) ==
  LET all == {Answer(item.hhprob[d.tree.wrd] * d.prob, d.tree) : d \in Derivations(item)}
      given == {answers[n] : n \in DOMAIN answers}
  IN /\ given \subseteq all
     /\ Cardinality(given) = Len(answers)
     /\ Len(answers) = NumParses \/ given = all
     /\ \A n \in 2 .. Len(answers) : answers[n].prob <= answers[n - 1].prob
     /\ \A d \in all \ given, g \in given : d.prob <= g.prob
=============================================================================

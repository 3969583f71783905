--------------------------- MODULE BestFirstChart ---------------------------
(***************************************************************************)
(* The first pass of the Charniak parser (PARSE/Bchart.C): a chart filled  *)
(* from an agenda of edges.  An edge is a constituent under construction:  *)
(* a head, to which children are attached to the left until STOP, then to  *)
(* the right until STOP.  One iteration of the loop of parse is a step.    *)
(*                                                                         *)
(* Probabilities decide two things only, and both are left open: which     *)
(* edge is popped (any: EdgeHeap.tla), and which new edge is dropped for a *)
(* merit of 0 (those no rule of the model's grammar can extend).  redoP    *)
(* changes nothing but merits; what it would visit is kept.                *)
(***************************************************************************)
EXTENDS Integers, Sequences, FiniteSets

CONSTANTS
  Length,         \* wrd_count_
  Tags,           \* Tags[i]: the tags wordPlist gives to word i
  Rules,          \* records lhs, left, head, right: what has a probability
  BadPairs,       \* <<parent, child>>: unit rules that UnitRules rules out
  RootTerm,       \* Term::rootTerm
  StopTerm,       \* Term::stopTerm
  RuleiTimeouts,  \* possible values of ruleiCountTimeout_
  TimeFactor

Terms == {r.lhs : r \in Rules}

SymbolsOf(r) == {r.head} \cup {r.left[i] : i \in DOMAIN r.left}
                        \cup {r.right[i] : i \in DOMAIN r.right}

(* A term is read with its kind, terminal or not: no tag is the parent of anything;
   and STOP is no tag of a word. *)
ASSUME ChartAssumption ==
  /\ Length \in Nat
  /\ \A i \in 1 .. Length : IsFiniteSet(Tags[i]) /\ Tags[i] \cap Terms = {}
  /\ \A i \in 1 .. Length : StopTerm \notin Tags[i]
  /\ StopTerm \notin Terms
  /\ IsFiniteSet(Rules)
  /\ \A r \in Rules : r.left \in Seq(SymbolsOf(r)) /\ r.right \in Seq(SymbolsOf(r))
  /\ RuleiTimeouts \subseteq Nat
  /\ TimeFactor \in Nat

VARIABLES
  agenda,     \* the heap
  made,       \* every edge that was put on it (its size is ruleiCounts_)
  again,      \* edges that were made a second time
  regs,       \* the items in the chart
  waiting,    \* <<right, position, edge>>: waitingEdges
  ineed,      \* <<item, edge>>: the finished edges of an item
  needme,     \* <<item, edge>>: the edges made by attaching the item
  sucs,       \* <<edge, edge>>: the edges made from an edge
  haveS, locTimeout, timeout,
  answer      \* "none" while the loop runs

chartVars == <<agenda, made, again, regs, waiting, ineed, needme, sucs, haveS,
          locTimeout, timeout, answer>>

ItemAt(term, start, finish) == [term |-> term, start |-> start, finish |-> finish]

Stop(i) == ItemAt(StopTerm, i, i)

-----------------------------------------------------------------------------
(* Edges.  got: the items in the order in which they were attached, the head
   first -- the chain of pred_. *)

(* Edge(Item&): a word with a tag, finished from the start. *)
TagEdge(item) ==
    [lhs |-> item.term, got |-> << >>, start |-> item.start, loc |-> item.finish,
     status |-> 2]

(* Edge(Edge&, Item&, right), and what extend_rule makes of its status. *)
Extend(edge, item, right) ==
    [lhs    |-> edge.lhs,
     got    |-> Append(edge.got, item),
     start  |-> IF right = 1 THEN edge.start ELSE item.start,
     loc    |-> IF right = 1 \/ edge.got = << >> THEN item.finish ELSE edge.loc,
     status |-> IF item.term = StopTerm THEN right + 1 ELSE right]

(* A new edge for a term, which extend_rule gives its head. *)
Headless(lhs) == [lhs |-> lhs, got |-> << >>, start |-> -1, loc |-> -1, status |-> 0]

Reversed(s) == [i \in 1 .. Len(s) |-> s[Len(s) + 1 - i]]

(* LeftRightGotIter: the items from left to right.  Going back along pred_,
   those on the right come first, and the first item that starts where the edge
   starts is the leftmost one. *)
LeftRight(edge) ==
    LET back == Reversed(edge.got)
        leftmost == CHOOSE i \in DOMAIN back : /\ back[i].start = edge.start
                                               /\ \A j \in 1 .. i - 1 :
                                                    back[j].start # edge.start
    IN  SubSeq(back, leftmost, Len(back)) \o Reversed(SubSeq(back, 1, leftmost - 1))

(* Without the STOPs, which are met at the two ends only. *)
Children(edge) ==
    LET line == LeftRight(edge)
        n == Len(line)
    IN  SubSeq(line, IF line[1].term = StopTerm THEN 2 ELSE 1,
                     IF line[n].term = StopTerm THEN n - 1 ELSE n)

TermsOf(items) == [i \in DOMAIN items |-> items[i].term]

(* Which edges have a probability: those that some rule goes on.  An edge that
   grows to the right has all of its rule's left side, a finished one all of it. *)
Shape(lhs, left, head, right, status) ==
    [lhs |-> lhs, left |-> left, head |-> head, right |-> right, status |-> status]

Shapes ==
    UNION {{Shape(r.lhs, SubSeq(r.left, n, Len(r.left)), r.head, << >>, 0) :
              n \in 1 .. Len(r.left) + 1}
           \cup {Shape(r.lhs, r.left, r.head, SubSeq(r.right, 1, n), 1) :
                   n \in 0 .. Len(r.right)}
           \cup {Shape(r.lhs, r.left, r.head, r.right, 2)} : r \in Rules}

Possible(edge) ==
    LET line == Children(edge)
        head == CHOOSE i \in DOMAIN line : line[i] = edge.got[1]
    IN  Shape(edge.lhs, TermsOf(SubSeq(line, 1, head - 1)), line[head].term,
              TermsOf(SubSeq(line, head + 1, Len(line))), edge.status) \in Shapes

(* repeatRule: between two STOPs, one child, and not a tag. *)
RepeatRule(edge) ==
    /\ edge.status = 2 /\ Len(edge.got) = 3
    /\ edge.got[1].term \in Terms
    /\ <<edge.lhs, edge.got[1].term>> \in BadPairs

HasMerit(edge) == ~RepeatRule(edge) /\ Possible(edge)

-----------------------------------------------------------------------------
(* initDenom: a finished edge for every tag of every word. *)
Words == UNION {{ItemAt(t, i - 1, i) : t \in Tags[i]} : i \in 1 .. Length}

ChartInit ==
    /\ agenda = {TagEdge(w) : w \in Words}
    /\ made = agenda
    /\ again = {} /\ regs = {} /\ waiting = {} /\ ineed = {} /\ needme = {} /\ sucs = {}
    /\ haveS = FALSE
    /\ timeout \in RuleiTimeouts
    /\ locTimeout = timeout
    /\ answer = "none"

(* The edges among the kept ones that were there, or that two pairs of them make. *)
Repeated(kept) ==
    {x[3] : x \in {y \in kept : \/ y[3] \in made
                               \/ \E z \in kept \ {y} : z[3] = y[3]}}

\* Mutation: a dropped edge stays in sucs of the edge it extends.
ExtendRulesLeavingSucs(popped, uses) ==
    LET extended == {<<u[1], u[2], Extend(u[1], u[2], u[3])>> : u \in uses}
    IN  \E kept \in {{x \in extended : HasMerit(x[3])}} :
          /\ agenda' = (agenda \ {popped}) \cup {x[3] : x \in kept}
          /\ made' = made \cup {x[3] : x \in kept}
          /\ again' = again \cup Repeated(kept)
          /\ needme' = needme \cup {<<x[2], x[3]>> : x \in {y \in kept : y[2].term # StopTerm}}
          /\ sucs' = sucs \cup {<<x[1], x[3]>> : x \in {y \in extended : y[1].got # << >>}}

(* extend_rule for each <<edge, item, right>>, after popped has left the heap:
   the new edges with a merit go to the heap, to sucs of the edge and to needme
   of the item. *)
ExtendRules(popped, uses) ==
    LET extended == {<<u[1], u[2], Extend(u[1], u[2], u[3])>> : u \in uses}
    IN  \E kept \in {{x \in extended : HasMerit(x[3])}} :
          /\ agenda' = (agenda \ {popped}) \cup {x[3] : x \in kept}
          /\ made' = made \cup {x[3] : x \in kept}
          /\ again' = again \cup Repeated(kept)
          /\ needme' = needme \cup {<<x[2], x[3]>> : x \in {y \in kept : y[2].term # StopTerm}}
          /\ sucs' = sucs \cup {<<x[1], x[3]>> : x \in {y \in kept : y[1].got # << >>}}

-----------------------------------------------------------------------------
(* One iteration of the loop.  get_S: the root over all the words. *)
GetS == ItemAt(RootTerm, 0, Length) \in regs

RanOutOfTime == Cardinality(made) > locTimeout

(* The first parse that is found shortens the time. *)
NoteS ==
    LET newTime == Cardinality(made) * TimeFactor
    IN  /\ haveS' = (haveS \/ GetS)
        /\ locTimeout' = IF GetS /\ ~haveS /\ newTime < timeout THEN newTime
                         ELSE locTimeout
        /\ UNCHANGED <<timeout, answer>>

Goes == answer = "none" /\ ~RanOutOfTime

\* Mutation: the edge only waits.
AddEdgeWaiting(edge) ==
    LET right == edge.status
        loc == IF right = 1 THEN edge.loc ELSE edge.start
    IN  /\ Goes /\ edge \in agenda /\ right \in {0, 1}
        /\ ExtendRules(edge, {<<edge, Stop(loc), right>>})
        /\ waiting' = waiting \cup {<<right, loc, edge>>}
        /\ NoteS
        /\ UNCHANGED <<regs, ineed>>

(* add_edge(edge, right): the edge meets STOP and every item that is there on
   the side on which it grows, and then waits for those to come. *)
AddEdge(edge) ==
    LET right == edge.status
        loc == IF right = 1 THEN edge.loc ELSE edge.start
        there == {i \in regs : (IF right = 1 THEN i.start ELSE i.finish) = loc}
    IN  /\ Goes /\ edge \in agenda /\ right \in {0, 1}
        /\ ExtendRules(edge, {<<edge, i, right>> : i \in there \cup {Stop(loc)}})
        /\ waiting' = waiting \cup {<<right, loc, edge>>}
        /\ NoteS
        /\ UNCHANGED <<regs, ineed>>

(* posStarts: the left-hand sides that have such a head. *)
PosStarts(term) == {r.lhs : r \in {q \in Rules : q.head = term}}

\* Mutation: the edges that wait are looked for on the far side of the item.
AddRegItemFarSide(popped, item) ==
    /\ regs' = regs \cup {item}
    /\ ExtendRules(popped,
         {<<Headless(l), item, 0>> : l \in PosStarts(item.term)}
         \cup {<<w[3], item, w[1]>> :
                 w \in {v \in waiting : v[2] = IF v[1] = 1 THEN item.finish
                                               ELSE item.start}})
    /\ UNCHANGED waiting

(* add_reg_item: the item starts its own edges and meets the edges that wait on
   both its sides. *)
AddRegItem(popped, item) ==
    /\ regs' = regs \cup {item}
    /\ ExtendRules(popped,
         {<<Headless(l), item, 0>> : l \in PosStarts(item.term)}
         \cup {<<w[3], item, w[1]>> :
                 w \in {v \in waiting : v[2] = IF v[1] = 1 THEN item.start
                                               ELSE item.finish}})
    /\ UNCHANGED waiting

(* addFinishedEdge, for a tag. *)
AddTag(edge) ==
    /\ Goes /\ edge \in agenda /\ edge.status = 2 /\ edge.got = << >>
    /\ AddRegItem(edge, ItemAt(edge.lhs, edge.start, edge.loc))
    /\ NoteS
    /\ UNCHANGED ineed

\* Mutation: the chart is not asked whether it has the constituent.
AddConstituentAgain(edge) ==
    LET item == ItemAt(edge.lhs, edge.start, edge.loc)
    IN  /\ Goes /\ edge \in agenda /\ edge.status = 2 /\ edge.got # << >>
        /\ AddRegItem(edge, item)
        /\ ineed' = ineed \cup {<<item, edge>>}
        /\ NoteS

(* addFinishedEdge: in_chart tells a new constituent from one that gets one more
   way to be built. *)
AddConstituent(edge) ==
    LET item == ItemAt(edge.lhs, edge.start, edge.loc)
    IN  /\ Goes /\ edge \in agenda /\ edge.status = 2 /\ edge.got # << >>
        /\ IF item \in regs THEN ExtendRules(edge, {}) /\ UNCHANGED <<regs, waiting>>
           ELSE AddRegItem(edge, item)
        /\ ineed' = ineed \cup {<<item, edge>>}
        /\ NoteS

(* Out of time, or nothing on the agenda. *)
Finish ==
    /\ answer = "none" /\ (RanOutOfTime \/ agenda = {})
    /\ answer' = IF GetS THEN "parse" ELSE "badParse"
    /\ UNCHANGED <<agenda, made, again, regs, waiting, ineed, needme, sucs, haveS,
                   locTimeout, timeout>>

ChartNext ==
    \/ \E edge \in agenda : AddEdge(edge)
    \/ \E edge \in agenda : AddTag(edge)
    \/ \E edge \in agenda : AddConstituent(edge)
    \/ Finish

ChartSpec == ChartInit /\ [][ChartNext]_chartVars

-----------------------------------------------------------------------------
ChartTypeOK ==
    /\ agenda \subseteq made /\ again \subseteq made
    /\ \A i \in regs : i.start \in 0 .. Length /\ i.finish \in i.start + 1 .. Length
    /\ haveS \in BOOLEAN /\ locTimeout <= timeout
    /\ answer \in {"none", "parse", "badParse"}

(* The chart only grows, so it is looked at when parse returns, in time or out of
   time. *)
Done == answer # "none"

(* No edge is built twice, whichever of an edge and an item comes first: a second
   copy would count its probability twice. *)
NoEdgeTwice == again = {}

(* The edge and item that fit together have met, as soon as the edge has been
   popped and the item is in the chart: none is forgotten in the order in which
   they came. *)
Met(edge, item) ==
    LET next == Extend(edge, item, edge.status) IN next \in made \/ ~HasMerit(next)

EveryPairHasMet ==
    Done => \A edge \in made \ agenda : edge.status \in {0, 1} =>
        \A i \in regs : (IF edge.status = 1 THEN i.start = edge.loc
                         ELSE i.finish = edge.start) => Met(edge, i)

(* When nothing is left on the agenda, whatever the order was, the chart is
   closed under the rules: a rule whose children are there has its parent there. *)
Lines(n) == {line \in [1 .. n -> regs] :
               \A k \in 1 .. n - 1 : line[k].finish = line[k + 1].start}

ChartIsComplete ==
    Done /\ agenda = {} =>
      /\ Words \subseteq regs
      /\ \A r \in Rules :
           LET rhs == r.left \o <<r.head>> \o r.right
               n == Len(rhs)
           IN  \A line \in Lines(n) :
                 /\ TermsOf(line) = rhs
                 /\ ~(n = 1 /\ <<r.lhs, r.head>> \in BadPairs)
                 => ItemAt(r.lhs, line[1].start, line[n].finish) \in regs

(* NeedmeIter, which redoP and the outside probabilities rely on: from needme of
   an item, sucs leads to the edges that contain the item, and to no other. *)
AndSucs(edges) ==
    LET go[some \in SUBSET (made \cup {p[2] : p \in sucs})] ==
          LET more == some \cup {p[2] : p \in {s \in sucs : s[1] \in some}}
          IN  IF more = some THEN some ELSE go[more]
    IN  go[edges]

NeedmeIterReaches ==
    Done => \A i \in regs :
      AndSucs({p[2] : p \in {q \in needme : q[1] = i}})
        = {edge \in made : \E k \in DOMAIN edge.got : edge.got[k] = i}
=============================================================================

------------------------ MODULE BestFirstChartProofs ------------------------
(***************************************************************************)
(* For every sentence, every grammar and every limit: that an edge and an  *)
(* item which fit together meet, and meet once, in whatever order edges    *)
(* are popped.  The argument is that what an edge was made from can be     *)
(* read off it, and that one of the two must then have been new.           *)
(*                                                                         *)
(* From it: the links tell what was made from what; what NeedmeIter can    *)
(* reach from an item is what contains it; and once nothing is left on the *)
(* agenda the chart is complete.  For the last, the edges by which a rule  *)
(* comes to its parent are written down (Grown), each is what extend_rule  *)
(* makes of the one before, and each is one that the rule goes on from.    *)
(***************************************************************************)
EXTENDS BestFirstChart, FiniteSetTheorems, SequenceTheorems, WellFoundedInduction, TLAPS

Term == Terms \cup {StopTerm} \cup UNION {Tags[i] : i \in 1 .. Length}

Item == [term : Term, start : 0 .. Length, finish : 0 .. Length]

(* What may come into the chart. *)
Constituent == {i \in Item : i.start < i.finish}

(* A tag, or an edge with its head. *)
Edge == {e \in [lhs : Term, got : Seq(Item), start : 0 .. Length, loc : 0 .. Length,
                status : 0 .. 2] :
           /\ e.start < e.loc
           /\ e.got = << >> => e.status = 2
           /\ e.got # << >> => e.lhs \in Terms}

Growing(e) == e.status \in {0, 1}

(* Where an edge grows, and what lies there. *)
Side(e) == IF e.status = 1 THEN e.loc ELSE e.start

Beside(e, i) == (IF e.status = 1 THEN i.start ELSE i.finish) = Side(e)

Heads == {Headless(l) : l \in Terms}

Stops == {Stop(n) : n \in 0 .. Length}

(* An edge, or one without a head, and what it may be extended with. *)
Fits(e, i) ==
  \/ e \in Heads /\ i \in Constituent
  \/ /\ e \in Edge /\ Growing(e) /\ Beside(e, i)
     /\ i \in Constituent \/ i = Stop(Side(e))

Popped == made \ agenda

-----------------------------------------------------------------------------
Typed ==
  /\ made \subseteq Edge /\ agenda \subseteq made /\ regs \subseteq Constituent
  /\ IsFiniteSet(made) /\ IsFiniteSet(regs) /\ IsFiniteSet(waiting)

Timed ==
  /\ haveS \in BOOLEAN /\ timeout \in Nat /\ locTimeout \in Nat /\ locTimeout <= timeout
  /\ answer \in {"none", "parse", "badParse"}

(* An item that is no constituent is a word, and its tag was popped. *)
ItemsCome == \A i \in regs : i.term \in Terms \/ TagEdge(i) \in Popped

(* The edges that wait are those that were popped while they grow. *)
GrowersWait ==
  waiting = {<<e.status, Side(e), e>> : e \in {p \in Popped : Growing(p)}}

(* An edge that was made was made from a popped one, or from none, and an item that
   is in the chart. *)
Origins ==
  \A x \in made :
    \/ x \in {TagEdge(w) : w \in Words}
    \/ \E e \in Popped \cup Heads, i \in regs \cup Stops :
         Fits(e, i) /\ x = Extend(e, i, e.status)

(* What has been popped has met all that is beside it. *)
PairsMet ==
  \A e \in Popped : Growing(e) => \A i \in regs : Beside(e, i) => Met(e, i)

IInv == Typed /\ Timed /\ ItemsCome /\ GrowersWait /\ Origins /\ PairsMet /\ NoEdgeTwice

(* needme and sucs tell of every edge the item and the edge it was made from, and
   nothing else; ineed of every finished one that was popped what it is. *)
LastOf(x) == x.got[Len(x.got)]

MadeFrom(e, x) == Fits(e, LastOf(x)) /\ x = Extend(e, LastOf(x), e.status)

Built == {x \in made : x.got # << >>}

LinksAreTrue ==
  /\ needme = {<<LastOf(x), x>> : x \in {y \in Built : LastOf(y).term # StopTerm}}
  /\ sucs = {p \in Built \X Built : MadeFrom(p[1], p[2])}
  /\ ineed = {<<ItemAt(x.lhs, x.start, x.loc), x>> :
                x \in {y \in Built \ agenda : y.status = 2}}

-----------------------------------------------------------------------------
(* Edges and items. *)

LEMMA SequencesOfItems ==
  ASSUME NEW s \in Seq(Item), NEW t \in Seq(Item), NEW i \in Item, NEW j \in Item
  PROVE  /\ Append(s, i) \in Seq(Item) /\ Append(s, i) # << >>
         /\ Len(s) \in Nat /\ Len(Append(s, i)) = Len(s) + 1
         /\ Append(s, i)[Len(Append(s, i))] = i
         /\ Append(s, i) = Append(t, j) => s = t /\ i = j
         /\ s = << >> <=> Len(s) = 0
<1>1. /\ Append(s, i) \in Seq(Item) /\ Append(s, i) # << >>
      /\ Len(s) \in Nat /\ Len(Append(s, i)) = Len(s) + 1
      /\ Append(s, i)[Len(s) + 1] = i
  BY AppendProperties, LenProperties
<1>2. Append(s, i) = Append(t, j) => s = t /\ i = j
  BY AppendInjective
<1>3. s = << >> <=> Len(s) = 0
  BY EmptySeq, LenProperties
<1> QED
  BY <1>1, <1>2, <1>3

LEMMA EdgeFacts ==
  ASSUME NEW e \in Edge
  PROVE  /\ e = [lhs |-> e.lhs, got |-> e.got, start |-> e.start, loc |-> e.loc,
                 status |-> e.status]
         /\ e.lhs \in Term /\ e.got \in Seq(Item)
         /\ e.start \in 0 .. Length /\ e.loc \in 0 .. Length /\ e.start < e.loc
         /\ e.status \in 0 .. 2
         /\ e.got # << >> => e.lhs \in Terms
         /\ Growing(e) => e.got # << >>
BY DEF Edge, Growing

LEMMA HeadFacts ==
  ASSUME NEW e \in Heads
  PROVE  /\ e.lhs \in Terms /\ e.got = << >> /\ e.status = 0
         /\ e = Headless(e.lhs) /\ e \notin Edge
BY DEF Heads, Headless, Edge

LEMMA TermsAreTerm ==
  /\ Terms \subseteq Term
  /\ \A i \in 1 .. Length : Tags[i] \subseteq Term
  /\ Length \in Nat
BY ChartAssumption DEF Term

LEMMA StopFacts ==
  ASSUME NEW n \in 0 .. Length
  PROVE  /\ Stop(n) \in Item /\ Stop(n) \notin Constituent
         /\ Stop(n).start = n /\ Stop(n).finish = n /\ Stop(n).term = StopTerm
BY ChartAssumption DEF Stop, ItemAt, Item, Term, Constituent

(* An edge keeps its span, or grows by what is beside it. *)
LEMMA ExtendFacts ==
  ASSUME NEW e, NEW i, Fits(e, i)
  PROVE  /\ i \in Item /\ e.got \in Seq(Item)
         /\ Extend(e, i, e.status) \in Edge
         /\ Extend(e, i, e.status).got = Append(e.got, i)
         /\ Extend(e, i, e.status).got # << >>
         /\ Extend(e, i, e.status).lhs = e.lhs
<1>1. i \in Item
  BY StopFacts DEF Fits, Constituent, Side, Edge
<1>2. e.got \in Seq(Item)
  BY HeadFacts, EmptySeq DEF Fits, Edge
<1>3. /\ Append(e.got, i) \in Seq(Item) /\ Append(e.got, i) # << >>
  BY <1>1, <1>2, SequencesOfItems
<1>4. /\ Extend(e, i, e.status).got = Append(e.got, i)
      /\ Extend(e, i, e.status).lhs = e.lhs
  BY DEF Extend
<1>5. Extend(e, i, e.status) \in Edge
  <2> DEFINE x == Extend(e, i, e.status)
  <2>1. x = [lhs |-> x.lhs, got |-> x.got, start |-> x.start, loc |-> x.loc, status |-> x.status]
    BY DEF Extend
  <2>2. x.lhs \in Terms /\ x.got \in Seq(Item) /\ x.got # << >>
    BY <1>3, <1>4, HeadFacts DEF Fits, Edge, Growing
  <2> SUFFICES x \in Edge
    OBVIOUS
  <2> HIDE DEF x
  <2>3. ASSUME x.start \in 0 .. Length, x.loc \in 0 .. Length, x.start < x.loc,
               x.status \in 0 .. 2
        PROVE  x \in Edge
    <3>1. x \in [lhs : Term, got : Seq(Item), start : 0 .. Length, loc : 0 .. Length,
                 status : 0 .. 2]
      BY <2>1, <2>2, <2>3, TermsAreTerm
    <3> QED
      BY <2>2, <2>3, <3>1 DEF Edge
  <2>4. CASE e \in Heads
    <3>1. e.got = << >> /\ e.status = 0 /\ i \in Constituent
      BY <2>4, HeadFacts DEF Fits
    <3>2. x.start = i.start /\ x.loc = i.finish /\ x.status \in 0 .. 2
      BY <3>1 DEF Extend, x
    <3>3. /\ x.start \in 0 .. Length /\ x.loc \in 0 .. Length /\ x.start < x.loc
      BY <3>1, <3>2 DEF Constituent, Item
    <3> QED
      BY <2>2, <2>3, <3>2, <3>3
  <2>5. CASE e \notin Heads
    <3>1. /\ e \in Edge /\ Growing(e) /\ Beside(e, i)
          /\ i \in Constituent \/ i = Stop(Side(e))
      BY <2>5 DEF Fits
    <3>2. /\ e.got # << >> /\ e.start < e.loc
          /\ e.start \in 0 .. Length /\ e.loc \in 0 .. Length /\ e.status \in {0, 1}
      BY <3>1 DEF Edge, Growing
    <3>3. /\ x.start = IF e.status = 1 THEN e.start ELSE i.start
          /\ x.loc = IF e.status = 1 THEN i.finish ELSE e.loc
          /\ x.status \in 0 .. 2
      BY <3>2 DEF Extend, x
    <3>4. /\ e.status = 1 => i.start = e.loc
          /\ e.status = 0 => i.finish = e.start
      BY <3>1 DEF Beside, Side
    <3>5. i.start <= i.finish
      BY <3>1, <3>2, StopFacts DEF Constituent, Item, Side
    <3>6. i.start \in 0 .. Length /\ i.finish \in 0 .. Length
      BY <1>1 DEF Item
    <3>7. /\ x.start \in 0 .. Length /\ x.loc \in 0 .. Length /\ x.start < x.loc
      BY <3>2, <3>3, <3>4, <3>5, <3>6, TermsAreTerm
    <3> QED
      BY <2>2, <2>3, <3>3, <3>7
  <2> QED
    BY <2>4, <2>5
<1> QED
  BY <1>1, <1>2, <1>3, <1>4, <1>5

(* What an edge was made from can be read off it. *)
LEMMA ExtendInjective ==
  ASSUME NEW e, NEW i, Fits(e, i), NEW f, NEW j, Fits(f, j),
         Extend(e, i, e.status) = Extend(f, j, f.status)
  PROVE  e = f /\ i = j
<1>1. /\ i \in Item /\ e.got \in Seq(Item) /\ j \in Item /\ f.got \in Seq(Item)
      /\ Append(e.got, i) = Append(f.got, j) /\ e.lhs = f.lhs
  BY ExtendFacts
<1>2. e.got = f.got /\ i = j
  <2> DEFINE s == e.got
             t == f.got
  <2>1. s \in Seq(Item) /\ t \in Seq(Item) /\ Append(s, i) = Append(t, j)
    BY <1>1
  <2> HIDE DEF s, t
  <2>2. s = t /\ i = j
    BY <1>1, <2>1, AppendInjective
  <2> QED
    BY <2>2 DEF s, t
<1>3. CASE e.got = << >>
  <2>1. e \in Heads /\ f \in Heads
    BY <1>2, <1>3, EdgeFacts DEF Fits
  <2> QED
    BY <1>1, <1>2, <2>1, HeadFacts
<1>4. CASE e.got # << >>
  <2>1. /\ e \in Edge /\ Growing(e) /\ Beside(e, i)
        /\ f \in Edge /\ Growing(f) /\ Beside(f, i)
    BY <1>2, <1>4, HeadFacts DEF Fits
  <2>2. e.status = f.status
    BY <1>2, <2>1 DEF Extend, Growing
  <2>3. e.start = f.start /\ e.loc = f.loc
    BY <1>2, <1>4, <2>1, <2>2 DEF Extend, Growing, Beside, Side
  <2> QED
    BY <1>1, <1>2, <2>1, <2>2, <2>3, EdgeFacts
<1> QED
  BY <1>2, <1>3, <1>4

-----------------------------------------------------------------------------
(* extend_rule: with edges and items that fit, none of which made what it would make
   before, all that has a merit is made once. *)

LEMMA ImageIsFinite ==
  ASSUME NEW S, IsFiniteSet(S), NEW f, DOMAIN f = S
  PROVE  IsFiniteSet({f[x] : x \in S})
<1> DEFINE T == {f[x] : x \in S}
<1>1. [x \in S |-> f[x]] \in Surjection(S, T)
  BY DEF Surjection
<1> QED
  BY <1>1, FS_Surjection

NewUses(popped, uses) ==
  \A u \in uses :
    /\ \E e \in Popped \cup {popped} \cup Heads, i \in regs' \cup Stops :
         u = <<e, i, e.status>> /\ Fits(e, i)
    /\ Extend(u[1], u[2], u[3]) \notin made

LEMMA ExtendRulesMakes ==
  ASSUME Typed, Origins, NoEdgeTwice, NEW popped \in agenda, NEW uses,
         regs \subseteq regs', NewUses(popped, uses), ExtendRules(popped, uses)
  PROVE  /\ made \subseteq made' /\ made' \subseteq Edge /\ agenda' \subseteq made'
         /\ Popped' = Popped \cup {popped}
         /\ NoEdgeTwice' /\ Origins'
         /\ \A u \in uses : \/ Extend(u[1], u[2], u[3]) \in made'
                            \/ ~HasMerit(Extend(u[1], u[2], u[3]))
         /\ IsFiniteSet(uses) => IsFiniteSet(made')
<1> DEFINE extended == {<<u[1], u[2], Extend(u[1], u[2], u[3])>> : u \in uses}
           kept == {x \in extended : HasMerit(x[3])}
           new == {x[3] : x \in kept}
<1>1. /\ agenda' = (agenda \ {popped}) \cup new
      /\ made' = made \cup new
      /\ again' = again \cup Repeated(kept)
  BY DEF ExtendRules
<1>2. \A x \in kept :
        /\ \E e \in Popped \cup {popped} \cup Heads, i \in regs' \cup Stops :
             Fits(e, i) /\ x = <<e, i, Extend(e, i, e.status)>>
        /\ x[3] \notin made
  BY DEF NewUses
<1>3. \A u \in uses : HasMerit(Extend(u[1], u[2], u[3])) => Extend(u[1], u[2], u[3]) \in new
  <2> SUFFICES ASSUME NEW u \in uses, HasMerit(Extend(u[1], u[2], u[3]))
               PROVE  Extend(u[1], u[2], u[3]) \in new
    OBVIOUS
  <2> DEFINE x == <<u[1], u[2], Extend(u[1], u[2], u[3])>>
  <2>1. x \in extended /\ x[3] = Extend(u[1], u[2], u[3])
    OBVIOUS
  <2> HIDE DEF x
  <2>2. x \in kept
    BY <2>1
  <2> QED
    BY <2>1, <2>2
<1>4. IsFiniteSet(uses) => IsFiniteSet(new)
  <2> SUFFICES ASSUME IsFiniteSet(uses) PROVE IsFiniteSet(new)
    OBVIOUS
  <2> DEFINE f == [u \in uses |-> Extend(u[1], u[2], u[3])]
  <2>1. IsFiniteSet({f[u] : u \in uses})
    BY ImageIsFinite
  <2>2. new \in SUBSET {f[u] : u \in uses}
    OBVIOUS
  <2> QED
    BY <2>1, <2>2, FS_Subset
<1> HIDE DEF kept
<1>5. \A x \in kept : x[3] \in Edge
  BY <1>2, ExtendFacts
<1>6. Repeated(kept) = {}
  <2>1. ASSUME NEW y \in kept, NEW z \in kept, z[3] = y[3]
        PROVE  z = y
    <3>1. PICK e \in Popped \cup {popped} \cup Heads, i \in regs' \cup Stops :
            Fits(e, i) /\ y = <<e, i, Extend(e, i, e.status)>>
      BY <1>2
    <3>2. PICK f \in Popped \cup {popped} \cup Heads, j \in regs' \cup Stops :
            Fits(f, j) /\ z = <<f, j, Extend(f, j, f.status)>>
      BY <1>2
    <3>3. Extend(e, i, e.status) = Extend(f, j, f.status)
      BY <2>1, <3>1, <3>2
    <3>4. e = f /\ i = j
      BY <3>1, <3>2, <3>3, ExtendInjective
    <3> QED
      BY <3>1, <3>2, <3>4
  <2> QED
    BY <1>2, <2>1 DEF Repeated
<1>7. Popped' = Popped \cup {popped}
  BY <1>1, <1>2 DEF Popped, Typed
<1>8. Origins'
  <2> SUFFICES ASSUME NEW x \in made'
               PROVE  \/ x \in {TagEdge(w) : w \in Words}
                      \/ \E e \in Popped' \cup Heads, i \in regs' \cup Stops :
                           Fits(e, i) /\ x = Extend(e, i, e.status)
    BY DEF Origins
  <2>1. CASE x \in made
    BY <1>7, <2>1 DEF Origins
  <2>2. CASE x \in new
    BY <1>2, <1>7, <2>2
  <2> QED
    BY <1>1, <2>1, <2>2
<1>9. IsFiniteSet(new) => IsFiniteSet(made')
  BY <1>1, FS_Union DEF Typed
<1> HIDE DEF new
<1>10. made' \subseteq Edge /\ agenda' \subseteq made'
  <2>1. new \subseteq Edge
    BY <1>5 DEF new
  <2> QED
    BY <1>1, <2>1 DEF Typed
<1> QED
  BY <1>1, <1>3, <1>4, <1>6, <1>7, <1>8, <1>9, <1>10 DEF NoEdgeTwice

(* What was made before was made of what was popped and what was in the chart. *)
LEMMA NotMadeBefore ==
  ASSUME Origins, NEW e, NEW i, Fits(e, i), e \notin Popped \cup Heads \/ i \notin regs \cup Stops
  PROVE  Extend(e, i, e.status) \notin made
<1> SUFFICES ASSUME Extend(e, i, e.status) \in made
             PROVE  FALSE
  OBVIOUS
<1>1. Extend(e, i, e.status) \notin {TagEdge(w) : w \in Words}
  <2>1. \A w : TagEdge(w).got = << >>
    BY DEF TagEdge
  <2>2. Extend(e, i, e.status).got # << >>
    BY ExtendFacts
  <2> QED
    BY <2>1, <2>2
<1>2. PICK f \in Popped \cup Heads, j \in regs \cup Stops :
        Fits(f, j) /\ Extend(e, i, e.status) = Extend(f, j, f.status)
  BY <1>1 DEF Origins
<1>3. e = f /\ i = j
  BY <1>2, ExtendInjective
<1> QED
  BY <1>2, <1>3

LEMMA MetStays ==
  ASSUME NEW e, NEW i, Met(e, i), made \subseteq made'
  PROVE  Met(e, i)'
BY DEF Met

-----------------------------------------------------------------------------
(* The steps. *)

LEMMA TermsAreFinite == IsFiniteSet(Terms)
<1> DEFINE f == [r \in Rules |-> r.lhs]
<1>1. IsFiniteSet({f[r] : r \in Rules})
  BY ImageIsFinite, ChartAssumption
<1>2. Terms = {f[r] : r \in Rules}
  BY DEF Terms
<1> QED
  BY <1>1, <1>2

LEMMA WordFacts ==
  /\ IsFiniteSet(Words)
  /\ \A w \in Words : w \in Constituent /\ TagEdge(w) \in Edge /\ w.term \notin Terms
<1>1. IsFiniteSet(Words)
  <2> DEFINE OfWord(i) == {ItemAt(t, i - 1, i) : t \in Tags[i]}
             g == [i \in 1 .. Length |-> OfWord(i)]
  <2>1. ASSUME NEW i \in 1 .. Length
        PROVE  IsFiniteSet(OfWord(i))
    <3> DEFINE f == [t \in Tags[i] |-> ItemAt(t, i - 1, i)]
    <3>1. IsFiniteSet({f[t] : t \in Tags[i]})
      BY ImageIsFinite, ChartAssumption
    <3>2. OfWord(i) = {f[t] : t \in Tags[i]}
      OBVIOUS
    <3> QED
      BY <3>1, <3>2
  <2>2. IsFiniteSet(1 .. Length)
    BY FS_Interval, ChartAssumption
  <2>3. Words = UNION {g[i] : i \in 1 .. Length}
    BY DEF Words
  <2> HIDE DEF OfWord
  <2>4. IsFiniteSet({g[i] : i \in 1 .. Length})
    BY <2>2, ImageIsFinite
  <2>5. \A T \in {g[i] : i \in 1 .. Length} : IsFiniteSet(T)
    BY <2>1
  <2> QED
    BY <2>3, <2>4, <2>5, FS_UNION
<1>2. ASSUME NEW w \in Words
      PROVE  w \in Constituent /\ TagEdge(w) \in Edge /\ w.term \notin Terms
  <2>1. PICK i \in 1 .. Length : \E t \in Tags[i] : w = ItemAt(t, i - 1, i)
    BY DEF Words
  <2> PICK t \in Tags[i] : w = ItemAt(t, i - 1, i)
    BY <2>1
  <2>2. t \in Term /\ t \notin Terms /\ i \in 0 .. Length /\ i - 1 \in 0 .. Length /\ i - 1 < i
    BY TermsAreTerm, ChartAssumption
  <2>3. w.term = t /\ w.start = i - 1 /\ w.finish = i
    BY DEF ItemAt
  <2>4. w \in Constituent
    BY <2>2, <2>3 DEF Constituent, Item, ItemAt
  <2>5. << >> \in Seq(Item)
    BY EmptySeq
  <2>6. TagEdge(w) \in Edge
    BY <2>2, <2>3, <2>5 DEF TagEdge, Edge
  <2> QED
    BY <2>2, <2>3, <2>4, <2>6
<1> QED
  BY <1>1, <1>2

LEMMA InitInv == ChartInit => IInv
<1> SUFFICES ASSUME ChartInit PROVE IInv
  OBVIOUS
<1>1. IsFiniteSet(made)
  <2> DEFINE f == [w \in Words |-> TagEdge(w)]
  <2>1. IsFiniteSet({f[w] : w \in Words})
    BY ImageIsFinite, WordFacts
  <2>2. made = {f[w] : w \in Words}
    BY DEF ChartInit
  <2> QED
    BY <2>1, <2>2
<1>2. Typed
  <2>1. made \subseteq Edge /\ agenda = made
    BY WordFacts DEF ChartInit
  <2>2. regs = {} /\ waiting = {} /\ IsFiniteSet({})
    BY FS_EmptySet DEF ChartInit
  <2> QED
    BY <1>1, <2>1, <2>2 DEF Typed
<1>3. Timed
  <2>1. timeout \in Nat /\ locTimeout = timeout
    BY ChartAssumption DEF ChartInit
  <2>2. haveS \in BOOLEAN /\ answer \in {"none", "parse", "badParse"}
    BY DEF ChartInit
  <2> QED
    BY <2>1, <2>2 DEF Timed
<1>4. Popped = {}
  BY DEF ChartInit, Popped
<1>5. ItemsCome /\ GrowersWait /\ PairsMet /\ NoEdgeTwice
  BY <1>4 DEF ChartInit, ItemsCome, GrowersWait, PairsMet, NoEdgeTwice
<1>6. Origins
  BY DEF ChartInit, Origins
<1> QED
  BY <1>2, <1>3, <1>5, <1>6 DEF IInv

LEMMA NoteSTimes ==
  ASSUME Typed, Timed, NoteS
  PROVE  Timed'
<1>1. Cardinality(made) \in Nat
  BY FS_CardinalityType DEF Typed
<1>2. Cardinality(made) * TimeFactor \in Nat
  BY <1>1, ChartAssumption
<1>3. (haveS \/ GetS) \in BOOLEAN
  OBVIOUS
<1> QED
  BY <1>2, <1>3 DEF NoteS, Timed

(* An edge that is popped while it grows meets what is there. *)
UsesOfEdge(edge) ==
  {<<edge, i, edge.status>> : i \in {j \in regs : Beside(edge, j)} \cup {Stop(Side(edge))}}

LEMMA AddEdgeUses ==
  ASSUME IInv, NEW edge \in agenda, AddEdge(edge)
  PROVE  /\ Growing(edge) /\ ExtendRules(edge, UsesOfEdge(edge))
         /\ NewUses(edge, UsesOfEdge(edge)) /\ IsFiniteSet(UsesOfEdge(edge))
         /\ \A i \in regs : Beside(edge, i) => <<edge, i, edge.status>> \in UsesOfEdge(edge)
<1> DEFINE there == {i \in regs : Beside(edge, i)}
           uses == {<<edge, i, edge.status>> : i \in there \cup {Stop(Side(edge))}}
<1>1. Growing(edge) /\ ExtendRules(edge, uses) /\ UNCHANGED regs
  BY DEF AddEdge, Growing, Beside, Side
<1>2. edge \in Edge /\ edge \notin Popped \cup Heads
  BY HeadFacts DEF IInv, Typed, Popped
<1>3. Side(edge) \in 0 .. Length /\ Stop(Side(edge)) \in Stops /\ Beside(edge, Stop(Side(edge)))
  BY <1>2, EdgeFacts, StopFacts DEF Side, Stops, Beside
<1>4. ASSUME NEW i \in there \cup {Stop(Side(edge))}
      PROVE  /\ i \in regs \cup Stops /\ Fits(edge, i)
             /\ Extend(edge, i, edge.status) \notin made
  <2>1. i \in regs \cup Stops /\ Fits(edge, i)
    BY <1>1, <1>2, <1>3 DEF IInv, Typed, Fits
  <2> QED
    BY <1>2, <2>1, NotMadeBefore DEF IInv
<1>5. NewUses(edge, uses)
  BY <1>1, <1>4 DEF NewUses
<1>6. IsFiniteSet(uses)
  <2> DEFINE f == [i \in there \cup {Stop(Side(edge))} |-> <<edge, i, edge.status>>]
  <2>1. IsFiniteSet(there \cup {Stop(Side(edge))})
    BY FS_Subset, FS_AddElement DEF IInv, Typed
  <2>2. IsFiniteSet({f[i] : i \in there \cup {Stop(Side(edge))}})
    BY <2>1, ImageIsFinite
  <2> QED
    BY <2>2
<1>7. \A i \in there : <<edge, i, edge.status>> \in uses
  OBVIOUS
<1>8. uses = UsesOfEdge(edge)
  BY DEF UsesOfEdge
<1> HIDE DEF uses
<1> QED
  BY <1>1, <1>5, <1>6, <1>7, <1>8

LEMMA AddEdgeInv ==
  ASSUME IInv, NEW edge \in agenda, AddEdge(edge)
  PROVE  IInv'
<1> DEFINE uses == UsesOfEdge(edge)
<1> HIDE DEF uses
<1>1. /\ Growing(edge) /\ ExtendRules(edge, uses) /\ NewUses(edge, uses) /\ IsFiniteSet(uses)
      /\ \A i \in regs : Beside(edge, i) => <<edge, i, edge.status>> \in uses
  BY AddEdgeUses DEF uses
<1>2. /\ waiting' = waiting \cup {<<edge.status, Side(edge), edge>>}
      /\ NoteS /\ UNCHANGED regs
  BY DEF AddEdge, Side
<1>3. /\ made \subseteq made' /\ made' \subseteq Edge /\ agenda' \subseteq made'
      /\ Popped' = Popped \cup {edge} /\ NoEdgeTwice' /\ Origins' /\ IsFiniteSet(made')
      /\ \A u \in uses : \/ Extend(u[1], u[2], u[3]) \in made'
                         \/ ~HasMerit(Extend(u[1], u[2], u[3]))
  BY <1>1, <1>2, ExtendRulesMakes DEF IInv
<1>4. Typed'
  BY <1>2, <1>3, FS_AddElement DEF IInv, Typed
<1>5. Timed'
  BY <1>2, NoteSTimes DEF IInv
<1>6. ItemsCome'
  BY <1>2, <1>3 DEF IInv, ItemsCome
<1>7. GrowersWait'
  BY <1>1, <1>2, <1>3 DEF IInv, GrowersWait
<1>8. PairsMet'
  <2> SUFFICES ASSUME NEW e \in Popped', Growing(e), NEW i \in regs', Beside(e, i)
               PROVE  Met(e, i)'
    BY DEF PairsMet
  <2>1. CASE e = edge
    <3>1. <<edge, i, edge.status>> \in uses
      BY <1>1, <1>2, <2>1
    <3>2. \/ Extend(edge, i, edge.status) \in made'
          \/ ~HasMerit(Extend(edge, i, edge.status))
      BY <1>3, <3>1
    <3> QED
      BY <2>1, <3>2 DEF Met
  <2>2. CASE e \in Popped
    BY <1>2, <1>3, <2>2, MetStays DEF IInv, PairsMet
  <2> QED
    BY <1>3, <2>1, <2>2
<1> QED
  BY <1>3, <1>4, <1>5, <1>6, <1>7, <1>8 DEF IInv

(* A new item meets what waits beside it. *)
UsesOfItem(item) ==
  {<<Headless(l), item, 0>> : l \in PosStarts(item.term)}
  \cup {<<w[3], item, w[1]>> :
          w \in {v \in waiting : v[2] = IF v[1] = 1 THEN item.start ELSE item.finish}}

LEMMA AddRegItemUses ==
  ASSUME IInv, NEW popped \in agenda, NEW item \in Constituent, item \notin regs,
         AddRegItem(popped, item)
  PROVE  /\ ExtendRules(popped, UsesOfItem(item)) /\ NewUses(popped, UsesOfItem(item))
         /\ IsFiniteSet(UsesOfItem(item))
         /\ \A e \in Popped : Growing(e) /\ Beside(e, item) =>
               <<e, item, e.status>> \in UsesOfItem(item)
<1> DEFINE heads == {<<Headless(l), item, 0>> : l \in PosStarts(item.term)}
           near == {v \in waiting : v[2] = IF v[1] = 1 THEN item.start ELSE item.finish}
           met == {<<w[3], item, w[1]>> : w \in near}
           uses == heads \cup met
<1>1. /\ regs' = regs \cup {item} /\ ExtendRules(popped, uses) /\ UNCHANGED waiting
  BY DEF AddRegItem
<1>2. PosStarts(item.term) \subseteq Terms
  BY DEF PosStarts, Terms
<1>3. /\ \A v \in near : /\ v[3] \in Popped /\ Growing(v[3]) /\ Beside(v[3], item)
                         /\ v[1] = v[3].status
      /\ \A e \in Popped : Growing(e) /\ Beside(e, item) =>
            <<e.status, Side(e), e>> \in near
  BY DEF IInv, GrowersWait, Beside
<1>4. Popped \subseteq Edge /\ item \notin regs \cup Stops
  BY StopFacts DEF IInv, Typed, Popped, Stops
<1>5. ASSUME NEW u \in uses
      PROVE  \E e \in Popped \cup Heads : u = <<e, item, e.status>> /\ Fits(e, item)
  <2>1. CASE u \in heads
    <3>1. PICK l \in PosStarts(item.term) : u = <<Headless(l), item, 0>>
      BY <2>1
    <3>2. Headless(l) \in Heads /\ Headless(l).status = 0
      BY <1>2 DEF Heads, Headless
    <3> QED
      BY <3>1, <3>2 DEF Fits
  <2>2. CASE u \in met
    <3>1. PICK w \in near : u = <<w[3], item, w[1]>>
      BY <2>2
    <3> HIDE DEF near
    <3>2. w[3] \in Popped /\ Fits(w[3], item) /\ w[1] = w[3].status
      BY <1>3, <1>4 DEF Fits
    <3> QED
      BY <3>1, <3>2
  <2> QED
    BY <2>1, <2>2
<1>6. IsFiniteSet(uses)
  <2> DEFINE f == [l \in PosStarts(item.term) |-> <<Headless(l), item, 0>>]
             g == [w \in near |-> <<w[3], item, w[1]>>]
  <2>1. IsFiniteSet(PosStarts(item.term)) /\ IsFiniteSet(near)
    BY <1>2, TermsAreFinite, FS_Subset DEF IInv, Typed
  <2> HIDE DEF near
  <2>2. IsFiniteSet({f[l] : l \in PosStarts(item.term)})
    BY <2>1, ImageIsFinite
  <2>3. IsFiniteSet({g[w] : w \in near})
    BY <2>1, ImageIsFinite
  <2>4. heads = {f[l] : l \in PosStarts(item.term)} /\ met = {g[w] : w \in near}
    OBVIOUS
  <2> QED
    BY <2>2, <2>3, <2>4, FS_Union
<1>7. \A e \in Popped : Growing(e) /\ Beside(e, item) => <<e, item, e.status>> \in uses
  <2> SUFFICES ASSUME NEW e \in Popped, Growing(e), Beside(e, item)
               PROVE  <<e, item, e.status>> \in met
    OBVIOUS
  <2> DEFINE w == <<e.status, Side(e), e>>
  <2>1. w \in near
    BY <1>3
  <2>2. w[1] = e.status /\ w[3] = e
    OBVIOUS
  <2> HIDE DEF w, near
  <2> QED
    BY <2>1, <2>2
<1> HIDE DEF uses
<1>8. NewUses(popped, uses)
  <2> SUFFICES ASSUME NEW u \in uses
               PROVE  /\ \E e \in Popped \cup {popped} \cup Heads, i \in regs' \cup Stops :
                           u = <<e, i, e.status>> /\ Fits(e, i)
                      /\ Extend(u[1], u[2], u[3]) \notin made
    BY DEF NewUses
  <2>1. PICK e \in Popped \cup Heads : u = <<e, item, e.status>> /\ Fits(e, item)
    BY <1>5
  <2>2. Extend(e, item, e.status) \notin made
    BY <1>4, <2>1, NotMadeBefore DEF IInv
  <2> QED
    BY <1>1, <2>1, <2>2
<1>9. uses = UsesOfItem(item)
  BY DEF UsesOfItem, uses
<1> QED
  BY <1>1, <1>6, <1>7, <1>8, <1>9

LEMMA AddRegItemInv ==
  ASSUME IInv, NEW popped \in agenda, ~Growing(popped), NEW item \in Constituent,
         item \notin regs, item.term \in Terms \/ popped = TagEdge(item),
         AddRegItem(popped, item), NoteS
  PROVE  IInv'
<1> DEFINE uses == UsesOfItem(item)
<1> HIDE DEF uses
<1>1. /\ ExtendRules(popped, uses) /\ NewUses(popped, uses) /\ IsFiniteSet(uses)
      /\ \A e \in Popped : Growing(e) /\ Beside(e, item) => <<e, item, e.status>> \in uses
  BY AddRegItemUses DEF uses
<1>2. regs' = regs \cup {item} /\ UNCHANGED waiting
  BY DEF AddRegItem
<1>3. /\ made \subseteq made' /\ made' \subseteq Edge /\ agenda' \subseteq made'
      /\ Popped' = Popped \cup {popped} /\ NoEdgeTwice' /\ Origins' /\ IsFiniteSet(made')
      /\ \A u \in uses : \/ Extend(u[1], u[2], u[3]) \in made'
                         \/ ~HasMerit(Extend(u[1], u[2], u[3]))
  BY <1>1, <1>2, ExtendRulesMakes DEF IInv
<1>4. Typed'
  BY <1>2, <1>3, FS_AddElement DEF IInv, Typed
<1>5. Timed'
  BY NoteSTimes DEF IInv
<1>6. ItemsCome'
  BY <1>2, <1>3 DEF IInv, ItemsCome
<1>7. GrowersWait'
  BY <1>2, <1>3 DEF IInv, GrowersWait
<1>8. PairsMet'
  <2> SUFFICES ASSUME NEW e \in Popped', Growing(e), NEW i \in regs', Beside(e, i)
               PROVE  Met(e, i)'
    BY DEF PairsMet
  <2>1. e \in Popped
    BY <1>3
  <2>2. CASE i \in regs
    BY <1>3, <2>1, <2>2, MetStays DEF IInv, PairsMet
  <2>3. CASE i = item
    <3>1. <<e, item, e.status>> \in uses
      BY <1>1, <2>1, <2>3
    <3>2. \/ Extend(e, item, e.status) \in made'
          \/ ~HasMerit(Extend(e, item, e.status))
      BY <1>3, <3>1
    <3> QED
      BY <2>3, <3>2 DEF Met
  <2> QED
    BY <1>2, <2>2, <2>3
<1> QED
  BY <1>3, <1>4, <1>5, <1>6, <1>7, <1>8 DEF IInv

(* A tag comes into the chart as its word; it is not there yet, for it was not popped
   and no rule makes it. *)
LEMMA TagIsNew ==
  ASSUME IInv, NEW edge \in agenda, AddTag(edge)
  PROVE  LET item == ItemAt(edge.lhs, edge.start, edge.loc) IN
         /\ edge = TagEdge(item) /\ item \in Constituent /\ item \notin regs
         /\ ~Growing(edge)
<1> DEFINE item == ItemAt(edge.lhs, edge.start, edge.loc)
<1>1. edge.status = 2 /\ edge.got = << >>
  BY DEF AddTag
<1>2. PICK w \in Words : edge = TagEdge(w)
  <2>1. \A e, i : Fits(e, i) => edge # Extend(e, i, e.status)
    BY <1>1, ExtendFacts
  <2>2. edge \in made
    BY DEF IInv, Typed
  <2> QED
    BY <2>1, <2>2 DEF IInv, Origins
<1>3. item = w
  <2>1. w \in Item
    BY WordFacts DEF Constituent
  <2> QED
    BY <1>2, <2>1 DEF TagEdge, ItemAt, Item
<1>4. w \in Constituent /\ w.term \notin Terms /\ ~Growing(edge)
  BY <1>1, WordFacts DEF Growing
<1>5. w \notin regs
  BY <1>2, <1>4 DEF IInv, ItemsCome, Popped
<1> QED
  BY <1>2, <1>3, <1>4, <1>5

LEMMA AddTagInv ==
  ASSUME IInv, NEW edge \in agenda, AddTag(edge)
  PROVE  IInv'
<1> DEFINE item == ItemAt(edge.lhs, edge.start, edge.loc)
<1>1. AddRegItem(edge, item) /\ NoteS
  BY DEF AddTag
<1>2. edge = TagEdge(item) /\ item \in Constituent /\ item \notin regs /\ ~Growing(edge)
  BY TagIsNew
<1> QED
  BY <1>1, <1>2, AddRegItemInv

LEMMA AddConstituentInv ==
  ASSUME IInv, NEW edge \in agenda, AddConstituent(edge)
  PROVE  IInv'
<1> DEFINE item == ItemAt(edge.lhs, edge.start, edge.loc)
<1>1. /\ edge.status = 2 /\ edge.got # << >> /\ NoteS
      /\ IF item \in regs THEN ExtendRules(edge, {}) /\ UNCHANGED <<regs, waiting>>
         ELSE AddRegItem(edge, item)
  BY DEF AddConstituent
<1>2. edge \in Edge /\ ~Growing(edge)
  BY <1>1 DEF IInv, Typed, Growing
<1>3. item \in Constituent /\ item.term \in Terms
  BY <1>1, <1>2, EdgeFacts DEF ItemAt, Constituent, Item
<1>4. CASE item \notin regs
  BY <1>1, <1>2, <1>3, <1>4, AddRegItemInv
<1>5. CASE item \in regs
  <2>1. ExtendRules(edge, {}) /\ UNCHANGED <<regs, waiting>>
    BY <1>1, <1>5
  <2>2. NewUses(edge, {}) /\ IsFiniteSet({})
    BY FS_EmptySet DEF NewUses
  <2>3. /\ made \subseteq made' /\ made' \subseteq Edge /\ agenda' \subseteq made'
        /\ Popped' = Popped \cup {edge} /\ NoEdgeTwice' /\ Origins' /\ IsFiniteSet(made')
    BY <2>1, <2>2, ExtendRulesMakes DEF IInv
  <2>4. Typed'
    BY <2>1, <2>3 DEF IInv, Typed
  <2>5. Timed'
    BY <1>1, NoteSTimes DEF IInv
  <2>6. ItemsCome' /\ GrowersWait'
    BY <1>2, <2>1, <2>3 DEF IInv, ItemsCome, GrowersWait
  <2>7. PairsMet'
    <3> SUFFICES ASSUME NEW e \in Popped', Growing(e), NEW i \in regs', Beside(e, i)
                 PROVE  Met(e, i)'
      BY DEF PairsMet
    <3> QED
      BY <1>2, <2>1, <2>3, MetStays DEF IInv, PairsMet
  <2> QED
    BY <2>3, <2>4, <2>5, <2>6, <2>7 DEF IInv
<1> QED
  BY <1>4, <1>5

LEMMA NextInv == IInv /\ [ChartNext]_chartVars => IInv'
<1> SUFFICES ASSUME IInv, [ChartNext]_chartVars PROVE IInv'
  OBVIOUS
<1>1. ASSUME UNCHANGED <<agenda, made, again, regs, waiting, haveS, locTimeout, timeout>>,
             answer' \in {"none", "parse", "badParse"}
      PROVE  IInv'
  <2>1. Popped' = Popped
    BY <1>1 DEF Popped
  <2>2. Typed' /\ ItemsCome' /\ GrowersWait' /\ Origins' /\ NoEdgeTwice'
    BY <1>1, <2>1 DEF IInv, Typed, ItemsCome, GrowersWait, Origins, NoEdgeTwice
  <2>3. Timed'
    BY <1>1 DEF IInv, Timed
  <2>4. PairsMet'
    BY <1>1, <2>1 DEF IInv, PairsMet, Met
  <2> QED
    BY <2>2, <2>3, <2>4 DEF IInv
<1>2. CASE Finish
  BY <1>1, <1>2 DEF Finish
<1>3. CASE UNCHANGED chartVars
  BY <1>1, <1>3 DEF IInv, Timed, chartVars
<1> QED
  BY <1>2, <1>3, AddEdgeInv, AddTagInv, AddConstituentInv DEF ChartNext

LEMMA Inductive == ChartSpec => []IInv
BY InitInv, NextInv, PTL DEF ChartSpec

-----------------------------------------------------------------------------
(* The links. *)

LEMMA LastOfExtend ==
  ASSUME NEW e, NEW i, Fits(e, i)
  PROVE  /\ LastOf(Extend(e, i, e.status)) = i
         /\ Len(Extend(e, i, e.status).got) = Len(e.got) + 1
         /\ Len(e.got) \in Nat /\ (e.got = << >> <=> Len(e.got) = 0)
BY ExtendFacts, SequencesOfItems DEF LastOf

LEMMA BuiltNow ==
  ASSUME Typed, Origins, NoEdgeTwice, NEW popped \in agenda, NEW uses,
         regs \subseteq regs', NewUses(popped, uses), ExtendRules(popped, uses),
         LinksAreTrue
  PROVE  /\ needme' = {<<LastOf(x), x>> : x \in {y \in Built' : LastOf(y).term # StopTerm}}
         /\ sucs' = {p \in Built' \X Built' : MadeFrom(p[1], p[2])}
         /\ Built' \ agenda' = (Built \ agenda) \cup ({popped} \cap Built)
<1> DEFINE extended == {<<u[1], u[2], Extend(u[1], u[2], u[3])>> : u \in uses}
           kept == {x \in extended : HasMerit(x[3])}
           new == {x[3] : x \in kept}
<1>1. /\ made' = made \cup new
      /\ needme' = needme \cup {<<x[2], x[3]>> : x \in {y \in kept : y[2].term # StopTerm}}
      /\ sucs' = sucs \cup {<<x[1], x[3]>> : x \in {y \in kept : y[1].got # << >>}}
  BY DEF ExtendRules
<1>2. \A x \in kept : \E e \in Popped \cup {popped} \cup Heads, i \in regs' \cup Stops :
        Fits(e, i) /\ x = <<e, i, Extend(e, i, e.status)>>
  BY DEF NewUses
<1>3. Popped' = Popped \cup {popped} /\ agenda' \subseteq made' /\ made \subseteq made'
  BY ExtendRulesMakes
<1> HIDE DEF kept
<1>4. \A x \in kept : /\ x[1] \in Popped \cup {popped} \cup Heads
                      /\ Fits(x[1], x[2]) /\ x[3] = Extend(x[1], x[2], x[1].status)
                      /\ x[3].got # << >> /\ LastOf(x[3]) = x[2]
                      /\ x[1].got # << >> => x[1] \in Built
  <2> SUFFICES ASSUME NEW x \in kept
               PROVE  /\ x[1] \in Popped \cup {popped} \cup Heads
                      /\ Fits(x[1], x[2]) /\ x[3] = Extend(x[1], x[2], x[1].status)
                      /\ x[3].got # << >> /\ LastOf(x[3]) = x[2]
                      /\ x[1].got # << >> => x[1] \in Built
    OBVIOUS
  <2>1. PICK e \in Popped \cup {popped} \cup Heads, i \in regs' \cup Stops :
          Fits(e, i) /\ x = <<e, i, Extend(e, i, e.status)>>
    BY <1>2
  <2>2. x[1] = e /\ x[2] = i /\ x[3] = Extend(e, i, e.status)
    BY <2>1
  <2>3. e.got # << >> => e \in made
    BY HeadFacts DEF Typed, Popped
  <2> QED
    BY <2>1, <2>2, <2>3, ExtendFacts, LastOfExtend DEF Built
<1>5. Built' = Built \cup new
  BY <1>1, <1>4 DEF Built
<1>6. needme' = {<<LastOf(x), x>> : x \in {y \in Built' : LastOf(y).term # StopTerm}}
  <2>1. {<<x[2], x[3]>> : x \in {y \in kept : y[2].term # StopTerm}}
          = {<<LastOf(x), x>> : x \in {y \in new : LastOf(y).term # StopTerm}}
    BY <1>4
  <2> HIDE DEF new
  <2> QED
    BY <1>1, <1>5, <2>1 DEF LinksAreTrue
<1>7. sucs' = {p \in Built' \X Built' : MadeFrom(p[1], p[2])}
  <2>1. ASSUME NEW p \in sucs'
        PROVE  p \in Built' \X Built' /\ MadeFrom(p[1], p[2])
    <3>1. CASE p \in sucs
      BY <1>5, <3>1 DEF LinksAreTrue
    <3>2. CASE p \notin sucs
      <4>1. PICK x \in kept : p = <<x[1], x[3]>> /\ x[1].got # << >>
        BY <1>1, <3>2
      <4>2. x[1] \in Built /\ x[3] \in new
        BY <1>4, <4>1
      <4>3. MadeFrom(x[1], x[3])
        BY <1>4 DEF MadeFrom
      <4> QED
        BY <1>5, <4>1, <4>2, <4>3
    <3> QED
      BY <3>1, <3>2
  <2>2. ASSUME NEW e \in Built', NEW x \in Built', MadeFrom(e, x)
        PROVE  <<e, x>> \in sucs'
    <3>1. e.got # << >> /\ e \notin Heads
      BY HeadFacts DEF Built
    <3>2. CASE x \in Built
      <4>1. x.got # << >> /\ x \in made
        BY <3>2 DEF Built
      <4>2. x \notin {TagEdge(w) : w \in Words}
        <5>1. \A w : TagEdge(w).got = << >>
          BY DEF TagEdge
        <5> QED
          BY <4>1, <5>1
      <4>3. PICK f \in Popped \cup Heads, j \in regs \cup Stops :
              Fits(f, j) /\ x = Extend(f, j, f.status)
        BY <4>1, <4>2 DEF Origins
      <4>4. e = f
        BY <2>2, <4>3, ExtendInjective DEF MadeFrom
      <4>5. e \in Built
        BY <3>1, <4>3, <4>4 DEF Built, Popped
      <4> QED
        BY <1>1, <2>2, <3>2, <4>5 DEF LinksAreTrue
    <3>3. CASE x \in new
      <4>1. PICK y \in kept : x = y[3]
        BY <3>3
      <4>2. e = y[1]
        BY <1>4, <2>2, <4>1, ExtendInjective DEF MadeFrom
      <4> QED
        BY <1>1, <3>1, <4>1, <4>2
    <3> QED
      BY <1>5, <3>2, <3>3
  <2> QED
    BY <2>1, <2>2
<1>8. Built' \ agenda' = (Built \ agenda) \cup ({popped} \cap Built)
  <2>1. \A x : x \in Built <=> x \in made /\ x.got # << >>
    BY DEF Built
  <2>2. \A x : x \in Built' <=> x \in made' /\ x.got # << >>
    BY DEF Built
  <2>3. popped \in made
    BY DEF Typed
  <2> QED
    BY <1>3, <2>1, <2>2, <2>3 DEF Popped
<1> QED
  BY <1>6, <1>7, <1>8

LEMMA LinksNext ==
  ASSUME IInv, LinksAreTrue, [ChartNext]_chartVars
  PROVE  LinksAreTrue'
<1> DEFINE Pair(x) == <<ItemAt(x.lhs, x.start, x.loc), x>>
           Finished == {x \in Built \ agenda : x.status = 2}
<1>1. ASSUME NEW edge \in agenda, NEW uses, NewUses(edge, uses), regs \subseteq regs',
             ExtendRules(edge, uses),
             ineed' = ineed \cup IF edge.status = 2 /\ edge.got # << >> THEN {Pair(edge)} ELSE {}
      PROVE  LinksAreTrue'
  <2>1. /\ needme' = {<<LastOf(x), x>> : x \in {y \in Built' : LastOf(y).term # StopTerm}}
        /\ sucs' = {p \in Built' \X Built' : MadeFrom(p[1], p[2])}
        /\ Built' \ agenda' = (Built \ agenda) \cup ({edge} \cap Built)
    BY <1>1, BuiltNow DEF IInv
  <2>2. edge \in Built <=> edge.got # << >>
    <3>1. edge \in made
      BY DEF IInv, Typed
    <3> QED
      BY <3>1 DEF Built
  <2>3. Finished' = Finished \cup IF edge.status = 2 /\ edge.got # << >> THEN {edge} ELSE {}
    BY <2>1, <2>2
  <2> HIDE DEF Finished
  <2>4. ineed = {Pair(x) : x \in Finished}
    BY DEF Finished, LinksAreTrue
  <2>5. ineed' = {Pair(x) : x \in Finished'}
    BY <1>1, <2>3, <2>4
  <2> QED
    BY <2>1, <2>5 DEF Finished, LinksAreTrue
<1>2. ASSUME NEW edge \in agenda, AddEdge(edge)
      PROVE  LinksAreTrue'
  <2>1. ExtendRules(edge, UsesOfEdge(edge)) /\ NewUses(edge, UsesOfEdge(edge)) /\ Growing(edge)
    BY <1>2, AddEdgeUses
  <2>2. edge.status # 2 /\ ineed' = ineed /\ regs' = regs
    BY <1>2, <2>1 DEF AddEdge, Growing
  <2> QED
    BY <1>1, <2>1, <2>2
<1>3. ASSUME NEW edge \in agenda, AddTag(edge)
      PROVE  LinksAreTrue'
  <2> DEFINE item == ItemAt(edge.lhs, edge.start, edge.loc)
  <2>1. /\ edge.got = << >> /\ AddRegItem(edge, item) /\ ineed' = ineed
        /\ regs' = regs \cup {item}
    BY <1>3 DEF AddTag, AddRegItem
  <2>2. item \in Constituent /\ item \notin regs
    BY <1>3, TagIsNew
  <2> HIDE DEF item
  <2>3. ExtendRules(edge, UsesOfItem(item)) /\ NewUses(edge, UsesOfItem(item))
    BY <2>1, <2>2, AddRegItemUses
  <2> QED
    BY <1>1, <2>1, <2>3
<1>4. ASSUME NEW edge \in agenda, AddConstituent(edge)
      PROVE  LinksAreTrue'
  <2> DEFINE item == ItemAt(edge.lhs, edge.start, edge.loc)
  <2>1. /\ edge.status = 2 /\ edge.got # << >>
        /\ IF item \in regs THEN ExtendRules(edge, {}) /\ UNCHANGED <<regs, waiting>>
           ELSE AddRegItem(edge, item)
        /\ ineed' = ineed \cup {Pair(edge)}
    BY <1>4 DEF AddConstituent
  <2>2. item \in Constituent
    BY <2>1, EdgeFacts DEF IInv, Typed, ItemAt, Constituent, Item
  <2> HIDE DEF item
  <2>3. CASE item \in regs
    <3>1. ExtendRules(edge, {}) /\ regs' = regs /\ NewUses(edge, {})
      BY <2>1, <2>3 DEF NewUses
    <3> QED
      BY <1>1, <2>1, <3>1
  <2>4. CASE item \notin regs
    <3>1. AddRegItem(edge, item) /\ regs' = regs \cup {item}
      BY <2>1, <2>4 DEF AddRegItem
    <3>2. ExtendRules(edge, UsesOfItem(item)) /\ NewUses(edge, UsesOfItem(item))
      BY <2>2, <2>4, <3>1, AddRegItemUses
    <3> QED
      BY <1>1, <2>1, <3>1, <3>2
  <2> QED
    BY <2>3, <2>4
<1>5. ASSUME UNCHANGED <<agenda, made, needme, sucs, ineed>>
      PROVE  LinksAreTrue'
  BY <1>5 DEF LinksAreTrue, Built
<1> QED
  BY <1>2, <1>3, <1>4, <1>5 DEF ChartNext, Finish, chartVars

LEMMA LinksInit == ChartInit => LinksAreTrue
<1> SUFFICES ASSUME ChartInit PROVE LinksAreTrue
  OBVIOUS
<1>1. \A w : TagEdge(w).got = << >>
  BY DEF TagEdge
<1>2. Built = {}
  BY <1>1 DEF ChartInit, Built
<1> QED
  BY <1>2 DEF ChartInit, LinksAreTrue

LEMMA LinksInductive == ChartSpec => []LinksAreTrue
BY LinksInit, LinksNext, Inductive, PTL DEF ChartSpec

-----------------------------------------------------------------------------
(* What NeedmeIter visits: the edges of needme of an item, and on through sucs. *)

Has(e, i) == \E k \in DOMAIN e.got : e.got[k] = i

With(i) == {x \in made : Has(x, i)}

Needing(i) == {p[2] : p \in {q \in needme : q[1] = i}}

FollowsSucs(S) == \A p \in sucs : p[1] \in S => p[2] \in S

(* The edges with the item are the least set with those of needme that sucs does not
   lead out of. *)
IteratorIsRight ==
  \A i \in regs :
    /\ Needing(i) \subseteq With(i) /\ FollowsSucs(With(i))
    /\ \A S \in SUBSET made :
         Needing(i) \subseteq S /\ FollowsSucs(S) => With(i) \subseteq S

LEMMA ItemsAreNotStop ==
  ASSUME IInv, NEW i \in regs
  PROVE  i.term # StopTerm
<1>1. CASE i.term \in Terms
  BY <1>1, ChartAssumption
<1>2. CASE i.term \notin Terms
  <2>1. TagEdge(i) \in made /\ TagEdge(i).got = << >> /\ TagEdge(i).lhs = i.term
    BY <1>2 DEF IInv, ItemsCome, Popped, TagEdge
  <2>2. \A e, j : Fits(e, j) => TagEdge(i) # Extend(e, j, e.status)
    BY <2>1, ExtendFacts
  <2>3. PICK w \in Words : TagEdge(i) = TagEdge(w)
    BY <2>1, <2>2 DEF IInv, Origins
  <2>4. PICK n \in 1 .. Length : w.term \in Tags[n]
    BY DEF Words, ItemAt
  <2>5. i.term = w.term
    BY <2>1, <2>3 DEF TagEdge
  <2> QED
    BY <2>4, <2>5, ChartAssumption
<1> QED
  BY <1>1, <1>2

LEMMA BuiltIsExtended ==
  ASSUME IInv, NEW x \in Built
  PROVE  \E e \in Popped \cup Heads, j \in regs \cup Stops :
           /\ Fits(e, j) /\ x = Extend(e, j, e.status)
           /\ e.got # << >> => e \in Built
<1>1. x \in made /\ x.got # << >>
  BY DEF Built
<1>2. \A w : TagEdge(w).got = << >>
  BY DEF TagEdge
<1>3. PICK e \in Popped \cup Heads, j \in regs \cup Stops :
        Fits(e, j) /\ x = Extend(e, j, e.status)
  BY <1>1, <1>2 DEF IInv, Origins
<1>4. e.got # << >> => e \in Built
  BY HeadFacts DEF Built, Popped
<1> QED
  BY <1>3, <1>4

(* Where the items of an extended edge are. *)
LEMMA ItemsOfExtended ==
  ASSUME NEW e, NEW j, Fits(e, j), NEW i
  PROVE  Has(Extend(e, j, e.status), i) <=> i = j \/ Has(e, i)
<1> DEFINE n == Len(e.got)
           s == Append(e.got, j)
<1>1. e.got \in Seq(Item) /\ j \in Item /\ Extend(e, j, e.status).got = s
  BY ExtendFacts
<1>2. /\ n \in Nat /\ Len(s) = n + 1 /\ s[n + 1] = j
      /\ \A k \in 1 .. n : s[k] = e.got[k]
      /\ s \in Seq(Item)
  BY <1>1, AppendProperties, LenProperties
<1>3. DOMAIN e.got = 1 .. n /\ DOMAIN s = 1 .. n + 1
  BY <1>1, <1>2, LenProperties
<1> HIDE DEF s, n
<1>4. (\E k \in DOMAIN s : s[k] = i) <=> i = j \/ \E k \in DOMAIN e.got : e.got[k] = i
  BY <1>1, <1>2, <1>3
<1> QED
  BY <1>1, <1>4 DEF Has

LEMMA LeastOne ==
  ASSUME NEW T \in SUBSET Nat, T # {}
  PROVE  \E x \in T : \A y \in T : x <= y
<1> DEFINE R == OpToRel(<, Nat)
<1>1. IsWellFoundedOn(R, Nat)
  BY NatLessThanWellFounded
<1>2. R = {ss \in Nat \X Nat : ss[1] < ss[2]}
  BY DEF OpToRel
<1>3. \A y, x \in Nat : y < x => <<y, x>> \in R
  BY <1>2
<1> HIDE DEF R
<1>4. PICK x \in T : \A y \in T : ~ (<<y, x>> \in R)
  BY <1>1, WFMin
<1>5. \A y \in T : ~(y < x)
  BY <1>3, <1>4
<1> QED
  BY <1>5

LEMMA IteratorReaches ==
  ASSUME IInv, LinksAreTrue, NEW i \in regs, NEW S \in SUBSET made,
         Needing(i) \subseteq S, FollowsSucs(S)
  PROVE  With(i) \subseteq S
<1> DEFINE Missed == With(i) \ S
           Sizes == {Len(x.got) : x \in Missed}
<1> SUFFICES ASSUME Missed # {}
             PROVE  FALSE
  OBVIOUS
<1>1. \A x \in Missed : x \in Edge /\ x \in Built /\ Len(x.got) \in Nat
  <2> SUFFICES ASSUME NEW x \in Missed
               PROVE  x \in Edge /\ x \in Built /\ Len(x.got) \in Nat
    OBVIOUS
  <2>1. x \in made /\ x \in Edge
    BY DEF With, IInv, Typed
  <2>2. x.got \in Seq(Item)
    BY <2>1, EdgeFacts
  <2>3. x.got # << >>
    BY DEF With, Has
  <2> QED
    BY <2>1, <2>2, <2>3, LenProperties DEF Built
<1>2. PICK n \in Sizes : \A m \in Sizes : n <= m
  <2>1. Sizes \in SUBSET Nat /\ Sizes # {}
    BY <1>1
  <2> HIDE DEF Sizes
  <2> QED
    BY <2>1, LeastOne
<1>3. PICK x \in Missed : \A y \in Missed : Len(x.got) <= Len(y.got)
  BY <1>2
<1>4. PICK e \in Popped \cup Heads, j \in regs \cup Stops :
        /\ Fits(e, j) /\ x = Extend(e, j, e.status)
        /\ e.got # << >> => e \in Built
  BY <1>1, BuiltIsExtended
<1>5. LastOf(x) = j /\ Len(x.got) = Len(e.got) + 1 /\ Len(e.got) \in Nat
  BY <1>4, LastOfExtend
<1>6. i = j \/ Has(e, i)
  <2>1. Has(x, i) /\ Fits(e, j) /\ x = Extend(e, j, e.status)
    BY <1>3, <1>4 DEF With
  <2> QED
    BY <2>1, ItemsOfExtended
<1>7. CASE i = j
  <2>1. <<i, x>> \in needme
    BY <1>1, <1>5, <1>7, ItemsAreNotStop DEF LinksAreTrue
  <2>2. x \in Needing(i)
    BY <2>1 DEF Needing
  <2> QED
    BY <2>2
<1>8. CASE Has(e, i)
  <2>1. e \in Built
    BY <1>4, <1>8 DEF Has
  <2>2. e \in With(i)
    BY <1>8, <2>1 DEF With, Built
  <2>3. e \in S
    BY <1>3, <1>5, <2>2
  <2>4. MadeFrom(e, x)
    BY <1>4, <1>5 DEF MadeFrom
  <2>5. <<e, x>> \in sucs
    BY <1>1, <2>1, <2>4 DEF LinksAreTrue
  <2> QED
    BY <2>3, <2>5 DEF FollowsSucs
<1> QED
  BY <1>6, <1>7, <1>8

LEMMA IteratorStaysIn ==
  ASSUME IInv, LinksAreTrue, NEW i \in regs
  PROVE  Needing(i) \subseteq With(i) /\ FollowsSucs(With(i))
<1>1. ASSUME NEW x \in Needing(i)
      PROVE  x \in With(i)
  <2>1. <<i, x>> \in needme
    BY DEF Needing, LinksAreTrue
  <2>2. x \in Built /\ LastOf(x) = i
    BY <2>1 DEF LinksAreTrue
  <2>3. x \in made /\ x.got \in Seq(Item) /\ x.got # << >>
    BY <2>2, EdgeFacts DEF Built, IInv, Typed
  <2>4. Len(x.got) \in DOMAIN x.got
    BY <2>3, EmptySeq, LenProperties
  <2> QED
    BY <2>2, <2>3, <2>4 DEF With, Has, LastOf
<1>2. ASSUME NEW p \in sucs, p[1] \in With(i)
      PROVE  p[2] \in With(i)
  <2>1. p[2] \in Built /\ MadeFrom(p[1], p[2])
    BY DEF LinksAreTrue
  <2>2. /\ Fits(p[1], LastOf(p[2])) /\ p[2] = Extend(p[1], LastOf(p[2]), p[1].status)
        /\ p[2] \in made
    BY <2>1 DEF MadeFrom, Built
  <2>3. Has(p[1], i)
    BY <1>2 DEF With
  <2> DEFINE e == p[1]
             j == LastOf(p[2])
  <2>4. Has(Extend(e, j, e.status), i)
    <3>1. Fits(e, j) /\ Has(e, i)
      BY <2>2, <2>3
    <3> HIDE DEF e, j
    <3> QED
      BY <3>1, ItemsOfExtended
  <2> QED
    BY <2>2, <2>4 DEF With
<1> QED
  BY <1>1, <1>2 DEF FollowsSucs

-----------------------------------------------------------------------------
(* The recursive function of AndSucs, which goes on until sucs leads to nothing new. *)

(* One round of NeedmeIter: some edges, and what sucs leads to from them. *)
More(some) == some \cup {p[2] : p \in {s \in sucs : s[1] \in some}}

(* What a function is that goes on so until nothing is new. *)
GoesOn(go, X) == go = [some \in SUBSET X |-> IF More(some) = some THEN some ELSE go[More(some)]]

(* B is the least set with some in it that sucs does not lead out of. *)
IsClosure(some, B, X) ==
  /\ some \subseteq B /\ FollowsSucs(B) /\ B \in SUBSET X
  /\ \A S \in SUBSET X : some \subseteq S /\ FollowsSucs(S) => B \subseteq S

LEMMA MoreFacts ==
  ASSUME NEW X, NEW some \in SUBSET X, \A p \in sucs : p[2] \in X
  PROVE  /\ More(some) \in SUBSET X /\ some \subseteq More(some)
         /\ More(some) = some <=> FollowsSucs(some)
         /\ \A S \in SUBSET X : some \subseteq S /\ FollowsSucs(S) <=> More(some) \subseteq S /\ FollowsSucs(S)
<1>1. More(some) \in SUBSET X /\ some \subseteq More(some)
  BY DEF More
<1>2. More(some) = some <=> FollowsSucs(some)
  BY DEF More, FollowsSucs
<1>3. ASSUME NEW S \in SUBSET X, some \subseteq S, FollowsSucs(S)
      PROVE  More(some) \subseteq S
  BY <1>3 DEF More, FollowsSucs
<1> QED
  BY <1>1, <1>2, <1>3

LEMMA ClosureIsThere ==
  ASSUME NEW X, NEW some \in SUBSET X, \A p \in sucs : p[2] \in X
  PROVE  \E B : IsClosure(some, B, X)
<1> DEFINE closed == {S \in SUBSET X : some \subseteq S /\ FollowsSucs(S)}
           B == {x \in X : \A S \in closed : x \in S}
<1>1. some \subseteq B /\ B \in SUBSET X
  OBVIOUS
<1>2. FollowsSucs(B)
  BY DEF FollowsSucs
<1>3. \A S \in closed : B \subseteq S
  OBVIOUS
<1> QED
  BY <1>1, <1>2, <1>3 DEF IsClosure

LEMMA ClosuresAreEqual ==
  ASSUME NEW X, NEW some, NEW B, NEW C, IsClosure(some, B, X), IsClosure(some, C, X)
  PROVE  B = C
BY DEF IsClosure

(* Whatever function goes on so, finds the least set: the sets grow, and there is
   no end to that only in an infinite set. *)
LEMMA GoesOnToClosure ==
  ASSUME NEW X, IsFiniteSet(X), \A p \in sucs : p[2] \in X, NEW go, GoesOn(go, X),
         NEW some \in SUBSET X, NEW B, IsClosure(some, B, X)
  PROVE  go[some] = B
<1> DEFINE Wrong == {w \in SUBSET X : ~ IsClosure(w, go[w], X)}
           Left == {X \ w : w \in Wrong}
<1>1. Wrong = {}
  <2> SUFFICES ASSUME Wrong # {} PROVE FALSE
    OBVIOUS
  <2>1. IsWellFoundedOn(StrictSubsetOrdering(X), FiniteSubsetsOf(X))
    BY FS_StrictSubsetOrderingWellFounded
  <2>2. Left \subseteq FiniteSubsetsOf(X) /\ Left # {}
    <3>1. FiniteSubsetsOf(X) = SUBSET X
      BY FS_FiniteSubsetsOfFinite
    <3>2. PICK w \in Wrong : TRUE
      OBVIOUS
    <3>3. X \ w \in Left
      BY <3>2
    <3>4. \A l \in Left : l \in SUBSET X
      OBVIOUS
    <3> HIDE DEF Left
    <3> QED
      BY <3>1, <3>3, <3>4
  <2> HIDE DEF Left
  <2>3. PICK l \in Left : \A m \in Left : <<m, l>> \notin StrictSubsetOrdering(X)
    BY <2>1, <2>2, WFMin
  <2>4. PICK w \in Wrong : l = X \ w
    BY DEF Left
  <2> DEFINE more == More(w)
  <2>5. /\ more \in SUBSET X /\ w \subseteq more
        /\ more = w <=> FollowsSucs(w)
        /\ \A S \in SUBSET X : w \subseteq S /\ FollowsSucs(S) <=> more \subseteq S /\ FollowsSucs(S)
    BY <2>4, MoreFacts
  <2>6. go[w] = IF more = w THEN w ELSE go[more]
    BY <2>4 DEF GoesOn
  <2> HIDE DEF more
  <2>7. CASE more = w
    BY <2>4, <2>5, <2>6, <2>7 DEF IsClosure
  <2>8. CASE more # w
    <3>1. X \ more \in SUBSET X /\ l \in SUBSET X /\ X \ more \subseteq l /\ X \ more # l
      <4>1. PICK x \in more : x \notin w
        BY <2>5, <2>8
      <4>2. x \in l /\ x \notin X \ more
        BY <2>4, <2>5, <4>1
      <4>3. l = X \ w
        BY <2>4
      <4> QED
        BY <2>5, <4>2, <4>3
    <3>2. <<X \ more, l>> \in StrictSubsetOrdering(X)
      BY <3>1 DEF StrictSubsetOrdering
    <3>3. more \notin Wrong
      BY <2>3, <3>2 DEF Left
    <3>4. IsClosure(more, go[more], X)
      <4>1. more \in SUBSET X
        BY <2>5
      <4> QED
        BY <3>3, <4>1
    <3>5. IsClosure(w, go[more], X)
      BY <2>5, <3>4 DEF IsClosure
    <3> QED
      BY <2>4, <2>6, <2>8, <3>5
  <2> QED
    BY <2>7, <2>8
<1>2. IsClosure(some, go[some], X)
  BY <1>1
<1> QED
  BY <1>2, ClosuresAreEqual

LEMMA SomeGoesOn ==
  ASSUME NEW X, \A p \in sucs : p[2] \in X
  PROVE  \E go : GoesOn(go, X)
<1> DEFINE go == [some \in SUBSET X |-> CHOOSE B : IsClosure(some, B, X)]
<1>1. ASSUME NEW some \in SUBSET X
      PROVE  IsClosure(some, go[some], X)
  BY ClosureIsThere
<1>2. ASSUME NEW some \in SUBSET X
      PROVE  go[some] = IF More(some) = some THEN some ELSE go[More(some)]
  <2>1. /\ More(some) \in SUBSET X /\ some \subseteq More(some)
        /\ More(some) = some <=> FollowsSucs(some)
        /\ \A S \in SUBSET X : some \subseteq S /\ FollowsSucs(S) <=> More(some) \subseteq S /\ FollowsSucs(S)
    BY MoreFacts
  <2>2. IsClosure(some, go[some], X) /\ IsClosure(More(some), go[More(some)], X)
    BY <1>1, <2>1
  <2> HIDE DEF go
  <2>3. CASE More(some) = some
    <3>1. IsClosure(some, some, X)
      BY <2>1, <2>3 DEF IsClosure
    <3> QED
      BY <2>2, <2>3, <3>1, ClosuresAreEqual
  <2>4. CASE More(some) # some
    <3>1. IsClosure(some, go[More(some)], X)
      BY <2>1, <2>2 DEF IsClosure
    <3> QED
      BY <2>2, <2>4, <3>1, ClosuresAreEqual
  <2> QED
    BY <2>3, <2>4
<1>3. go = [some \in SUBSET X |-> IF More(some) = some THEN some ELSE go[More(some)]]
  <2>1. go = [some \in SUBSET X |-> go[some]]
    OBVIOUS
  <2> HIDE DEF go
  <2> QED
    BY <1>2, <2>1
<1> QED
  BY <1>3 DEF GoesOn

LEMMA AndSucsIsClosure ==
  ASSUME IInv, LinksAreTrue, NEW some \in SUBSET made, NEW B, IsClosure(some, B, made)
  PROVE  AndSucs(some) = B
<1> DEFINE X == made \cup {p[2] : p \in sucs}
           go[s \in SUBSET X] ==
             LET more == s \cup {p[2] : p \in {q \in sucs : q[1] \in s}}
             IN  IF more = s THEN s ELSE go[more]
<1>1. X = made
  BY DEF LinksAreTrue, Built
<1>2. AndSucs(some) = go[some]
  BY DEF AndSucs
<1>3. go = CHOOSE g : GoesOn(g, X)
  BY DEF GoesOn, More
<1>4. \A p \in sucs : p[2] \in X
  OBVIOUS
<1>5. \E g : GoesOn(g, X)
  BY <1>4, SomeGoesOn
<1> HIDE DEF go, X
<1>6. GoesOn(go, X)
  BY <1>3, <1>5
<1>7. IsFiniteSet(X)
  BY <1>1 DEF IInv, Typed
<1>8. go[some] = B
  BY <1>1, <1>4, <1>6, <1>7, GoesOnToClosure
<1> QED
  BY <1>2, <1>8

-----------------------------------------------------------------------------
(* What else has been tried when an edge has been popped or an item has come. *)

ItemOf(e) == ItemAt(e.lhs, e.start, e.loc)

AllIsTried ==
  /\ \A w \in Words : TagEdge(w) \in made
  /\ \A i \in regs : \A l \in PosStarts(i.term) : Met(Headless(l), i)
  /\ \A e \in Popped : Growing(e) => Met(e, Stop(Side(e)))
  /\ \A e \in Popped : e.status = 2 => ItemOf(e) \in regs

(* Nothing is left to be tried: the chart is closed under what one more step of a rule
   would add. *)
ChartIsClosed ==
  agenda = {} =>
    /\ Words \subseteq regs
    /\ \A i \in regs : \A l \in PosStarts(i.term) : Met(Headless(l), i)
    /\ \A e \in made : Growing(e) =>
         Met(e, Stop(Side(e))) /\ \A i \in regs : Beside(e, i) => Met(e, i)
    /\ \A e \in made : e.status = 2 => ItemOf(e) \in regs

(* The parts that stay true by themselves, and those a step adds to. *)
LEMMA TriedByStep ==
  ASSUME IInv, AllIsTried, NEW popped \in agenda, NEW uses, NEW come,
         NewUses(popped, uses), ExtendRules(popped, uses), regs' = regs \cup come,
         \A i \in come : \A l \in PosStarts(i.term) : <<Headless(l), i, 0>> \in uses,
         Growing(popped) => <<popped, Stop(Side(popped)), popped.status>> \in uses,
         popped.status = 2 => ItemOf(popped) \in regs'
  PROVE  AllIsTried'
<1>1. /\ made \subseteq made' /\ Popped' = Popped \cup {popped}
      /\ \A u \in uses : \/ Extend(u[1], u[2], u[3]) \in made'
                         \/ ~HasMerit(Extend(u[1], u[2], u[3]))
  BY ExtendRulesMakes DEF IInv
<1>2. ASSUME NEW e, NEW i, <<e, i, e.status>> \in uses
      PROVE  Met(e, i)'
  <2>1. \/ Extend(e, i, e.status) \in made'
        \/ ~HasMerit(Extend(e, i, e.status))
    BY <1>1, <1>2
  <2> QED
    BY <2>1 DEF Met
<1>3. \A w \in Words : TagEdge(w) \in made'
  BY <1>1 DEF AllIsTried
<1>4. ASSUME NEW i \in regs', NEW l \in PosStarts(i.term)
      PROVE  Met(Headless(l), i)'
  <2>1. CASE i \in regs
    BY <1>1, <2>1, MetStays DEF AllIsTried
  <2>2. CASE i \in come
    <3>1. Headless(l).status = 0 /\ <<Headless(l), i, 0>> \in uses
      BY <2>2 DEF Headless
    <3> QED
      BY <1>2, <3>1
  <2> QED
    BY <2>1, <2>2
<1>5. ASSUME NEW e \in Popped', Growing(e)
      PROVE  Met(e, Stop(Side(e)))'
  <2>1. CASE e \in Popped
    BY <1>1, <1>5, <2>1, MetStays DEF AllIsTried
  <2>2. CASE e = popped
    BY <1>2, <1>5, <2>2
  <2> QED
    BY <1>1, <2>1, <2>2
<1>6. ASSUME NEW e \in Popped', e.status = 2
      PROVE  ItemOf(e) \in regs'
  BY <1>1, <1>6 DEF AllIsTried
<1> QED
  BY <1>3, <1>4, <1>5, <1>6 DEF AllIsTried

LEMMA TriedNext ==
  ASSUME IInv, AllIsTried, [ChartNext]_chartVars
  PROVE  AllIsTried'
<1>1. ASSUME NEW edge \in agenda, AddEdge(edge)
      PROVE  AllIsTried'
  <2>1. /\ ExtendRules(edge, UsesOfEdge(edge)) /\ NewUses(edge, UsesOfEdge(edge))
        /\ edge.status # 2 /\ regs' = regs
    BY <1>1, AddEdgeUses DEF AddEdge, Growing
  <2>2. <<edge, Stop(Side(edge)), edge.status>> \in UsesOfEdge(edge)
    BY DEF UsesOfEdge
  <2> DEFINE none == {}
             uses == UsesOfEdge(edge)
  <2>3. /\ regs' = regs \cup none
        /\ \A i \in none : \A l \in PosStarts(i.term) : <<Headless(l), i, 0>> \in uses
    BY <2>1
  <2>4. /\ ExtendRules(edge, uses) /\ NewUses(edge, uses)
        /\ <<edge, Stop(Side(edge)), edge.status>> \in uses
    BY <2>1, <2>2
  <2> HIDE DEF none, uses
  <2> QED
    BY <2>1, <2>3, <2>4, TriedByStep
<1>2. ASSUME NEW edge \in agenda, ItemOf(edge) \in Constituent, ItemOf(edge) \notin regs,
             AddRegItem(edge, ItemOf(edge)), edge.status = 2
      PROVE  AllIsTried'
  <2> DEFINE item == ItemOf(edge)
  <2>1. regs' = regs \cup {item} /\ ~Growing(edge)
    BY <1>2 DEF AddRegItem, Growing
  <2>2. /\ ExtendRules(edge, UsesOfItem(item)) /\ NewUses(edge, UsesOfItem(item))
        /\ \A l \in PosStarts(item.term) : <<Headless(l), item, 0>> \in UsesOfItem(item)
    BY <1>2, AddRegItemUses DEF UsesOfItem
  <2> HIDE DEF item
  <2>3. \A i \in {item} : \A l \in PosStarts(i.term) : <<Headless(l), i, 0>> \in UsesOfItem(item)
    BY <2>2
  <2>4. ItemOf(edge) \in regs'
    BY <2>1 DEF item
  <2> QED
    BY <2>1, <2>2, <2>3, <2>4, TriedByStep
<1>3. ASSUME NEW edge \in agenda, AddTag(edge)
      PROVE  AllIsTried'
  <2>1. AddRegItem(edge, ItemOf(edge)) /\ edge.status = 2
    BY <1>3 DEF AddTag, ItemOf
  <2>2. ItemOf(edge) \in Constituent /\ ItemOf(edge) \notin regs
    BY <1>3, TagIsNew DEF ItemOf
  <2> QED
    BY <1>2, <2>1, <2>2
<1>4. ASSUME NEW edge \in agenda, AddConstituent(edge)
      PROVE  AllIsTried'
  <2>1. /\ edge.status = 2 /\ edge.got # << >>
        /\ IF ItemOf(edge) \in regs THEN ExtendRules(edge, {}) /\ UNCHANGED <<regs, waiting>>
           ELSE AddRegItem(edge, ItemOf(edge))
    BY <1>4 DEF AddConstituent, ItemOf
  <2>2. ItemOf(edge) \in Constituent
    BY <2>1, EdgeFacts DEF IInv, Typed, ItemOf, ItemAt, Constituent, Item
  <2>3. CASE ItemOf(edge) \in regs
    <3> DEFINE none == {}
    <3>1. ExtendRules(edge, none) /\ regs' = regs \cup none /\ NewUses(edge, none)
          /\ ~Growing(edge)
      BY <2>1, <2>3 DEF NewUses, Growing
    <3>2. ItemOf(edge) \in regs'
      BY <2>3, <3>1
    <3>3. \A i \in none : \A l \in PosStarts(i.term) : <<Headless(l), i, 0>> \in none
      OBVIOUS
    <3> HIDE DEF none
    <3> QED
      BY <3>1, <3>2, <3>3, TriedByStep
  <2> QED
    BY <1>2, <2>1, <2>2, <2>3
<1>5. ASSUME UNCHANGED <<agenda, made, regs>>
      PROVE  AllIsTried'
  BY <1>5 DEF AllIsTried, Popped, Met
<1> QED
  BY <1>1, <1>3, <1>4, <1>5 DEF ChartNext, Finish, chartVars

LEMMA TriedInductive == ChartSpec => []AllIsTried
<1>1. ChartInit => AllIsTried
  <2> SUFFICES ASSUME ChartInit PROVE AllIsTried
    OBVIOUS
  <2>1. Popped = {} /\ regs = {} /\ made = {TagEdge(w) : w \in Words}
    BY DEF ChartInit, Popped
  <2> QED
    BY <2>1 DEF AllIsTried
<1> QED
  BY <1>1, TriedNext, Inductive, PTL DEF ChartSpec

-----------------------------------------------------------------------------
(* What the rules make of items that lie side by side. *)

SideBySide(line, n) ==
  /\ n \in Nat \ {0} /\ line \in [1 .. n -> Constituent]
  /\ \A k \in 1 .. n - 1 : line[k].finish = line[k + 1].start
  /\ \A k \in 1 .. n : line[k].term # StopTerm

(* The edge that has the items a to b of a line, its head the one at h: the head, those
   on the left, STOP, those on the right, STOP. *)
GrownGot(line, h, a, b, status) ==
  [k \in 1 .. b - a + 1 + status |->
     IF k <= h - a + 1 THEN line[h + 1 - k]
     ELSE IF k = h - a + 2 THEN Stop(line[a].start)
     ELSE IF k <= b - a + 2 THEN line[a + k - 2]
     ELSE Stop(line[b].finish)]

Grown(lhs, line, h, a, b, status) ==
  [lhs |-> lhs, got |-> GrownGot(line, h, a, b, status), start |-> line[a].start,
   loc |-> line[b].finish, status |-> status]

(* How far an edge of each status has come. *)
Reach(h, n, a, b, status) ==
  /\ a \in 1 .. h /\ b \in h .. n /\ status \in 0 .. 2
  /\ status = 0 => b = h
  /\ status # 0 => a = 1
  /\ status = 2 => b = n

LEMMA LineGrows ==
  ASSUME NEW line, NEW n, SideBySide(line, n),
         NEW a \in 1 .. n, NEW b \in 1 .. n, a < b
  PROVE  line[a].finish <= line[b].start /\ line[a].start < line[b].start
<1> DEFINE Short == {c \in a + 1 .. n : ~(line[a].finish <= line[c].start)}
<1>1. n \in Nat /\ \A c \in 1 .. n : /\ line[c].start \in 0 .. Length
                                     /\ line[c].finish \in 0 .. Length
                                     /\ line[c].start < line[c].finish
  BY DEF SideBySide, Constituent, Item
<1>2. Length \in Nat
  BY ChartAssumption
<1>3. Short = {}
  <2> SUFFICES ASSUME Short # {} PROVE FALSE
    OBVIOUS
  <2>1. Short \in SUBSET Nat
    BY <1>1
  <2>2. PICK c \in Short : \A d \in Short : c <= d
    <3> HIDE DEF Short
    <3> QED
      BY <2>1, LeastOne
  <2>3. c \in a + 1 .. n /\ c - 1 \notin Short /\ c - 1 \in 1 .. n - 1
    BY <1>1, <2>2
  <2>4. line[c - 1].finish = line[(c - 1) + 1].start
    BY <2>3 DEF SideBySide
  <2>5. (c - 1) + 1 = c
    BY <2>3
  <2>6. line[c - 1].finish = line[c].start
    BY <2>4, <2>5
  <2>7. CASE c = a + 1
    BY <1>1, <1>2, <2>2, <2>6, <2>7
  <2>8. CASE c # a + 1
    <3>1. c - 1 \in a + 1 .. n
      BY <1>1, <2>3, <2>8
    <3>2. line[a].finish <= line[c - 1].start
      BY <2>3, <3>1
    <3>3. line[c - 1].start < line[c - 1].finish
      BY <1>1, <3>1
    <3>4. /\ line[a].finish \in Nat /\ line[c - 1].start \in Nat
          /\ line[c - 1].finish \in Nat
      BY <1>1, <1>2, <3>1
    <3>5. line[a].finish <= line[c].start
      BY <2>6, <3>2, <3>3, <3>4
    <3> QED
      BY <2>2, <3>5
  <2> QED
    BY <2>7, <2>8
<1>4. b \in a + 1 .. n
  BY <1>1
<1>5. line[a].finish <= line[b].start
  BY <1>3, <1>4
<1>6. /\ line[a].start \in Nat /\ line[a].finish \in Nat /\ line[b].start \in Nat
      /\ line[a].start < line[a].finish
  BY <1>1, <1>2
<1> QED
  BY <1>5, <1>6

(* A sequence given by a function. *)
LEMMA FunctionIsSequence ==
  ASSUME NEW S, NEW m \in Nat, NEW f \in [1 .. m -> S]
  PROVE  f \in Seq(S) /\ Len(f) = m
<1>1. f \in Seq(S)
  BY SeqDef
<1>2. Len(f) \in Nat /\ DOMAIN f = 1 .. Len(f) /\ DOMAIN f = 1 .. m
  BY <1>1, LenProperties
<1> QED
  BY <1>1, <1>2

LEMMA SameSequence ==
  ASSUME NEW S, NEW m \in Nat, NEW f \in [1 .. m -> S], NEW s \in Seq(S), Len(s) = m,
         \A k \in 1 .. m : s[k] = f[k]
  PROVE  s = f
BY FunctionIsSequence, SeqEqual

LEMMA GrownFacts ==
  ASSUME NEW line, NEW n, SideBySide(line, n), NEW h \in 1 .. n, NEW a, NEW b, NEW status,
         Reach(h, n, a, b, status), NEW m, m = b - a + 1 + status
  PROVE  /\ m \in Nat \ {0}
         /\ GrownGot(line, h, a, b, status) \in [1 .. m -> Item]
         /\ GrownGot(line, h, a, b, status) \in Seq(Item)
         /\ Len(GrownGot(line, h, a, b, status)) = m
<1> DEFINE got == GrownGot(line, h, a, b, status)
<1>1. /\ n \in Nat /\ a \in 1 .. n /\ b \in 1 .. n /\ m \in Nat \ {0} /\ a <= h /\ h <= b
      /\ status \in 0 .. 2
  BY DEF SideBySide, Reach
<1>2. \A k \in 1 .. n : /\ line[k] \in Item
                        /\ Stop(line[k].start) \in Item /\ Stop(line[k].finish) \in Item
  BY StopFacts DEF SideBySide, Constituent, Item
<1>3. ASSUME NEW k \in 1 .. m
      PROVE  (IF k <= h - a + 1 THEN line[h + 1 - k]
              ELSE IF k = h - a + 2 THEN Stop(line[a].start)
              ELSE IF k <= b - a + 2 THEN line[a + k - 2]
              ELSE Stop(line[b].finish)) \in Item
  <2>1. CASE k <= h - a + 1
    <3>1. h + 1 - k \in 1 .. n
      BY <1>1, <2>1
    <3> QED
      BY <1>2, <2>1, <3>1
  <2>2. CASE k > h - a + 1 /\ k # h - a + 2 /\ k <= b - a + 2
    <3>1. a + k - 2 \in 1 .. n
      BY <1>1, <2>2
    <3> QED
      BY <1>1, <1>2, <2>2, <3>1
  <2> QED
    BY <1>1, <1>2, <2>1, <2>2
<1>4. got \in [1 .. m -> Item]
  BY <1>3 DEF GrownGot
<1> HIDE DEF got
<1>5. got \in Seq(Item) /\ Len(got) = m
  BY <1>1, <1>4, FunctionIsSequence
<1> QED
  BY <1>1, <1>4, <1>5 DEF got

LEMMA AppendGrown ==
  ASSUME NEW m \in Nat, NEW s \in Seq(Item), Len(s) = m, NEW i \in Item,
         NEW t \in [1 .. m + 1 -> Item], t[m + 1] = i, \A k \in 1 .. m : t[k] = s[k]
  PROVE  Append(s, i) = t
<1>1. /\ Append(s, i) \in Seq(Item) /\ Len(Append(s, i)) = m + 1
      /\ Append(s, i)[m + 1] = i /\ \A k \in 1 .. m : Append(s, i)[k] = s[k]
  BY AppendProperties
<1>2. \A k \in 1 .. m + 1 : Append(s, i)[k] = t[k]
  BY <1>1
<1>3. m + 1 \in Nat
  OBVIOUS
<1> DEFINE u == Append(s, i)
           o == m + 1
<1>4. u \in Seq(Item) /\ Len(u) = o /\ o \in Nat /\ t \in [1 .. o -> Item]
      /\ \A k \in 1 .. o : u[k] = t[k]
  BY <1>1, <1>2, <1>3
<1> HIDE DEF u, o
<1>5. u = t
  BY <1>4, SameSequence
<1> QED
  BY <1>5 DEF u

LEMMA GrownBegins ==
  ASSUME NEW line, NEW n, SideBySide(line, n), NEW h \in 1 .. n, NEW lhs
  PROVE  Extend(Headless(lhs), line[h], 0) = Grown(lhs, line, h, h, h, 0)
<1>1. n \in Nat /\ h - h + 1 + 0 = 1 /\ line[h] \in Item /\ line[h].term # StopTerm
  BY DEF SideBySide, Constituent
<1>2. Append(<< >>, line[h]) = GrownGot(line, h, h, h, 0)
  <2> DEFINE s == << >>
             t == GrownGot(line, h, h, h, 0)
             none == 0
  <2>1. Reach(h, n, h, h, 0) /\ none + 1 = h - h + 1 + 0
    BY <1>1 DEF Reach
  <2>2. t[none + 1] = line[h] /\ \A k \in 1 .. none : t[k] = s[k]
    BY <1>1 DEF GrownGot
  <2>3. s \in Seq(Item) /\ Len(s) = none /\ none \in Nat
    BY EmptySeq
  <2> HIDE DEF s, none
  <2>4. t \in [1 .. none + 1 -> Item]
    BY <2>1, GrownFacts
  <2> HIDE DEF t
  <2>5. Append(s, line[h]) = t
    BY <1>1, <2>2, <2>3, <2>4, AppendGrown
  <2> QED
    BY <2>5 DEF s, t
<1> QED
  BY <1>1, <1>2 DEF Extend, Headless, Grown

LEMMA GrownLeft ==
  ASSUME NEW line, NEW n, SideBySide(line, n), NEW h \in 1 .. n, NEW lhs,
         NEW a, Reach(h, n, a, h, 0), a > 1
  PROVE  /\ Reach(h, n, a - 1, h, 0)
         /\ Extend(Grown(lhs, line, h, a, h, 0), line[a - 1], 0)
              = Grown(lhs, line, h, a - 1, h, 0)
<1> DEFINE s == GrownGot(line, h, a, h, 0)
           t == GrownGot(line, h, a - 1, h, 0)
           m == h - a + 1 + 0
<1>1. Reach(h, n, a - 1, h, 0)
  BY DEF Reach, SideBySide
<1>2. /\ n \in Nat /\ a - 1 \in 1 .. n /\ a \in 1 .. h /\ m \in Nat
      /\ h - (a - 1) + 1 + 0 = m + 1 /\ m # 0
  BY <1>1 DEF Reach, SideBySide
<1>3. line[a - 1] \in Item /\ line[a - 1].term # StopTerm
  BY <1>2 DEF SideBySide, Constituent
<1>4. s \in Seq(Item) /\ Len(s) = m /\ t \in [1 .. m + 1 -> Item]
  <2> DEFINE o == m + 1
  <2>1. m = h - a + 1 + 0 /\ o = h - (a - 1) + 1 + 0
    BY <1>2
  <2> HIDE DEF m, o
  <2>2. s \in Seq(Item) /\ Len(s) = m
    BY <1>2, <2>1, GrownFacts
  <2>3. t \in [1 .. o -> Item]
    BY <1>1, <1>2, <2>1, GrownFacts
  <2> QED
    BY <2>2, <2>3 DEF o
<1>5. /\ \A k \in 1 .. m : s[k] = line[h + 1 - k]
      /\ \A k \in 1 .. m + 1 : t[k] = line[h + 1 - k]
  BY <1>2 DEF GrownGot
<1>6. t[m + 1] = line[a - 1] /\ \A k \in 1 .. m : t[k] = s[k]
  BY <1>2, <1>5
<1>7. Append(s, line[a - 1]) = t /\ s # << >>
  <2> HIDE DEF s, t, m
  <2>1. s # << >>
    BY <1>2, <1>4, EmptySeq
  <2> QED
    BY <1>2, <1>3, <1>4, <1>6, <2>1, AppendGrown
<1> HIDE DEF s, t, m
<1> DEFINE c == a - 1
           i == line[c]
           e == Grown(lhs, line, h, a, h, 0)
<1>8. i.term # StopTerm /\ Append(s, i) = t /\ s # << >>
  BY <1>3, <1>7
<1>9. e.lhs = lhs /\ e.got = s /\ e.loc = line[h].finish
  BY DEF Grown, s
<1>10. Grown(lhs, line, h, c, h, 0)
         = [lhs |-> lhs, got |-> t, start |-> i.start, loc |-> line[h].finish, status |-> 0]
  BY DEF Grown, t
<1> HIDE DEF e, i, c
<1>11. Extend(e, i, 0) = Grown(lhs, line, h, c, h, 0)
  BY <1>8, <1>9, <1>10 DEF Extend
<1> QED
  BY <1>1, <1>11 DEF c, e, i

LEMMA GrownStopsLeft ==
  ASSUME NEW line, NEW n, SideBySide(line, n), NEW h \in 1 .. n, NEW lhs
  PROVE  /\ Reach(h, n, 1, h, 0) /\ Reach(h, n, 1, h, 1)
         /\ Extend(Grown(lhs, line, h, 1, h, 0), Stop(line[1].start), 0)
              = Grown(lhs, line, h, 1, h, 1)
<1> DEFINE s == GrownGot(line, h, 1, h, 0)
           t == GrownGot(line, h, 1, h, 1)
           i == Stop(line[1].start)
<1>1. Reach(h, n, 1, h, 0) /\ Reach(h, n, 1, h, 1)
  BY DEF Reach, SideBySide
<1>2. n \in Nat /\ h \in Nat /\ h # 0 /\ h - 1 + 1 + 0 = h /\ h - 1 + 1 + 1 = h + 1
  BY DEF SideBySide
<1>3. i \in Item /\ i.term = StopTerm /\ i.start = line[1].start
  BY <1>2, StopFacts DEF SideBySide, Constituent, Item
<1>4. s \in Seq(Item) /\ Len(s) = h /\ t \in [1 .. h + 1 -> Item]
  BY <1>1, <1>2, GrownFacts
<1>5. /\ \A k \in 1 .. h : s[k] = line[h + 1 - k]
      /\ \A k \in 1 .. h + 1 : t[k] = IF k <= h THEN line[h + 1 - k] ELSE i
  BY <1>2 DEF GrownGot
<1>6. t[h + 1] = i /\ \A k \in 1 .. h : t[k] = s[k]
  BY <1>2, <1>5
<1>7. Append(s, i) = t /\ s # << >>
  <2> HIDE DEF s, t, i
  <2>1. s # << >>
    BY <1>2, <1>4, EmptySeq
  <2> QED
    BY <1>2, <1>3, <1>4, <1>6, <2>1, AppendGrown
<1> HIDE DEF s, t, i
<1>8. Extend(Grown(lhs, line, h, 1, h, 0), i, 0) = Grown(lhs, line, h, 1, h, 1)
  BY <1>3, <1>7 DEF Extend, Grown, s, t
<1> QED
  BY <1>1, <1>8 DEF i

LEMMA GrownRight ==
  ASSUME NEW line, NEW n, SideBySide(line, n), NEW h \in 1 .. n, NEW lhs,
         NEW b, Reach(h, n, 1, b, 1), b < n
  PROVE  /\ Reach(h, n, 1, b + 1, 1)
         /\ Extend(Grown(lhs, line, h, 1, b, 1), line[b + 1], 1)
              = Grown(lhs, line, h, 1, b + 1, 1)
<1> DEFINE s == GrownGot(line, h, 1, b, 1)
           t == GrownGot(line, h, 1, b + 1, 1)
           m == b - 1 + 1 + 1
<1>1. Reach(h, n, 1, b + 1, 1)
  BY DEF Reach, SideBySide
<1>2. /\ n \in Nat /\ b + 1 \in 1 .. n /\ b \in h .. n /\ h \in Nat /\ m = b + 1 /\ m \in Nat
      /\ (b + 1) - 1 + 1 + 1 = m + 1 /\ h - 1 + 1 = h /\ h - 1 + 2 = h + 1
  BY <1>1 DEF Reach, SideBySide
<1>3. line[b + 1] \in Item /\ line[b + 1].term # StopTerm
  BY <1>2 DEF SideBySide, Constituent
<1>4. s \in Seq(Item) /\ Len(s) = m /\ t \in [1 .. m + 1 -> Item]
  BY <1>1, <1>2, GrownFacts
<1>5. /\ \A k \in 1 .. m : s[k] = IF k <= h THEN line[h + 1 - k]
                                 ELSE IF k = h + 1 THEN Stop(line[1].start)
                                 ELSE line[k - 1]
      /\ \A k \in 1 .. m + 1 : t[k] = IF k <= h THEN line[h + 1 - k]
                                     ELSE IF k = h + 1 THEN Stop(line[1].start)
                                     ELSE line[k - 1]
  BY <1>2 DEF GrownGot
<1>6. t[m + 1] = line[b + 1] /\ \A k \in 1 .. m : t[k] = s[k]
  BY <1>2, <1>5
<1>7. Append(s, line[b + 1]) = t /\ s # << >>
  <2> HIDE DEF s, t, m
  <2>1. s # << >>
    BY <1>2, <1>4, EmptySeq
  <2> QED
    BY <1>2, <1>3, <1>4, <1>6, <2>1, AppendGrown
<1> HIDE DEF s, t
<1> QED
  BY <1>1, <1>3, <1>7 DEF Extend, Grown, s, t

LEMMA GrownStopsRight ==
  ASSUME NEW line, NEW n, SideBySide(line, n), NEW h \in 1 .. n, NEW lhs
  PROVE  /\ Reach(h, n, 1, n, 1) /\ Reach(h, n, 1, n, 2)
         /\ Extend(Grown(lhs, line, h, 1, n, 1), Stop(line[n].finish), 1)
              = Grown(lhs, line, h, 1, n, 2)
<1> DEFINE s == GrownGot(line, h, 1, n, 1)
           t == GrownGot(line, h, 1, n, 2)
           i == Stop(line[n].finish)
           m == n + 1
<1>1. Reach(h, n, 1, n, 1) /\ Reach(h, n, 1, n, 2)
  BY DEF Reach, SideBySide
<1>2. /\ n \in Nat /\ h \in Nat /\ h # 0 /\ h <= n /\ n # 0 /\ h - 1 + 1 = h /\ m \in Nat
      /\ h - 1 + 2 = h + 1 /\ n - 1 + 1 + 1 = m /\ n - 1 + 1 + 2 = m + 1
  BY DEF SideBySide
<1>3. i \in Item /\ i.term = StopTerm /\ i.finish = line[n].finish
  BY <1>2, StopFacts DEF SideBySide, Constituent, Item
<1>4. s \in Seq(Item) /\ Len(s) = m /\ t \in [1 .. m + 1 -> Item]
  BY <1>1, <1>2, GrownFacts
<1>5. /\ \A k \in 1 .. m : s[k] = IF k <= h THEN line[h + 1 - k]
                                 ELSE IF k = h + 1 THEN Stop(line[1].start)
                                 ELSE line[k - 1]
      /\ \A k \in 1 .. m + 1 : t[k] = IF k <= h THEN line[h + 1 - k]
                                     ELSE IF k = h + 1 THEN Stop(line[1].start)
                                     ELSE IF k <= m THEN line[k - 1]
                                     ELSE i
  BY <1>2 DEF GrownGot
<1>6. t[m + 1] = i /\ \A k \in 1 .. m : t[k] = s[k]
  BY <1>2, <1>5
<1>7. Append(s, i) = t /\ s # << >>
  <2> HIDE DEF s, t, i, m
  <2>1. s # << >>
    BY <1>2, <1>4, EmptySeq
  <2> QED
    BY <1>2, <1>3, <1>4, <1>6, <2>1, AppendGrown
<1> HIDE DEF s, t, i
<1>8. Extend(Grown(lhs, line, h, 1, n, 1), i, 1) = Grown(lhs, line, h, 1, n, 2)
  BY <1>3, <1>7 DEF Extend, Grown, s, t
<1> QED
  BY <1>1, <1>8 DEF i

LEMMA ReversedFacts ==
  ASSUME NEW S, NEW s \in Seq(S)
  PROVE  /\ Reversed(s) \in Seq(S) /\ Len(Reversed(s)) = Len(s)
         /\ \A i \in 1 .. Len(s) : Reversed(s)[i] = s[Len(s) + 1 - i]
<1>1. Len(s) \in Nat /\ \A i \in 1 .. Len(s) : s[i] \in S
  BY LenProperties, ElementOfSeq
<1>2. Reversed(s) \in [1 .. Len(s) -> S]
  BY <1>1 DEF Reversed
<1>3. Reversed(s) \in Seq(S) /\ Len(Reversed(s)) = Len(s)
  BY <1>1, <1>2, FunctionIsSequence
<1> QED
  BY <1>3 DEF Reversed

(* LeftRightGotIter turns round at the last item that starts where the edge starts. *)
TurnsAt(e, p, l) ==
  /\ e.got \in Seq(Item) /\ l = Len(e.got) /\ p \in 1 .. l
  /\ e.got[p].start = e.start
  /\ \A k \in p + 1 .. l : e.got[k].start # e.start

LEMMA LeftRightIs ==
  ASSUME NEW e, NEW p, NEW l, TurnsAt(e, p, l)
  PROVE  /\ LeftRight(e) \in Seq(Item) /\ Len(LeftRight(e)) = l
         /\ \A i \in 1 .. l :
              LeftRight(e)[i] = IF i <= p THEN e.got[p + 1 - i] ELSE e.got[i]
<1> USE DEF TurnsAt
<1> DEFINE back == Reversed(e.got)
           lm == l + 1 - p
           Leftmost(i) == /\ back[i].start = e.start
                          /\ \A j \in 1 .. i - 1 : back[j].start # e.start
           first == SubSeq(back, lm, l)
           rest == SubSeq(back, 1, lm - 1)
<1>1. l \in Nat /\ lm \in 1 .. l /\ p \in 1 .. l
  BY LenProperties
<1>2. /\ back \in Seq(Item) /\ Len(back) = l /\ DOMAIN back = 1 .. l
      /\ \A i \in 1 .. l : back[i] = e.got[l + 1 - i] /\ back[i] \in Item
  <2>1. /\ back \in Seq(Item) /\ Len(back) = l
        /\ \A i \in 1 .. l : back[i] = e.got[l + 1 - i]
    BY ReversedFacts
  <2> HIDE DEF back
  <2> QED
    BY <2>1, LenProperties, ElementOfSeq
<1> HIDE DEF back
<1>3. (CHOOSE i \in DOMAIN back : Leftmost(i)) = lm
  <2>1. lm \in DOMAIN back /\ Leftmost(lm)
    <3>1. back[lm].start = e.start
      <4>1. l + 1 - lm = p
        BY <1>1
      <4> QED
        BY <1>1, <1>2, <4>1
    <3>2. ASSUME NEW j \in 1 .. lm - 1
          PROVE  back[j].start # e.start
      <4>1. j \in 1 .. l /\ l + 1 - j \in p + 1 .. l
        BY <1>1
      <4>2. back[j] = e.got[l + 1 - j]
        BY <1>2, <4>1
      <4> QED
        BY <4>1, <4>2
    <3> QED
      BY <1>1, <1>2, <3>1, <3>2
  <2>2. ASSUME NEW i \in DOMAIN back, Leftmost(i)
        PROVE  i = lm
    <3>1. i \in 1 .. l
      BY <1>2
    <3>2. CASE i < lm
      BY <1>1, <2>1, <2>2, <3>1, <3>2
    <3>3. CASE lm < i
      BY <1>1, <2>1, <2>2, <3>1, <3>3
    <3> QED
      BY <1>1, <3>1, <3>2, <3>3
  <2> HIDE DEF Leftmost, lm
  <2> QED
    BY <2>1, <2>2
<1>4. LeftRight(e) = first \o Reversed(rest)
  <2>1. LeftRight(e) = LET c == CHOOSE i \in DOMAIN back : Leftmost(i)
                       IN  SubSeq(back, c, Len(back)) \o Reversed(SubSeq(back, 1, c - 1))
    BY DEF LeftRight, back
  <2> HIDE DEF Leftmost, lm
  <2> QED
    BY <1>2, <1>3, <2>1
<1>5. /\ first \in Seq(Item) /\ Len(first) = p
      /\ \A i \in 1 .. p : first[i] = e.got[p + 1 - i]
  <2>1. lm \in Int /\ l \in Int /\ \A i \in lm .. l : back[i] \in Item
    BY <1>1, <1>2
  <2>2. /\ first \in Seq(Item) /\ Len(first) = IF lm <= l THEN l - lm + 1 ELSE 0
        /\ \A i \in 1 .. l - lm + 1 : first[i] = back[lm + i - 1]
    <3> HIDE DEF lm
    <3> QED
      BY <2>1, SubSeqProperties
  <2>3. ASSUME NEW i \in 1 .. p
        PROVE  first[i] = e.got[p + 1 - i]
    <3>1. i \in 1 .. l - lm + 1 /\ lm + i - 1 \in 1 .. l /\ l + 1 - (lm + i - 1) = p + 1 - i
      BY <1>1
    <3> HIDE DEF lm, first
    <3>2. first[i] = back[lm + i - 1] /\ back[lm + i - 1] = e.got[l + 1 - (lm + i - 1)]
      BY <1>2, <2>2, <3>1
    <3> QED
      BY <3>1, <3>2
  <2> HIDE DEF first
  <2> QED
    BY <1>1, <2>2, <2>3
<1>6. /\ Reversed(rest) \in Seq(Item) /\ Len(Reversed(rest)) = l - p
      /\ \A i \in 1 .. l - p : Reversed(rest)[i] = e.got[p + i]
  <2> DEFINE o == lm - 1
  <2>1. o \in Nat /\ o = l - p /\ 1 \in Int /\ \A i \in 1 .. o : back[i] \in Item
    BY <1>1, <1>2
  <2>2. /\ rest \in Seq(Item) /\ Len(rest) = o
        /\ \A i \in 1 .. o : rest[i] = back[i]
    <3>1. rest = SubSeq(back, 1, o)
      OBVIOUS
    <3> HIDE DEF o, rest
    <3>2. /\ rest \in Seq(Item) /\ Len(rest) = IF 1 <= o THEN o - 1 + 1 ELSE 0
          /\ \A i \in 1 .. o - 1 + 1 : rest[i] = back[1 + i - 1]
      BY <2>1, <3>1, SubSeqProperties
    <3> QED
      BY <2>1, <3>2
  <2> HIDE DEF rest, o
  <2>3. /\ Reversed(rest) \in Seq(Item) /\ Len(Reversed(rest)) = o
        /\ \A i \in 1 .. o : Reversed(rest)[i] = rest[o + 1 - i]
    BY <2>2, ReversedFacts
  <2>4. ASSUME NEW i \in 1 .. o
        PROVE  Reversed(rest)[i] = e.got[p + i]
    <3>1. o + 1 - i \in 1 .. o /\ o + 1 - i \in 1 .. l /\ l + 1 - (o + 1 - i) = p + i
      BY <1>1, <2>1
    <3>2. Reversed(rest)[i] = back[o + 1 - i] /\ back[o + 1 - i] = e.got[l + 1 - (o + 1 - i)]
      BY <1>2, <2>2, <2>3, <3>1
    <3> QED
      BY <3>1, <3>2
  <2> QED
    BY <2>1, <2>3, <2>4
<1> DEFINE turned == Reversed(rest)
<1>7. /\ LeftRight(e) = first \o turned
      /\ turned \in Seq(Item) /\ Len(turned) = l - p
      /\ \A i \in 1 .. l - p : turned[i] = e.got[p + i]
  BY <1>4, <1>6
<1> HIDE DEF first, turned
<1>8. /\ LeftRight(e) \in Seq(Item) /\ Len(LeftRight(e)) = p + (l - p)
      /\ \A i \in 1 .. p + (l - p) :
           LeftRight(e)[i] = IF i <= p THEN first[i] ELSE turned[i - p]
  <2>1. first \in Seq(Item) /\ turned \in Seq(Item)
    BY <1>5, <1>7
  <2>2. /\ first \o turned \in Seq(Item)
        /\ Len(first \o turned) = Len(first) + Len(turned)
        /\ \A i \in 1 .. Len(first) + Len(turned) :
             (first \o turned)[i] = IF i <= Len(first) THEN first[i] ELSE turned[i - Len(first)]
    BY <2>1, ConcatProperties
  <2>3. Len(first) = p /\ Len(turned) = l - p
    BY <1>5, <1>7
  <2> QED
    BY <1>7, <2>2, <2>3
<1>9. ASSUME NEW i \in 1 .. l
      PROVE  LeftRight(e)[i] = IF i <= p THEN e.got[p + 1 - i] ELSE e.got[i]
  <2>1. p + (l - p) = l
    BY <1>1
  <2>2. CASE i <= p
    BY <1>1, <1>5, <1>8, <2>1, <2>2
  <2>3. CASE i > p
    <3>1. i - p \in 1 .. l - p /\ p + (i - p) = i
      BY <1>1, <2>3
    <3> QED
      BY <1>1, <1>7, <1>8, <2>1, <2>3, <3>1
  <2> QED
    BY <1>1, <2>2, <2>3
<1>10. p + (l - p) = l
  BY <1>1
<1> QED
  BY <1>8, <1>9, <1>10

(* The children of the edge that has the items a to b are the items a to b. *)
LEMMA ChildrenBeforeStop ==
  ASSUME NEW line, NEW n, SideBySide(line, n), NEW h \in 1 .. n, NEW a, NEW lhs,
         Reach(h, n, a, h, 0)
  PROVE  LET c == Children(Grown(lhs, line, h, a, h, 0))
         IN  /\ h - a + 1 \in Nat \ {0}
             /\ c \in Seq(Item) /\ Len(c) = h - a + 1
             /\ \A k \in 1 .. h - a + 1 : c[k] = line[a + k - 1]
<1> SUFFICES ASSUME NEW o, o = h - a + 1
             PROVE  LET c == Children(Grown(lhs, line, h, a, h, 0))
                    IN  /\ o \in Nat \ {0} /\ c \in Seq(Item) /\ Len(c) = o
                        /\ \A k \in 1 .. o : c[k] = line[a + k - 1]
  OBVIOUS
<1> DEFINE e == Grown(lhs, line, h, a, h, 0)
           got == GrownGot(line, h, a, h, 0)
           lr == LeftRight(e)
<1>1. /\ n \in Nat /\ a \in 1 .. n /\ h \in 1 .. n /\ a <= h /\ o \in Nat \ {0}
      /\ o \in 1 .. o /\ h + 1 - o = a /\ a + o - 1 = h
  BY DEF Reach, SideBySide
<1>2. /\ e.got = got /\ e.start = line[a].start
      /\ got \in Seq(Item) /\ o = Len(got)
  <2>1. got \in Seq(Item) /\ o = Len(got)
    BY <1>1, GrownFacts
  <2> HIDE DEF got
  <2> QED
    BY <2>1 DEF Grown, got
<1>3. \A k \in 1 .. o : got[k] = line[h + 1 - k]
  BY <1>1 DEF GrownGot
<1>4. e.got[o].start = e.start /\ \A k \in o + 1 .. o : e.got[k].start # e.start
  BY <1>1, <1>2, <1>3
<1>5. e.got \in Seq(Item) /\ o = Len(e.got)
  BY <1>2
<1> HIDE DEF e, got
<1>6. /\ lr \in Seq(Item) /\ Len(lr) = o
      /\ \A i \in 1 .. o : lr[i] = IF i <= o THEN e.got[o + 1 - i] ELSE e.got[i]
  <2>1. TurnsAt(e, o, o)
    BY <1>1, <1>4, <1>5 DEF TurnsAt
  <2> QED
    BY <2>1, LeftRightIs
<1>7. \A i \in 1 .. o : lr[i] = line[a + i - 1]
  <2> SUFFICES ASSUME NEW i \in 1 .. o PROVE lr[i] = line[a + i - 1]
    OBVIOUS
  <2>1. o + 1 - i \in 1 .. o /\ h + 1 - (o + 1 - i) = a + i - 1 /\ i <= o
    BY <1>1
  <2>2. lr[i] = got[o + 1 - i] /\ got[o + 1 - i] = line[h + 1 - (o + 1 - i)]
    BY <1>2, <1>3, <1>6, <2>1
  <2> QED
    BY <2>1, <2>2
<1>8. lr[1] = line[a] /\ lr[o] = line[h]
  <2>1. 1 \in 1 .. o /\ a + 1 - 1 = a
    BY <1>1
  <2> QED
    BY <1>1, <1>7, <2>1
<1>9. lr[1].term # StopTerm /\ lr[o].term # StopTerm
  BY <1>1, <1>8 DEF SideBySide
<1>10. Children(e) = SubSeq(lr, 1, o)
  <2> HIDE DEF lr
  <2> QED
    BY <1>6, <1>9 DEF Children, lr
<1> HIDE DEF lr
<1>11. 1 \in Int /\ o \in Int /\ \A i \in 1 .. o : lr[i] \in Item
  BY <1>1, <1>6, ElementOfSeq
<1>12. /\ SubSeq(lr, 1, o) \in Seq(Item)
       /\ Len(SubSeq(lr, 1, o)) = IF 1 <= o THEN o - 1 + 1 ELSE 0
       /\ \A i \in 1 .. o - 1 + 1 : SubSeq(lr, 1, o)[i] = lr[1 + i - 1]
  BY <1>11, SubSeqProperties
<1>13. Len(SubSeq(lr, 1, o)) = o /\ \A i \in 1 .. o : SubSeq(lr, 1, o)[i] = lr[i]
  BY <1>1, <1>12
<1>14. /\ Children(e) \in Seq(Item) /\ Len(Children(e)) = o
       /\ \A k \in 1 .. o : Children(e)[k] = line[a + k - 1]
  BY <1>7, <1>10, <1>12, <1>13
<1> QED
  BY <1>1, <1>14 DEF e

LEMMA ChildrenAfterStop ==
  ASSUME NEW line, NEW n, SideBySide(line, n), NEW h \in 1 .. n, NEW b, NEW lhs,
         NEW status \in {1, 2}, Reach(h, n, 1, b, status)
  PROVE  /\ Children(Grown(lhs, line, h, 1, b, status)) \in Seq(Item)
         /\ Len(Children(Grown(lhs, line, h, 1, b, status))) = b
         /\ \A k \in 1 .. b : Children(Grown(lhs, line, h, 1, b, status))[k] = line[k]
<1> DEFINE e == Grown(lhs, line, h, 1, b, status)
           got == GrownGot(line, h, 1, b, status)
           lr == LeftRight(e)
           m == b + status
           p == h + 1
<1>1. /\ n \in Nat /\ b \in 1 .. n /\ h \in 1 .. n /\ h <= b /\ m \in Nat
      /\ p \in 1 .. m /\ m = b - 1 + 1 + status /\ h - 1 + 1 = h /\ h - 1 + 2 = p
      /\ b - 1 + 2 = b + 1 /\ 1 \in 1 .. n
  BY DEF Reach, SideBySide
<1>2. /\ e.got = got /\ e.start = line[1].start /\ got \in Seq(Item) /\ Len(got) = m
  <2>1. got \in Seq(Item) /\ Len(got) = m
    <3> HIDE DEF m
    <3> QED
      BY <1>1, GrownFacts
  <2> HIDE DEF got, m
  <2> QED
    BY <2>1 DEF Grown, got
<1>3. \A k \in 1 .. m :
        got[k] = IF k <= h THEN line[h + 1 - k]
                 ELSE IF k = p THEN Stop(line[1].start)
                 ELSE IF k <= b + 1 THEN line[k - 1]
                 ELSE Stop(line[b].finish)
  BY <1>1 DEF GrownGot
<1> HIDE DEF e, got
<1>4. /\ \A k \in 1 .. n : line[k].start \in 0 .. Length /\ line[k].finish \in 0 .. Length
                           /\ line[k].start < line[k].finish /\ line[k].term # StopTerm
                           /\ line[k] \in Item
      /\ Length \in Nat
  BY ChartAssumption DEF SideBySide, Constituent, Item
<1>5. got[p] = Stop(line[1].start) /\ e.got[p].start = e.start
  <2>1. got[p] = Stop(line[1].start)
    BY <1>1, <1>3
  <2> QED
    BY <1>1, <1>2, <1>4, <2>1, StopFacts
<1>6. ASSUME NEW k \in p + 1 .. m
      PROVE  e.got[k].start # e.start
  <2>1. k \in 1 .. m /\ ~(k <= h) /\ k # p
    BY <1>1
  <2>2. CASE k <= b + 1
    <3>1. got[k] = line[k - 1] /\ k - 1 \in 1 .. n /\ 1 < k - 1
      BY <1>1, <1>3, <2>1, <2>2
    <3>2. line[1].start < line[k - 1].start
      BY <1>1, <3>1, LineGrows
    <3> QED
      BY <1>1, <1>2, <1>4, <3>1, <3>2
  <2>3. CASE k > b + 1
    <3>1. got[k] = Stop(line[b].finish) /\ got[k].start = line[b].finish
      BY <1>1, <1>3, <1>4, <2>1, <2>3, StopFacts
    <3>2. line[1].start <= line[b].start
      <4>1. CASE b = 1
        BY <1>1, <1>4, <4>1
      <4>2. CASE b # 1
        <5>1. 1 < b
          BY <1>1, <4>2
        <5>2. line[1].start < line[b].start
          BY <1>1, <5>1, LineGrows
        <5> QED
          BY <1>1, <1>4, <5>2
      <4> QED
        BY <4>1, <4>2
    <3> QED
      BY <1>1, <1>2, <1>4, <3>1, <3>2
  <2> QED
    BY <1>1, <2>2, <2>3
<1>7. /\ lr \in Seq(Item) /\ Len(lr) = m
      /\ \A i \in 1 .. m : lr[i] = IF i <= p THEN e.got[p + 1 - i] ELSE e.got[i]
  <2>1. e.got \in Seq(Item) /\ m = Len(e.got)
    BY <1>2
  <2>2. TurnsAt(e, p, m)
    BY <1>1, <1>2, <1>5, <1>6, <2>1 DEF TurnsAt
  <2> HIDE DEF m, p
  <2> QED
    BY <2>2, LeftRightIs
<1>8. \A i \in 2 .. b + 1 : lr[i] = line[i - 1]
  <2> SUFFICES ASSUME NEW i \in 2 .. b + 1 PROVE lr[i] = line[i - 1]
    OBVIOUS
  <2>1. i \in 1 .. m
    BY <1>1
  <2>2. CASE i <= p
    <3>1. p + 1 - i \in 1 .. m /\ p + 1 - i <= h /\ h + 1 - (p + 1 - i) = i - 1
      BY <1>1, <2>2
    <3>2. got[p + 1 - i] = line[h + 1 - (p + 1 - i)]
      BY <1>3, <3>1
    <3> QED
      BY <1>2, <1>7, <2>1, <2>2, <3>1, <3>2
  <2>3. CASE i > p
    <3>1. ~(i <= h) /\ i # p /\ i <= b + 1 /\ ~(i <= p)
      BY <1>1, <2>3
    <3>2. got[i] = line[i - 1]
      BY <1>3, <2>1, <3>1
    <3> QED
      BY <1>2, <1>7, <2>1, <3>1, <3>2
  <2> QED
    BY <1>1, <2>2, <2>3
<1>9. lr[1].term = StopTerm
  <2>1. 1 \in 1 .. m /\ 1 <= p /\ p + 1 - 1 = p
    BY <1>1
  <2>2. lr[1] = got[p]
    BY <1>2, <1>7, <2>1
  <2> QED
    BY <1>1, <1>4, <1>5, <2>2, StopFacts
<1>10. (IF lr[m].term = StopTerm THEN m - 1 ELSE m) = b + 1
  <2>1. CASE status = 1
    <3>1. m = b + 1 /\ m \in 2 .. b + 1 /\ m - 1 = b
      BY <1>1, <2>1
    <3>2. lr[m] = line[b]
      BY <1>8, <3>1
    <3> QED
      BY <1>1, <1>4, <3>1, <3>2
  <2>2. CASE status = 2
    <3>1. m = b + 2 /\ m \in 1 .. m /\ ~(m <= h) /\ m # p /\ ~(m <= b + 1) /\ ~(m <= p)
          /\ m - 1 = b + 1
      BY <1>1, <2>2
    <3>2. lr[m] = got[m] /\ got[m] = Stop(line[b].finish)
      BY <1>2, <1>3, <1>7, <3>1
    <3>3. lr[m].term = StopTerm
      BY <1>1, <1>4, <3>2, StopFacts
    <3> QED
      BY <3>1, <3>3
  <2> QED
    BY <2>1, <2>2
<1> DEFINE o == b + 1
<1>11. Children(e) = SubSeq(lr, 2, o)
  <2>1. Children(e) = SubSeq(lr, IF lr[1].term = StopTerm THEN 2 ELSE 1,
                             IF lr[m].term = StopTerm THEN m - 1 ELSE m)
    <3> HIDE DEF m
    <3>1. Len(LeftRight(e)) = m
      BY <1>7
    <3> QED
      BY <3>1 DEF Children
  <2> HIDE DEF lr, m
  <2> QED
    BY <1>9, <1>10, <2>1
<1> HIDE DEF lr
<1>12. o \in Int /\ 2 \in Int /\ \A i \in 2 .. o : lr[i] \in Item
  <2> SUFFICES ASSUME NEW i \in 2 .. o PROVE lr[i] \in Item
    BY <1>1
  <2>1. i - 1 \in 1 .. n
    BY <1>1
  <2> QED
    BY <1>4, <1>8, <2>1
<1>13. /\ SubSeq(lr, 2, o) \in Seq(Item)
       /\ Len(SubSeq(lr, 2, o)) = IF 2 <= o THEN o - 2 + 1 ELSE 0
       /\ \A i \in 1 .. o - 2 + 1 : SubSeq(lr, 2, o)[i] = lr[2 + i - 1]
  <2> HIDE DEF o
  <2> QED
    BY <1>12, SubSeqProperties
<1> DEFINE c == SubSeq(lr, 2, o)
<1>14. c \in Seq(Item) /\ Len(c) = b /\ \A i \in 1 .. b : c[i] = line[i]
  <2>1. 2 <= o /\ o - 2 + 1 = b
    BY <1>1
  <2>2. ASSUME NEW i \in 1 .. b
        PROVE  c[i] = line[i]
    <3>1. i \in 1 .. o - 2 + 1 /\ 2 + i - 1 \in 2 .. b + 1 /\ (2 + i - 1) - 1 = i
      BY <1>1
    <3>2. c[i] = lr[2 + i - 1] /\ lr[2 + i - 1] = line[(2 + i - 1) - 1]
      <4> HIDE DEF o
      <4> QED
        BY <1>8, <1>13, <3>1
    <3> QED
      BY <3>1, <3>2
  <2> QED
    BY <1>13, <2>1, <2>2
<1> HIDE DEF c
<1>15. Children(e) = c
  BY <1>11 DEF c
<1>16. Children(e) \in Seq(Item) /\ Len(Children(e)) = b /\ \A k \in 1 .. b : Children(e)[k] = line[k]
  BY <1>14, <1>15
<1> QED
  BY <1>16 DEF e

(* The items of c from x to y have the terms of t from u to v. *)
Agree(S, c, x, y, t, u, v) ==
  /\ x \in Int /\ y \in Int /\ u \in Int /\ v \in Int /\ y - x = v - u
  /\ \A k \in x .. y : c[k] \in Item
  /\ \A k \in u .. v : t[k] \in S
  /\ \A k \in 1 .. y - x + 1 : c[x + k - 1].term = t[u + k - 1]

LEMMA SameTerms ==
  ASSUME NEW S, NEW c, NEW t, NEW x, NEW y, NEW u, NEW v, Agree(S, c, x, y, t, u, v)
  PROVE  TermsOf(SubSeq(c, x, y)) = SubSeq(t, u, v)
<1> USE DEF Agree
<1> DEFINE s == SubSeq(c, x, y)
           w == SubSeq(t, u, v)
           m == IF x <= y THEN y - x + 1 ELSE 0
<1>1. /\ s \in Seq(Item) /\ Len(s) = m
      /\ \A k \in 1 .. y - x + 1 : s[k] = c[x + k - 1]
  BY SubSeqProperties
<1>2. /\ w \in Seq(S) /\ Len(w) = IF u <= v THEN v - u + 1 ELSE 0
      /\ \A k \in 1 .. v - u + 1 : w[k] = t[u + k - 1]
  BY SubSeqProperties
<1>3. m \in Nat /\ Len(w) = m
  BY <1>2
<1> HIDE DEF s, w
<1>4. \A k \in 1 .. m : s[k].term = w[k] /\ w[k] \in S
  <2> SUFFICES ASSUME NEW k \in 1 .. m PROVE s[k].term = w[k] /\ w[k] \in S
    OBVIOUS
  <2>1. k \in 1 .. y - x + 1 /\ k \in 1 .. v - u + 1
    BY <1>3
  <2>2. s[k].term = w[k]
    BY <1>1, <1>2, <2>1
  <2>3. w[k] \in S
    BY <1>2, <1>3, ElementOfSeq
  <2> QED
    BY <2>2, <2>3
<1> HIDE DEF m
<1>5. DOMAIN s = 1 .. m
  BY <1>1, LenProperties
<1> DEFINE f == TermsOf(s)
<1>6. f \in [1 .. m -> S] /\ \A k \in 1 .. m : w[k] = f[k]
  BY <1>4, <1>5 DEF TermsOf
<1> HIDE DEF f
<1>7. w = f
  BY <1>2, <1>3, <1>6, SameSequence
<1> QED
  BY <1>7 DEF f, s, w

(* The items of a line are the children of a rule, the head the one at h. *)
Covers(r, line, n, h) ==
  /\ r \in Rules /\ SideBySide(line, n) /\ h \in 1 .. n
  /\ r.left \in Seq(SymbolsOf(r)) /\ r.right \in Seq(SymbolsOf(r))
  /\ h = Len(r.left) + 1 /\ n - h = Len(r.right)
  /\ \A k \in 1 .. h - 1 : line[k].term = r.left[k]
  /\ line[h].term = r.head
  /\ \A k \in 1 .. n - h : line[h + k].term = r.right[k]

LEMMA RuleShapes ==
  ASSUME NEW r \in Rules
  PROVE  /\ \A k \in 1 .. Len(r.left) + 1 :
              Shape(r.lhs, SubSeq(r.left, k, Len(r.left)), r.head, << >>, 0) \in Shapes
         /\ \A k \in 0 .. Len(r.right) :
              Shape(r.lhs, r.left, r.head, SubSeq(r.right, 1, k), 1) \in Shapes
         /\ Shape(r.lhs, r.left, r.head, r.right, 2) \in Shapes
BY DEF Shapes

LEMMA GrownChildren ==
  ASSUME NEW line, NEW n, SideBySide(line, n), NEW h \in 1 .. n, NEW a, NEW b, NEW lhs,
         NEW status, Reach(h, n, a, b, status), NEW o, o = b - a + 1
  PROVE  /\ o \in Nat \ {0}
         /\ Children(Grown(lhs, line, h, a, b, status)) \in Seq(Item)
         /\ Len(Children(Grown(lhs, line, h, a, b, status))) = o
         /\ \A k \in 1 .. o : Children(Grown(lhs, line, h, a, b, status))[k] = line[a + k - 1]
<1>1. CASE status = 0
  <2>1. b = h
    BY <1>1 DEF Reach
  <2> DEFINE c == Children(Grown(lhs, line, h, a, h, 0))
  <2>2. Reach(h, n, a, h, 0) /\ o = h - a + 1
    BY <1>1, <2>1
  <2>3. /\ o \in Nat \ {0} /\ c \in Seq(Item) /\ Len(c) = o
        /\ \A k \in 1 .. o : c[k] = line[a + k - 1]
    BY <2>2, ChildrenBeforeStop
  <2> HIDE DEF c
  <2> QED
    BY <1>1, <2>1, <2>3 DEF c
<1>2. CASE status \in {1, 2}
  <2> DEFINE c == Children(Grown(lhs, line, h, 1, b, status))
  <2>1. a = 1 /\ n \in Nat /\ b \in 1 .. n /\ o = b
    BY <1>2 DEF Reach, SideBySide
  <2>2. c \in Seq(Item) /\ Len(c) = b /\ \A k \in 1 .. b : c[k] = line[k]
    BY <1>2, <2>1, ChildrenAfterStop
  <2>3. \A k \in 1 .. o : 1 + k - 1 = k
    BY <2>1
  <2> HIDE DEF c
  <2>4. c \in Seq(Item) /\ Len(c) = o /\ \A k \in 1 .. o : c[k] = line[1 + k - 1]
    BY <2>1, <2>2, <2>3
  <2> QED
    BY <2>1, <2>4 DEF c
<1> QED
  BY <1>1, <1>2 DEF Reach

LEMMA GrownIsPossible ==
  ASSUME NEW r, NEW line, NEW n, NEW h, Covers(r, line, n, h),
         NEW a, NEW b, NEW status, Reach(h, n, a, b, status)
  PROVE  Possible(Grown(r.lhs, line, h, a, b, status))
<1> DEFINE e == Grown(r.lhs, line, h, a, b, status)
           c == Children(e)
           o == b - a + 1
           g == h - a + 1
           S == SymbolsOf(r)
           l == Len(r.left)
           rr == Len(r.right)
<1>1. /\ n \in Nat /\ h \in 1 .. n /\ a \in 1 .. h /\ b \in h .. n /\ o \in Nat
      /\ g \in 1 .. o /\ a + g - 1 = h
  <2>1. n \in Nat /\ h \in 1 .. n
    BY DEF Covers, SideBySide
  <2>2. a \in 1 .. h /\ b \in h .. n
    BY DEF Reach
  <2> QED
    BY <2>1, <2>2
<1>2. c \in Seq(Item) /\ Len(c) = o /\ \A k \in 1 .. o : c[k] = line[a + k - 1]
  <2>1. SideBySide(line, n) /\ h \in 1 .. n
    BY DEF Covers
  <2> HIDE DEF e
  <2>2. /\ Children(e) \in Seq(Item) /\ Len(Children(e)) = o
        /\ \A k \in 1 .. o : Children(e)[k] = line[a + k - 1]
    <3> HIDE DEF o
    <3>1. o = b - a + 1
      BY DEF o
    <3> QED
      BY <2>1, <3>1, GrownChildren DEF e
  <2> QED
    BY <2>2
<1> HIDE DEF c
<1>3. DOMAIN c = 1 .. o /\ \A k \in 1 .. o : c[k] \in Item
  <2> HIDE DEF o
  <2> QED
    BY <1>2, LenProperties, ElementOfSeq
<1>4. e.got[1] = line[h] /\ e.lhs = r.lhs /\ e.status = status
  <2>1. GrownGot(line, h, a, b, status)[1] = line[h]
    <3>1. 1 \in 1 .. b - a + 1 + status /\ 1 <= h - a + 1 /\ h + 1 - 1 = h
      BY <1>1 DEF Reach
    <3> QED
      BY <3>1 DEF GrownGot
  <2> QED
    BY <2>1 DEF Grown
<1>5. (CHOOSE i \in DOMAIN c : c[i] = e.got[1]) = g
  <2>1. g \in DOMAIN c /\ c[g] = e.got[1]
    BY <1>1, <1>2, <1>3, <1>4
  <2>2. ASSUME NEW i \in DOMAIN c, c[i] = e.got[1]
        PROVE  i = g
    <3>1. i \in 1 .. o /\ line[a + i - 1] = line[h]
      BY <1>2, <1>3, <1>4, <2>2
    <3> DEFINE j == a + i - 1
    <3>2. j \in 1 .. n /\ (j = h => i = g)
      BY <1>1, <3>1
    <3> HIDE DEF j
    <3>3. line[j].start = line[h].start /\ line[h].start \in 0 .. Length /\ Length \in Nat
      BY <1>1, <3>1, <3>2, ChartAssumption DEF Covers, SideBySide, Constituent, Item, j
    <3>4. SideBySide(line, n)
      BY DEF Covers
    <3>5. ~(j < h) /\ ~(h < j)
      BY <1>1, <3>2, <3>3, <3>4, LineGrows
    <3> QED
      BY <1>1, <3>2, <3>5
  <2> HIDE DEF e, g
  <2> QED
    BY <2>1, <2>2
<1>6. /\ l \in Nat /\ rr \in Nat /\ h = l + 1 /\ n - h = rr
      /\ \A k \in 1 .. l : r.left[k] \in S
      /\ \A k \in 1 .. rr : r.right[k] \in S
  BY LenProperties, ElementOfSeq DEF Covers
<1>7. TermsOf(SubSeq(c, 1, g - 1)) = SubSeq(r.left, a, l)
  <2> DEFINE y == g - 1
  <2>1. 1 \in Int /\ y \in Int /\ a \in Int /\ l \in Int /\ y - 1 = l - a
    BY <1>1, <1>6
  <2>2. /\ \A k \in 1 .. y : c[k] \in Item
        /\ \A k \in a .. l : r.left[k] \in S
    BY <1>1, <1>3, <1>6
  <2>3. ASSUME NEW k \in 1 .. y - 1 + 1
        PROVE  c[1 + k - 1].term = r.left[a + k - 1]
    <3>1. 1 + k - 1 = k /\ k \in 1 .. o /\ a + k - 1 \in 1 .. h - 1
      BY <1>1
    <3>2. c[k] = line[a + k - 1] /\ line[a + k - 1].term = r.left[a + k - 1]
      BY <1>2, <3>1 DEF Covers
    <3> QED
      BY <3>1, <3>2
  <2>4. Agree(S, c, 1, y, r.left, a, l)
    <3> HIDE DEF y, l, S
    <3> QED
      BY <2>1, <2>2, <2>3 DEF Agree
  <2> HIDE DEF y, l, S
  <2>5. TermsOf(SubSeq(c, 1, y)) = SubSeq(r.left, a, l)
    BY <2>4, SameTerms
  <2> QED
    BY <2>5 DEF y
<1>8. TermsOf(SubSeq(c, g + 1, o)) = SubSeq(r.right, 1, b - h)
  <2> DEFINE x == g + 1
             v == b - h
  <2>1. x \in Int /\ o \in Int /\ 1 \in Int /\ v \in Int /\ o - x = v - 1
    BY <1>1
  <2>2. /\ \A k \in x .. o : c[k] \in Item
        /\ \A k \in 1 .. v : r.right[k] \in S
    <3>1. \A k \in x .. o : k \in 1 .. o
      BY <1>1
    <3>2. \A k \in 1 .. v : k \in 1 .. rr
      <4>1. v \in Int /\ rr \in Nat /\ v <= rr
        <5> HIDE DEF rr
        <5>1. n \in Nat /\ h \in Nat /\ b \in Nat /\ b <= n
          BY <1>1
        <5>2. rr \in Nat /\ n - h = rr
          BY <1>6
        <5> QED
          BY <5>1, <5>2
      <4> HIDE DEF v, rr
      <4> QED
        BY <4>1
    <3> HIDE DEF x, v, o, S, rr
    <3> QED
      BY <1>3, <1>6, <3>1, <3>2
  <2>3. ASSUME NEW k \in 1 .. o - x + 1
        PROVE  c[x + k - 1].term = r.right[1 + k - 1]
    <3>1. /\ x + k - 1 \in 1 .. o /\ a + (x + k - 1) - 1 = h + k /\ k \in 1 .. n - h
          /\ 1 + k - 1 = k
      BY <1>1
    <3>2. c[x + k - 1] = line[a + (x + k - 1) - 1]
      <4> HIDE DEF x, o
      <4> QED
        BY <1>2, <3>1
    <3>3. line[h + k].term = r.right[k]
      BY <3>1 DEF Covers
    <3> QED
      BY <3>1, <3>2, <3>3
  <2> HIDE DEF x, v, o, S
  <2>4. Agree(S, c, x, o, r.right, 1, v)
    BY <2>1, <2>2, <2>3 DEF Agree
  <2>5. TermsOf(SubSeq(c, x, o)) = SubSeq(r.right, 1, v)
    BY <2>4, SameTerms
  <2> QED
    BY <2>5 DEF x, v
<1>9. Possible(e) <=> Shape(r.lhs, SubSeq(r.left, a, l), r.head, SubSeq(r.right, 1, b - h), status)
                        \in Shapes
  <2>1. c[g].term = r.head
    BY <1>1, <1>2 DEF Covers
  <2> DEFINE head == CHOOSE i \in DOMAIN c : c[i] = e.got[1]
  <2>2. Possible(e) <=> Shape(e.lhs, TermsOf(SubSeq(c, 1, head - 1)), c[head].term,
                              TermsOf(SubSeq(c, head + 1, Len(c))), e.status) \in Shapes
    BY DEF Possible, c
  <2>3. head = g
    BY <1>5
  <2> HIDE DEF head, e, g, l, o
  <2> QED
    BY <1>2, <1>4, <1>7, <1>8, <2>1, <2>2, <2>3
<1>10. Shape(r.lhs, SubSeq(r.left, a, l), r.head, SubSeq(r.right, 1, b - h), status) \in Shapes
  <2>1. r \in Rules /\ status \in 0 .. 2
    BY DEF Covers, Reach
  <2>2. /\ SubSeq(r.left, 1, l) = r.left /\ SubSeq(r.right, 1, rr) = r.right
        /\ SubSeq(r.right, 1, 0) = << >>
    BY SubSeqFull, SubSeqEmpty DEF Covers
  <2>3. /\ status = 0 => b - h = 0 /\ a \in 1 .. l + 1
        /\ status # 0 => a = 1 /\ b - h \in 0 .. rr
        /\ status = 2 => b - h = rr
    <3>1. /\ status = 0 => b = h
          /\ status # 0 => a = 1
          /\ status = 2 => b = n
      BY DEF Reach
    <3> HIDE DEF l, rr
    <3> QED
      BY <1>1, <1>6, <3>1
  <2> DEFINE d == b - h
  <2>4. CASE status = 0
    <3>1. a \in 1 .. l + 1 /\ d = 0
      BY <2>3, <2>4
    <3> HIDE DEF d
    <3>2. Shape(r.lhs, SubSeq(r.left, a, l), r.head, << >>, 0) \in Shapes
      BY <2>1, <3>1, RuleShapes
    <3> QED
      BY <2>2, <2>4, <3>1, <3>2 DEF d
  <2>5. CASE status = 1
    <3>1. a = 1 /\ d \in 0 .. rr
      BY <2>3, <2>5
    <3> HIDE DEF d
    <3>2. Shape(r.lhs, r.left, r.head, SubSeq(r.right, 1, d), 1) \in Shapes
      BY <2>1, <3>1, RuleShapes
    <3> HIDE DEF l
    <3> QED
      BY <2>2, <2>5, <3>1, <3>2 DEF d
  <2>6. CASE status = 2
    <3>1. a = 1 /\ d = rr
      BY <2>3, <2>6
    <3> HIDE DEF d, l, rr
    <3>2. Shape(r.lhs, r.left, r.head, r.right, 2) \in Shapes
      BY <2>1, RuleShapes
    <3> QED
      BY <2>2, <2>6, <3>1, <3>2 DEF d
  <2> QED
    BY <2>1, <2>4, <2>5, <2>6
<1> QED
  BY <1>9, <1>10

(* ruled out by repeatRule: a unit rule of a bad pair. *)
LEMMA GrownHasMerit ==
  ASSUME NEW r, NEW line, NEW n, NEW h, Covers(r, line, n, h),
         NEW a, NEW b, NEW status, Reach(h, n, a, b, status),
         ~(n = 1 /\ <<r.lhs, r.head>> \in BadPairs)
  PROVE  HasMerit(Grown(r.lhs, line, h, a, b, status))
<1> DEFINE e == Grown(r.lhs, line, h, a, b, status)
           got == GrownGot(line, h, a, b, status)
<1>1. ASSUME RepeatRule(e)
      PROVE  FALSE
  <2>1. status = 2 /\ Len(got) = 3 /\ <<r.lhs, got[1].term>> \in BadPairs
    BY <1>1 DEF RepeatRule, Grown
  <2>2. /\ a = 1 /\ b = n /\ n \in Nat /\ h \in 1 .. n
    BY <2>1 DEF Reach, Covers, SideBySide
  <2> DEFINE m == b - a + 1 + status
  <2>3. Len(got) = m
    <3> HIDE DEF got
    <3>1. SideBySide(line, n)
      BY DEF Covers
    <3> HIDE DEF m
    <3>2. m = b - a + 1 + status
      BY DEF m
    <3> QED
      BY <2>2, <3>1, <3>2, GrownFacts DEF got
  <2>4. n = 1 /\ h = 1
    <3> HIDE DEF got
    <3> QED
      BY <2>1, <2>2, <2>3
  <2>5. got[1] = line[1]
    BY <2>1, <2>2, <2>4 DEF GrownGot
  <2>6. line[1].term = r.head
    BY <2>4 DEF Covers
  <2> HIDE DEF got
  <2> QED
    BY <2>1, <2>4, <2>5, <2>6
<1>2. Possible(e)
  BY GrownIsPossible
<1> QED
  BY <1>1, <1>2 DEF HasMerit

(* One more item, or STOP. *)
LEMMA OneMore ==
  ASSUME NEW e, NEW i, NEW x, NEW s, Met(e, i), s = e.status, Extend(e, i, s) = x, HasMerit(x)
  PROVE  x \in made
BY DEF Met

LEMMA RuleIsApplied ==
  ASSUME IInv, ChartIsClosed, agenda = {}, NEW r, NEW line, NEW n, NEW h,
         Covers(r, line, n, h), \A k \in 1 .. n : line[k] \in regs,
         ~(n = 1 /\ <<r.lhs, r.head>> \in BadPairs)
  PROVE  ItemAt(r.lhs, line[1].start, line[n].finish) \in regs
<1> DEFINE G(a, b, status) == Grown(r.lhs, line, h, a, b, status)
<1>1. SideBySide(line, n) /\ n \in Nat /\ h \in 1 .. n /\ r \in Rules
  BY DEF Covers, SideBySide
<1>2. \A a, b, status : Reach(h, n, a, b, status) => HasMerit(G(a, b, status))
  BY GrownHasMerit
<1>3. \A a, b, status : /\ G(a, b, status).start = line[a].start
                        /\ G(a, b, status).loc = line[b].finish
                        /\ G(a, b, status).status = status
                        /\ G(a, b, status).lhs = r.lhs
  BY DEF Grown
<1>4. Reach(h, n, h, h, 0)
  BY <1>1 DEF Reach
<1>5. /\ \A i \in regs : \A l \in PosStarts(i.term) : Met(Headless(l), i)
      /\ \A e \in made : Growing(e) =>
           Met(e, Stop(Side(e))) /\ \A i \in regs : Beside(e, i) => Met(e, i)
      /\ \A e \in made : e.status = 2 => ItemOf(e) \in regs
  BY DEF ChartIsClosed
<1> HIDE DEF G
<1>6. G(h, h, 0) \in made
  <2>1. r.lhs \in PosStarts(line[h].term)
    BY <1>1 DEF PosStarts, Covers
  <2>2. Met(Headless(r.lhs), line[h])
    BY <1>1, <1>5, <2>1
  <2>3. Headless(r.lhs).status = 0
    BY DEF Headless
  <2>4. Extend(Headless(r.lhs), line[h], 0) = G(h, h, 0)
    BY <1>1, GrownBegins DEF G
  <2>5. HasMerit(G(h, h, 0))
    BY <1>2, <1>4
  <2> QED
    BY <2>2, <2>3, <2>4, <2>5, OneMore
<1>7. ASSUME NEW a, Reach(h, n, a, h, 0), a > 1, G(a, h, 0) \in made
      PROVE  G(a - 1, h, 0) \in made
  <2>1. Reach(h, n, a - 1, h, 0) /\ Extend(G(a, h, 0), line[a - 1], 0) = G(a - 1, h, 0)
    BY <1>1, <1>7, GrownLeft DEF G
  <2>2. a - 1 \in 1 .. n - 1 /\ (a - 1) + 1 = a
    BY <1>1, <1>7 DEF Reach
  <2>3. line[a - 1].finish = line[a].start /\ line[a - 1] \in regs
    <3>1. line[a - 1].finish = line[(a - 1) + 1].start
      BY <1>1, <2>2 DEF SideBySide
    <3> QED
      BY <1>1, <2>2, <3>1
  <2>4. Growing(G(a, h, 0)) /\ Beside(G(a, h, 0), line[a - 1])
    BY <1>3, <2>3 DEF Growing, Beside, Side
  <2>5. Met(G(a, h, 0), line[a - 1])
    BY <1>5, <1>7, <2>3, <2>4
  <2>6. HasMerit(G(a - 1, h, 0)) /\ G(a, h, 0).status = 0
    BY <1>2, <1>3, <2>1
  <2> QED
    BY <2>1, <2>5, <2>6, OneMore
<1>8. G(1, h, 0) \in made
  <2> DEFINE Away == {d \in 0 .. h - 1 : G(h - d, h, 0) \notin made}
  <2> SUFFICES Away = {}
    <3>1. h - 1 \in 0 .. h - 1 /\ h - (h - 1) = 1
      BY <1>1
    <3> QED
      BY <3>1
  <2> SUFFICES ASSUME Away # {} PROVE FALSE
    OBVIOUS
  <2>1. Away \in SUBSET Nat
    BY <1>1
  <2>2. PICK d \in Away : \A c \in Away : d <= c
    <3> HIDE DEF Away
    <3> QED
      BY <2>1, LeastOne
  <2>3. d \in 0 .. h - 1 /\ G(h - d, h, 0) \notin made
    OBVIOUS
  <2>4. d # 0
    BY <1>1, <1>6, <2>3
  <2>5. G(h - (d - 1), h, 0) \in made
    BY <1>1, <2>2, <2>3, <2>4
  <2> DEFINE a == h - (d - 1)
  <2>6. a - 1 = h - d /\ a > 1 /\ a \in 1 .. h
    BY <1>1, <2>3, <2>4
  <2>7. Reach(h, n, a, h, 0)
    BY <1>1, <2>6 DEF Reach
  <2> HIDE DEF a
  <2>8. G(a - 1, h, 0) \in made
    BY <1>7, <2>5, <2>6, <2>7 DEF a
  <2> QED
    BY <2>3, <2>6, <2>8
<1>9. G(1, h, 1) \in made
  <2>1. /\ Reach(h, n, 1, h, 1)
        /\ Extend(G(1, h, 0), Stop(line[1].start), 0) = G(1, h, 1)
    BY <1>1, GrownStopsLeft DEF G
  <2>2. Growing(G(1, h, 0)) /\ Side(G(1, h, 0)) = line[1].start /\ G(1, h, 0).status = 0
    BY <1>3 DEF Growing, Side
  <2>3. Met(G(1, h, 0), Stop(line[1].start))
    BY <1>5, <1>8, <2>2
  <2>4. HasMerit(G(1, h, 1))
    BY <1>2, <2>1
  <2> QED
    BY <2>1, <2>2, <2>3, <2>4, OneMore
<1>10. ASSUME NEW b, Reach(h, n, 1, b, 1), b < n, G(1, b, 1) \in made
       PROVE  G(1, b + 1, 1) \in made
  <2>1. Reach(h, n, 1, b + 1, 1) /\ Extend(G(1, b, 1), line[b + 1], 1) = G(1, b + 1, 1)
    BY <1>1, <1>10, GrownRight DEF G
  <2>2. b \in 1 .. n - 1 /\ b + 1 \in 1 .. n
    BY <1>1, <1>10 DEF Reach
  <2>3. line[b].finish = line[b + 1].start /\ line[b + 1] \in regs
    BY <1>1, <2>2 DEF SideBySide
  <2>4. Growing(G(1, b, 1)) /\ Beside(G(1, b, 1), line[b + 1])
    BY <1>3, <2>3 DEF Growing, Beside, Side
  <2>5. Met(G(1, b, 1), line[b + 1])
    BY <1>5, <1>10, <2>3, <2>4
  <2>6. HasMerit(G(1, b + 1, 1)) /\ G(1, b, 1).status = 1
    BY <1>2, <1>3, <2>1
  <2> QED
    BY <2>1, <2>5, <2>6, OneMore
<1>11. G(1, n, 1) \in made
  <2> DEFINE Away == {b \in h .. n : G(1, b, 1) \notin made}
  <2> SUFFICES Away = {}
    BY <1>1
  <2> SUFFICES ASSUME Away # {} PROVE FALSE
    OBVIOUS
  <2>1. Away \in SUBSET Nat
    BY <1>1
  <2>2. PICK d \in Away : \A c \in Away : d <= c
    <3> HIDE DEF Away
    <3> QED
      BY <2>1, LeastOne
  <2>3. d \in h .. n /\ G(1, d, 1) \notin made
    OBVIOUS
  <2>4. d # h
    BY <1>9, <2>3
  <2>5. G(1, d - 1, 1) \in made
    BY <1>1, <2>2, <2>3, <2>4
  <2> DEFINE b == d - 1
  <2>6. b + 1 = d /\ b < n /\ b \in h .. n
    BY <1>1, <2>3, <2>4
  <2>7. Reach(h, n, 1, b, 1)
    BY <1>1, <2>6 DEF Reach
  <2> HIDE DEF b
  <2>8. G(1, b + 1, 1) \in made
    BY <1>10, <2>5, <2>6, <2>7 DEF b
  <2> QED
    BY <2>3, <2>6, <2>8
<1>12. G(1, n, 2) \in made
  <2>1. /\ Reach(h, n, 1, n, 2)
        /\ Extend(G(1, n, 1), Stop(line[n].finish), 1) = G(1, n, 2)
    BY <1>1, GrownStopsRight DEF G
  <2>2. Growing(G(1, n, 1)) /\ Side(G(1, n, 1)) = line[n].finish /\ G(1, n, 1).status = 1
    BY <1>3 DEF Growing, Side
  <2>3. Met(G(1, n, 1), Stop(line[n].finish))
    BY <1>5, <1>11, <2>2
  <2>4. HasMerit(G(1, n, 2))
    BY <1>2, <2>1
  <2> QED
    BY <2>1, <2>2, <2>3, <2>4, OneMore
<1>13. ItemOf(G(1, n, 2)) = ItemAt(r.lhs, line[1].start, line[n].finish)
  BY <1>3 DEF ItemOf
<1> QED
  BY <1>3, <1>5, <1>12, <1>13

(* The right-hand side of a rule, child by child. *)
Expands(S, left, head, right, rhs, h) ==
  /\ left \in Seq(S) /\ head \in S /\ right \in Seq(S)
  /\ rhs = left \o <<head>> \o right /\ h = Len(left) + 1

LEMMA RightHandSide ==
  ASSUME NEW S, NEW left, NEW head, NEW right, NEW rhs, NEW h,
         Expands(S, left, head, right, rhs, h)
  PROVE  /\ Len(left) \in Nat /\ Len(right) \in Nat /\ Len(rhs) = h + Len(right)
         /\ \A k \in 1 .. h - 1 : rhs[k] = left[k]
         /\ rhs[h] = head
         /\ \A k \in 1 .. Len(right) : rhs[h + k] = right[k]
<1> USE DEF Expands
<1> DEFINE mid == <<head>>
           w == left \o mid
<1>1. mid \in Seq(S) /\ Len(mid) = 1 /\ mid[1] = head
  OBVIOUS
<1>2. Len(left) \in Nat /\ Len(right) \in Nat
  BY LenProperties
<1> HIDE DEF mid
<1>3. /\ w \in Seq(S) /\ Len(w) = Len(left) + Len(mid)
      /\ \A i \in 1 .. Len(left) + Len(mid) :
           w[i] = IF i <= Len(left) THEN left[i] ELSE mid[i - Len(left)]
  BY <1>1, ConcatProperties
<1>4. rhs = w \o right
  BY DEF mid
<1> HIDE DEF w
<1>5. /\ Len(rhs) = Len(w) + Len(right)
      /\ \A i \in 1 .. Len(w) + Len(right) :
           rhs[i] = IF i <= Len(w) THEN w[i] ELSE right[i - Len(w)]
  <2>1. w \in Seq(S) /\ right \in Seq(S)
    BY <1>3
  <2>2. /\ Len(w \o right) = Len(w) + Len(right)
        /\ \A i \in 1 .. Len(w) + Len(right) :
             (w \o right)[i] = IF i <= Len(w) THEN w[i] ELSE right[i - Len(w)]
    BY <2>1, ConcatProperties
  <2> QED
    BY <1>4, <2>2
<1>6. Len(w) = h /\ h \in Nat
  BY <1>1, <1>2, <1>3
<1>7. \A k \in 1 .. h - 1 : rhs[k] = left[k]
  BY <1>1, <1>2, <1>3, <1>5, <1>6
<1>8. rhs[h] = head
  <2>1. h \in 1 .. Len(left) + Len(mid) /\ ~(h <= Len(left)) /\ h - Len(left) = 1
        /\ h \in 1 .. Len(w) + Len(right) /\ h <= Len(w)
    BY <1>1, <1>2, <1>6
  <2> QED
    BY <1>1, <1>3, <1>5, <2>1
<1>9. ASSUME NEW k \in 1 .. Len(right)
      PROVE  rhs[h + k] = right[k]
  <2>1. h + k \in 1 .. Len(w) + Len(right) /\ ~(h + k <= Len(w)) /\ (h + k) - Len(w) = k
    BY <1>2, <1>6
  <2> QED
    BY <1>5, <2>1
<1> QED
  BY <1>2, <1>5, <1>6, <1>7, <1>8, <1>9

LEMMA LineCovers ==
  ASSUME IInv, NEW r \in Rules, NEW rhs,
         Expands(SymbolsOf(r), r.left, r.head, r.right, rhs, Len(r.left) + 1),
         NEW n, n = Len(rhs), NEW line \in Lines(n), TermsOf(line) = rhs
  PROVE  /\ Covers(r, line, n, Len(r.left) + 1)
         /\ \A k \in 1 .. n : line[k] \in regs
<1> DEFINE h == Len(r.left) + 1
           S == SymbolsOf(r)
<1>1. r.left \in Seq(S) /\ r.right \in Seq(S)
  BY DEF Expands
<1>2. /\ Len(r.left) \in Nat /\ Len(r.right) \in Nat /\ Len(rhs) = h + Len(r.right)
      /\ \A k \in 1 .. h - 1 : rhs[k] = r.left[k]
      /\ rhs[h] = r.head
      /\ \A k \in 1 .. Len(r.right) : rhs[h + k] = r.right[k]
  <2> HIDE DEF h, S
  <2>1. Expands(S, r.left, r.head, r.right, rhs, h)
    BY DEF h, S
  <2>2. Len(r.left) \in Nat /\ Len(r.right) \in Nat /\ Len(rhs) = h + Len(r.right)
    BY <2>1, RightHandSide
  <2>3. \A k \in 1 .. h - 1 : rhs[k] = r.left[k]
    BY <2>1, RightHandSide
  <2>4. rhs[h] = r.head
    <3> DEFINE left == r.left
               head == r.head
               right == r.right
    <3>1. Expands(S, left, head, right, rhs, h)
      BY <2>1
    <3> HIDE DEF left, head, right
    <3>2. rhs[h] = head
      BY <3>1, RightHandSide
    <3> QED
      BY <3>2 DEF head
  <2>5. \A k \in 1 .. Len(r.right) : rhs[h + k] = r.right[k]
    BY <2>1, RightHandSide
  <2> QED
    BY <2>2, <2>3, <2>4, <2>5
<1>3. /\ line \in [1 .. n -> regs]
      /\ \A k \in 1 .. n - 1 : line[k].finish = line[k + 1].start
  BY DEF Lines
<1>4. \A k \in 1 .. n : rhs[k] = line[k].term
  BY <1>3 DEF TermsOf
<1>5. /\ n \in Nat \ {0} /\ h \in 1 .. n /\ n - h = Len(r.right)
      /\ \A k \in 1 .. h - 1 : k \in 1 .. n
      /\ \A k \in 1 .. n - h : h + k \in 1 .. n
  <2> DEFINE z == Len(r.right)
  <2>1. h \in Nat \ {0} /\ z \in Nat /\ n = h + z
    BY <1>2
  <2> HIDE DEF h, z
  <2>2. /\ n \in Nat \ {0} /\ h \in 1 .. n /\ n - h = z
        /\ \A k \in 1 .. h - 1 : k \in 1 .. n
    BY <2>1
  <2>3. \A k \in 1 .. n - h : h + k \in 1 .. n
    BY <2>1
  <2> QED
    BY <2>2, <2>3 DEF z
<1>6. SideBySide(line, n)
  <2>1. regs \subseteq Constituent
    BY DEF IInv, Typed
  <2>2. line \in [1 .. n -> Constituent]
    BY <1>3, <2>1
  <2>3. \A k \in 1 .. n : line[k].term # StopTerm
    BY <1>3, ItemsAreNotStop
  <2> QED
    BY <1>3, <1>5, <2>2, <2>3 DEF SideBySide
<1> HIDE DEF h, S
<1>7. /\ \A k \in 1 .. h - 1 : line[k].term = r.left[k]
      /\ line[h].term = r.head
      /\ \A k \in 1 .. n - h : line[h + k].term = r.right[k]
  BY <1>2, <1>4, <1>5
<1>8. Covers(r, line, n, h)
  BY <1>1, <1>5, <1>6, <1>7 DEF Covers, h, S
<1> QED
  BY <1>3, <1>8 DEF h
-----------------------------------------------------------------------------
(* The chart's items span words of the sentence, the agenda has edges that were made, and the
   time that is allowed is never more than ruleiCountTimeout_. *)
THEOREM TypeCorrect == ChartSpec => []ChartTypeOK
<1>1. IInv => ChartTypeOK
  <2> SUFFICES ASSUME IInv PROVE ChartTypeOK
    OBVIOUS
  <2>1. again \subseteq made /\ agenda \subseteq made
    BY DEF IInv, Typed, NoEdgeTwice
  <2>2. \A i \in regs : i.start \in 0 .. Length /\ i.finish \in i.start + 1 .. Length
    BY ChartAssumption DEF IInv, Typed, Constituent, Item
  <2> QED
    BY <2>1, <2>2 DEF IInv, Timed, ChartTypeOK
<1> QED
  BY <1>1, Inductive, PTL

(* add_edge and add_reg_item: whichever of an edge and an item comes first, their
   extension is made by one of the two and not by both, and no two pairs make the same
   edge; for any grammar and sentence, and any order in which edges are popped. *)
THEOREM EdgesAreMadeOnce == ChartSpec => []NoEdgeTwice
<1>1. IInv => NoEdgeTwice
  BY DEF IInv
<1> QED
  BY <1>1, Inductive, PTL

(* add_edge and add_reg_item: whichever comes first, the other finds it. *)
THEOREM PairsAlwaysMeet == ChartSpec => []EveryPairHasMet
<1>1. IInv => EveryPairHasMet
  BY DEF IInv, PairsMet, Popped, Growing, Beside, Side, EveryPairHasMet
<1> QED
  BY <1>1, Inductive, PTL

(* extend_rule: the links needme, sucs and ineed tell, at every moment, what each edge was
   made from and what finished which item, and no edge that was dropped is among them. *)
THEOREM LinksTellTheTruth == ChartSpec => []LinksAreTrue
BY LinksInductive

(* NeedmeIter, as redoP and the outside probabilities use it: what it can reach from an
   item is what contains the item, at every moment and not only at the end. *)
THEOREM NeedmeReachesTheItem == ChartSpec => []IteratorIsRight
<1>1. IInv /\ LinksAreTrue => IteratorIsRight
  BY IteratorReaches, IteratorStaysIn DEF IteratorIsRight
<1> QED
  BY <1>1, Inductive, LinksInductive, PTL

(* NeedmeIter, as the property says it: the function that goes from edges to what sucs
   leads to, until nothing is new, comes to an end at the edges that contain the item. *)
THEOREM NeedmeIterIsRight == ChartSpec => []NeedmeIterReaches
<1>1. IInv /\ LinksAreTrue /\ IteratorIsRight => NeedmeIterReaches
  <2> SUFFICES ASSUME IInv, LinksAreTrue, IteratorIsRight, NEW i \in regs
               PROVE  AndSucs(Needing(i)) = With(i)
    BY DEF NeedmeIterReaches, Needing, With, Has
  <2>1. Needing(i) \in SUBSET made /\ IsClosure(Needing(i), With(i), made)
    BY DEF IteratorIsRight, IsClosure, With
  <2> QED
    BY <2>1, AndSucsIsClosure
<1> QED
  BY <1>1, Inductive, LinksInductive, NeedmeReachesTheItem, PTL

(* parse, once the agenda is empty: every word is in the chart, every edge has met its
   neighbours and STOP, every item has begun the edges it may be the head of, and what
   was finished is there. *)
THEOREM NothingIsLeftToTry == ChartSpec => []ChartIsClosed
<1>1. IInv /\ AllIsTried => ChartIsClosed
  <2> SUFFICES ASSUME IInv, AllIsTried, agenda = {} PROVE ChartIsClosed
    BY DEF ChartIsClosed
  <2>1. Popped = made
    BY DEF Popped
  <2>2. ASSUME NEW w \in Words
        PROVE  w \in regs
    <3>1. TagEdge(w).status = 2 /\ ItemOf(TagEdge(w)) = ItemAt(w.term, w.start, w.finish)
      BY DEF TagEdge, ItemOf
    <3>2. ItemAt(w.term, w.start, w.finish) = w
      BY WordFacts DEF ItemAt, Constituent, Item
    <3> QED
      BY <2>1, <3>1, <3>2 DEF AllIsTried
  <2> QED
    BY <2>1, <2>2 DEF IInv, PairsMet, AllIsTried, ChartIsClosed
<1> QED
  BY <1>1, Inductive, TriedInductive, PTL

(* The chart is complete: whatever the grammar and the sentence, and in whatever order the
   edges were popped, a rule whose children are in the chart side by side, and whose unit
   rule is not ruled out, has its parent there once nothing is left on the agenda. *)
THEOREM TheChartIsComplete == ChartSpec => []ChartIsComplete
<1>1. IInv /\ ChartIsClosed => ChartIsComplete
  <2> SUFFICES ASSUME IInv, ChartIsClosed, agenda = {}
               PROVE  /\ Words \subseteq regs
                      /\ \A r \in Rules :
                           LET rhs == r.left \o <<r.head>> \o r.right
                               n == Len(rhs)
                           IN  \A line \in Lines(n) :
                                 /\ TermsOf(line) = rhs
                                 /\ ~(n = 1 /\ <<r.lhs, r.head>> \in BadPairs)
                                 => ItemAt(r.lhs, line[1].start, line[n].finish) \in regs
    BY DEF ChartIsComplete
  <2>1. Words \subseteq regs
    BY DEF ChartIsClosed
  <2>2. ASSUME NEW r \in Rules, NEW rhs, rhs = r.left \o <<r.head>> \o r.right,
               NEW n, n = Len(rhs), NEW line \in Lines(n), TermsOf(line) = rhs,
               ~(n = 1 /\ <<r.lhs, r.head>> \in BadPairs)
        PROVE  ItemAt(r.lhs, line[1].start, line[n].finish) \in regs
    <3> DEFINE h == Len(r.left) + 1
    <3>1. Expands(SymbolsOf(r), r.left, r.head, r.right, rhs, h)
      BY <2>2, ChartAssumption DEF Expands, SymbolsOf
    <3>2. Covers(r, line, n, h) /\ \A k \in 1 .. n : line[k] \in regs
      BY <2>2, <3>1, LineCovers
    <3> HIDE DEF h
    <3> QED
      BY <2>2, <3>2, RuleIsApplied
  <2> QED
    BY <2>1, <2>2
<1> QED
  BY <1>1, Inductive, NothingIsLeftToTry, PTL
=============================================================================

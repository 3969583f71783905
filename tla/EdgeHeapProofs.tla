--------------------------- MODULE EdgeHeapProofs ---------------------------
(***************************************************************************)
(* For every set of edges, every length of the array and every merits: the *)
(* keylist of the Charniak parser keeps its positions, keeps the heap in   *)
(* order, and implements the agenda of Agenda.tla.                         *)
(***************************************************************************)
EXTENDS EdgeHeap, WellFoundedInduction, TLAPS

(* The edge pop or redoP has taken out is not in the array any more. *)
GoneIsOut ==
    /\ pc \in {"popUp", "popDown", "delUp", "delDown", "reinsert"} <=> gone # NULL
    /\ \A i \in Used : array[i] # gone

(* The flag is true of every edge but the one that was taken out. *)
FlagsButGone ==
    \A e \in Edges : e # gone /\ heapPos[e] >= 0 => /\ heapPos[e] < unusedPos
                                                    /\ array[heapPos[e]] = e

Room == /\ pc # "aborted" => unusedPos < HeapSize
        /\ (UpPhase \/ DownPhase) => pos \in Used

Under(i, p) == i > 0 /\ Parent(i) = p

(* What is under pos is no better than what is above pos. *)
ChildrenBelowParent ==
    \A i \in Used : Under(i, pos) /\ pos > 0 => MeritAt(Parent(pos)) >= MeritAt(i)

OrderedBelow == \A i \in Used : Under(i, pos) => OrderedAt(i)

OrderedElsewhere == \A i \in Used : i # pos /\ ~Under(i, pos) => OrderedAt(i)

(* While an edge rises, order can fail between it and its parent, and, until
   the first swap after a deletion, between it and its children; while it sinks,
   only between it and its children. *)
Order ==
    /\ pc \in {"idle", "reinsert"} => \A i \in Used : OrderedAt(i)
    /\ UpPhase => /\ OrderedElsewhere
                  /\ ChildrenBelowParent
                  /\ (pc = "insertUp" \/ moved) => OrderedBelow
    /\ DownPhase => /\ OrderedElsewhere
                    /\ OrderedAt(pos)
                    /\ ChildrenBelowParent

IInv == Types /\ Positions /\ Room /\ GoneIsOut /\ FlagsButGone /\ Order

-----------------------------------------------------------------------------
(* Where parents and children are in the array. *)
LEMMA ParentFacts ==
  ASSUME NEW i \in Nat, i > 0
  PROVE  /\ Parent(i) \in Nat /\ Parent(i) < i
         /\ i = LeftChild(Parent(i)) \/ i = RightChild(Parent(i))
BY DEF Parent, LeftChild, RightChild

LEMMA ChildFacts ==
  ASSUME NEW p \in Nat
  PROVE  /\ LeftChild(p) \in Nat /\ LeftChild(p) > p /\ Parent(LeftChild(p)) = p
         /\ RightChild(p) = LeftChild(p) + 1 /\ Parent(RightChild(p)) = p
BY DEF Parent, LeftChild, RightChild

(* The typed facts the arithmetic of the order rests on. *)
LEMMA UsedFacts ==
  ASSUME Types, Positions
  PROVE  /\ Used \subseteq Nat /\ Used \subseteq Indices
         /\ \A i \in Used : array[i] \in Edges /\ MeritAt(i) \in Int
         /\ \A i, j \in Used : array[i] = array[j] => i = j
<1>1. Used \subseteq Indices BY HeapAssumption DEF Types, Used, Indices
<1>2. Used \subseteq Nat BY DEF Types, Used
<1>3. \A i \in Used : array[i] \in Edges /\ heapPos[array[i]] = i
  BY <1>1 DEF Positions
<1>4. \A i \in Used : MeritAt(i) \in Int
  BY <1>3, HeapAssumption DEF MeritAt, Types
<1> QED BY <1>1, <1>2, <1>3, <1>4

-----------------------------------------------------------------------------
(* Putting an edge at the first free position, as insert does before upheap. *)
LEMMA PutLinked ==
  ASSUME Types, Positions, Room, GoneIsOut, FlagsButGone,
         NEW e \in Edges, NEW m \in Merits, Put(e, m),
         pc \in {"idle", "reinsert"},
         \A i \in Used : array[i] # e,
         gone \in {NULL, e}
  PROVE  Types' /\ Positions' /\ Room' /\ GoneIsOut' /\ FlagsButGone'
<1> USE HeapAssumption
<1>0. unusedPos \in Indices /\ unusedPos \notin Used /\ unusedPos \in Nat
  BY DEF Room, Types, Indices, Used
<1>1. Used' = Used \cup {unusedPos} BY <1>0 DEF Put, Used, Types
<1>2. Types'
  <2>1. array' \in [Indices -> Edges \cup {NULL}] BY <1>0 DEF Types, Put
  <2>2. heapPos' \in [Edges -> Indices \cup {-1}] BY <1>0 DEF Types, Put
  <2>3. unusedPos' \in 0 .. HeapSize BY <1>0 DEF Types, Put, Indices
  <2>4. merit' \in [Edges -> Merits] BY DEF Types, Put
  <2>5. pc' \in Phases BY DEF Put, Phases
  <2> QED BY <2>1, <2>2, <2>3, <2>4, <2>5, <1>0 DEF Types, Put
<1>3. Positions'
  <2>1. ASSUME NEW i \in Indices, i \in Used'
        PROVE  array'[i] \in Edges /\ heapPos'[array'[i]] = i
    <3>1. CASE i = unusedPos BY <3>1, <1>0 DEF Put, Types
    <3>2. CASE i \in Used BY <3>2, <1>0 DEF Put, Types, Positions
    <3> QED BY <2>1, <3>1, <3>2, <1>1
  <2>2. ASSUME NEW i \in Indices, i \notin Used'
        PROVE  array'[i] = NULL
    BY <2>2, <1>1, <1>0 DEF Put, Types, Positions
  <2> QED BY <2>1, <2>2 DEF Positions, Indices
<1>4. Room'
  <2>1. pc' # "aborted" => unusedPos' < HeapSize BY DEF Put
  <2>2. pos' \in Used' BY <1>1 DEF Put
  <2> QED BY <2>1, <2>2 DEF Room
<1>5. GoneIsOut'
  <2>1. gone' = NULL /\ pc' \in {"insertUp", "aborted"} BY DEF Put
  <2>2. \A i \in Used' : array'[i] \in Edges
    BY <1>0, <1>1, <1>3, UsedFacts DEF Positions
  <2> QED BY <2>1, <2>2 DEF GoneIsOut
<1>6. FlagsButGone'
  <2> SUFFICES ASSUME NEW f \in Edges, heapPos'[f] >= 0
               PROVE  heapPos'[f] < unusedPos' /\ array'[heapPos'[f]] = f
    BY DEF FlagsButGone
  <2>1. CASE f = e BY <2>1, <1>0 DEF Put, Types
  <2>2. CASE f # e
    <3>1. heapPos'[f] = heapPos[f] /\ f # gone BY <2>2 DEF Put, Types
    <3>2. heapPos[f] < unusedPos /\ array[heapPos[f]] = f
      BY <3>1 DEF FlagsButGone
    <3>3. heapPos[f] \in Indices /\ heapPos[f] # unusedPos
      BY <3>1, <3>2, <1>0 DEF Types
    <3>4. array'[heapPos[f]] = array[heapPos[f]]
      BY <3>3 DEF Put, Types
    <3>5. unusedPos' = unusedPos + 1 BY DEF Put
    <3> QED BY <3>1, <3>2, <3>3, <3>4, <3>5, <1>0 DEF Indices
  <2> QED BY <2>1, <2>2
<1> QED BY <1>2, <1>3, <1>4, <1>5, <1>6

(* It leaves every edge in order with its parent but the new one. *)
LEMMA PutOrder ==
  ASSUME Types, Positions, Room, Order,
         NEW e \in Edges, NEW m \in Merits, Put(e, m),
         pc \in {"idle", "reinsert"},
         \A i \in Used : array[i] # e
  PROVE  Order'
<1>0. unusedPos \in Indices /\ unusedPos \notin Used /\ unusedPos \in Nat
  BY HeapAssumption DEF Room, Types, Indices, Used
<1>1. Used' = Used \cup {unusedPos} BY <1>0 DEF Put, Used, Types
<1>2. \A i \in Used : MeritAt(i)' = MeritAt(i)
  <2> TAKE i \in Used
  <2>1. array'[i] = array[i] /\ i \in Indices
    BY <1>0, UsedFacts DEF Put, Types
  <2> QED BY <2>1, UsedFacts DEF MeritAt, Put, Types
<1>3. \A i \in Used : OrderedAt(i)' 
  <2> TAKE i \in Used
  <2>1. OrderedAt(i) BY DEF Order
  <2>2. i > 0 => Parent(i) \in Used BY UsedFacts, ParentFacts DEF Used, Types
  <2> QED BY <2>1, <2>2, <1>2 DEF OrderedAt
<1>4. \A i \in Used' : ~Under(i, unusedPos)
  <2> TAKE i \in Used'
  <2>1. i \in Nat /\ i <= unusedPos BY <1>0, <1>1 DEF Used, Types
  <2> QED BY <2>1, <1>0, ParentFacts DEF Under
<1>5. pos' = unusedPos /\ pc' \in {"insertUp", "aborted"} BY DEF Put
<1>6. OrderedElsewhere' BY <1>1, <1>3, <1>5 DEF OrderedElsewhere
<1>7. OrderedBelow' /\ ChildrenBelowParent'
  BY <1>4, <1>5 DEF OrderedBelow, ChildrenBelowParent, Under
<1> QED BY <1>5, <1>6, <1>7 DEF Order, UpPhase, DownPhase

-----------------------------------------------------------------------------
(* Taking the edge at p out: the last edge is in its place. *)
LEMMA TakeOutFacts ==
  ASSUME Types, Positions, NEW p \in Used, NEW a, NEW b, TakeOut(p, a, b)
  PROVE  /\ unusedPos - 1 \in Used
         /\ Used' = Used \ {unusedPos - 1}
         /\ array' \in [Indices -> Edges \cup {NULL}]
         /\ unusedPos' \in 0 .. HeapSize
         /\ \A i \in Used' : /\ array'[i] = IF i = p THEN array[unusedPos - 1] ELSE array[i]
                             /\ array'[i] \in Edges /\ array'[i] # array[p]
         /\ \A i \in Indices : i \notin Used' => array'[i] = NULL
<1> USE HeapAssumption
<1>0. unusedPos \in Nat /\ unusedPos <= HeapSize /\ p \in Nat /\ p < unusedPos
  BY DEF Types, Used
<1> DEFINE last == unusedPos - 1
<1>1. last \in Used /\ last \in Indices /\ p \in Indices
  BY <1>0 DEF Used, Indices
<1>2. Used' = Used \ {last} BY <1>0 DEF TakeOut, Used
<1>3. unusedPos' \in 0 .. HeapSize BY <1>0 DEF TakeOut
<1>4. array \in [Indices -> Edges \cup {NULL}] /\ \A i \in Used : array[i] \in Edges
  BY UsedFacts DEF Types
<1>5. array' = IF p = last THEN [array EXCEPT ![p] = NULL]
                           ELSE [array EXCEPT ![p] = array[last], ![last] = NULL]
  BY DEF TakeOut
<1>6. array' \in [Indices -> Edges \cup {NULL}] BY <1>1, <1>4, <1>5
<1>7. ASSUME NEW i \in Used'
      PROVE  /\ array'[i] = IF i = p THEN array[last] ELSE array[i]
             /\ array'[i] \in Edges /\ array'[i] # array[p]
  <2>1. i \in Used /\ i # last /\ i \in Indices BY <1>2, UsedFacts
  <2>2. array'[i] = IF i = p THEN array[last] ELSE array[i]
    BY <2>1, <1>1, <1>4, <1>5
  <2>3. array[i] \in Edges /\ array[last] \in Edges BY <2>1, <1>1, <1>4
  <2>4. p # i => array[p] # array[i] BY <2>1, UsedFacts
  <2>5. i = p => array[p] # array[last] BY <2>1, <1>1, UsedFacts
  <2> QED BY <2>2, <2>3, <2>4, <2>5
<1>8. ASSUME NEW i \in Indices, i \notin Used'
      PROVE  array'[i] = NULL
  <2>1. CASE i = last BY <2>1, <1>1, <1>4, <1>5
  <2>2. CASE i \notin Used
    <3>1. i # p /\ i # last BY <2>2, <1>1
    <3>2. array'[i] = array[i] BY <3>1, <1>1, <1>4, <1>5
    <3> QED BY <3>2, <2>2 DEF Positions
  <2> QED BY <1>8, <1>2, <2>1, <2>2
<1> QED BY <1>1, <1>2, <1>3, <1>6, <1>7, <1>8

(* Nothing is out of order afterwards but the edge that has moved. *)
LEMMA TakeOutOrder ==
  ASSUME Types, Positions, NEW p \in Used, NEW a, NEW b, TakeOut(p, a, b),
         merit' = merit,
         \A i \in Used : OrderedAt(i)
  PROVE  /\ p = unusedPos - 1 => \A i \in Used' : OrderedAt(i)'
         /\ p # unusedPos - 1 => OrderedElsewhere' /\ ChildrenBelowParent'
<1> DEFINE last == unusedPos - 1
<1>1. \A i \in Used' : i \in Used /\ i \in Nat /\ i # last
  BY TakeOutFacts, UsedFacts
<1>2. \A i \in Used' : i > 0 => Parent(i) \in Used' /\ Parent(i) < i
  <2>1. unusedPos' \in Nat BY TakeOutFacts, HeapAssumption
  <2>2. \A i : i \in Used' <=> i \in Nat /\ i < unusedPos' BY <2>1 DEF Used
  <2> SUFFICES ASSUME NEW i, i \in Used', i > 0 PROVE Parent(i) \in Used' /\ Parent(i) < i
    OBVIOUS
  <2>3. i \in Nat /\ i < unusedPos' BY <2>2
  <2>4. Parent(i) \in Nat /\ Parent(i) < i BY <2>3, ParentFacts
  <2> QED BY <2>1, <2>2, <2>3, <2>4
<1>3. \A i \in Used' : i # p => MeritAt(i)' = MeritAt(i)
  BY TakeOutFacts DEF MeritAt
<1>4. ASSUME NEW i \in Used', i # p, i > 0 => Parent(i) # p
      PROVE  OrderedAt(i)'
  <2>1. OrderedAt(i) BY <1>1
  <2>2. MeritAt(i)' = MeritAt(i) BY <1>3, <1>4
  <2>3. i > 0 => MeritAt(Parent(i))' = MeritAt(Parent(i)) BY <1>2, <1>3, <1>4
  <2> QED BY <2>1, <2>2, <2>3 DEF OrderedAt
<1>5. ASSUME p = last PROVE \A i \in Used' : OrderedAt(i)'
  <2> TAKE i \in Used'
  <2>1. i # p BY <1>1, <1>5
  <2>2. i > 0 => Parent(i) # p BY <1>1, <1>2, <1>5
  <2> QED BY <2>1, <2>2, <1>4
<1>6. ASSUME p # last PROVE OrderedElsewhere' /\ ChildrenBelowParent'
  <2>1. pos' = p BY <1>6 DEF TakeOut
  <2>2. OrderedElsewhere'
    <3> SUFFICES ASSUME NEW i \in Used', i # p, ~Under(i, p) PROVE OrderedAt(i)'
      BY <2>1 DEF OrderedElsewhere, Under
    <3> QED BY <1>4 DEF Under
  <2>3. ChildrenBelowParent'
    <3> SUFFICES ASSUME NEW i \in Used', i > 0, Parent(i) = p, p > 0
                 PROVE  MeritAt(Parent(p))' >= MeritAt(i)'
      BY <2>1 DEF ChildrenBelowParent, Under
    <3>1. i \in Used /\ p \in Used /\ p \in Nat BY <1>1, UsedFacts
    <3>2. Parent(p) \in Nat /\ Parent(p) < p /\ p < i BY <3>1, <1>2, ParentFacts
    <3>3. p \in Used' BY <1>2
    <3>4. Parent(p) \in Used' /\ Parent(p) # p BY <3>2, <3>3, <1>2
    <3>5. MeritAt(i)' = MeritAt(i) /\ MeritAt(Parent(p))' = MeritAt(Parent(p))
      BY <3>2, <3>4, <1>3, <1>1
    <3>6. MeritAt(Parent(p)) >= MeritAt(p) /\ MeritAt(p) >= MeritAt(i)
      BY <3>1 DEF OrderedAt
    <3>7. Parent(p) \in Used BY <3>4, <1>1
    <3> HIDE DEF last
    <3>8. MeritAt(i) \in Int /\ MeritAt(p) \in Int /\ MeritAt(Parent(p)) \in Int
      BY <3>1, <3>7, UsedFacts
    <3> QED BY <3>5, <3>6, <3>8
  <2> QED BY <2>2, <2>3
<1> QED BY <1>5, <1>6

-----------------------------------------------------------------------------
(* The parts of the invariant that do not speak of merits. *)
Linked == Types /\ Positions /\ Room /\ GoneIsOut /\ FlagsButGone

LEMMA PopLinked ==
  ASSUME Linked, Pop
  PROVE  Linked'
<1> USE HeapAssumption DEF Linked
<1> DEFINE last == unusedPos - 1
<1>0. /\ pc = "idle" /\ unusedPos \in Nat /\ 0 \in Used /\ 0 \in Indices
      /\ gone = NULL /\ unusedPos < HeapSize
  BY DEF Pop, Types, Used, Indices, GoneIsOut, Room
<1>1. TakeOut(0, "popUp", "idle") BY DEF Pop
<1>2. /\ last \in Used /\ Used' = Used \ {last}
      /\ array' \in [Indices -> Edges \cup {NULL}]
      /\ unusedPos' \in 0 .. HeapSize
      /\ \A i \in Used' : /\ array'[i] = IF i = 0 THEN array[last] ELSE array[i]
                          /\ array'[i] \in Edges /\ array'[i] # array[0]
      /\ \A i \in Indices : i \notin Used' => array'[i] = NULL
  BY <1>0, <1>1, TakeOutFacts
<1>3. /\ array[0] \in Edges /\ array[last] \in Edges
      /\ heapPos[array[0]] = 0 /\ heapPos[array[last]] = last
      /\ last \in Indices
  BY <1>0, <1>2, UsedFacts DEF Positions
<1>4. unusedPos' = last BY DEF Pop, TakeOut
<1>5. /\ gone' = IF last = 0 THEN NULL ELSE array[0]
      /\ heapPos' = IF last = 0 THEN [heapPos EXCEPT ![array[0]] = -1]
                    ELSE [heapPos EXCEPT ![array[last]] = 0]
      /\ pc' = IF last = 0 THEN "idle" ELSE "popUp"
      /\ pos' = 0 /\ moved' = FALSE /\ merit' = merit
  BY <1>0 DEF Pop, TakeOut
<1>6. Types'
  <2>1. heapPos' \in [Edges -> Indices \cup {-1}] BY <1>0, <1>3, <1>5 DEF Types
  <2>2. gone' \in Edges \cup {NULL} BY <1>3, <1>5
  <2>3. merit' \in [Edges -> Merits] BY <1>5 DEF Types
  <2> QED BY <1>0, <1>2, <1>5, <2>1, <2>2, <2>3 DEF Types, Phases
<1>7. Positions'
  <2>1. ASSUME NEW i \in Indices, i \in Used'
        PROVE  array'[i] \in Edges /\ heapPos'[array'[i]] = i
    <3>1. i \in Used /\ i # last BY <2>1, <1>2
    <3>2. last # 0 BY <3>1, <1>0 DEF Used
    <3>3. heapPos' = [heapPos EXCEPT ![array[last]] = 0] BY <3>2, <1>5
    <3>4. CASE i = 0 BY <3>3, <3>4, <1>2, <1>3, <2>1 DEF Types
    <3>5. CASE i # 0
      <4>1. array'[i] = array[i] /\ array[i] # array[last] /\ array[i] \in Edges
        BY <3>1, <3>5, <2>1, <1>2, UsedFacts
      <4>2. heapPos[array[i]] = i BY <3>1, <2>1 DEF Positions
      <4> QED BY <4>1, <4>2, <3>3, <1>3 DEF Types
    <3> QED BY <3>4, <3>5
  <2> QED BY <2>1, <1>2 DEF Positions, Indices
<1>8. Room'
  <2>1. unusedPos' < HeapSize BY <1>0, <1>4
  <2>2. pc' = "popUp" => 0 \in Used' BY <1>0, <1>2, <1>5
  <2> QED BY <2>1, <2>2, <1>5 DEF Room, UpPhase, DownPhase
<1>9. GoneIsOut'
  <2>1. pc' \in {"popUp", "popDown", "delUp", "delDown", "reinsert"} <=> gone' # NULL
    BY <1>3, <1>5
  <2>2. \A i \in Used' : array'[i] # gone' BY <1>2, <1>5
  <2> QED BY <2>1, <2>2 DEF GoneIsOut
<1>10. FlagsButGone'
  <2> SUFFICES ASSUME NEW e \in Edges, e # gone', heapPos'[e] >= 0
               PROVE  heapPos'[e] < unusedPos' /\ array'[heapPos'[e]] = e
    BY DEF FlagsButGone
  <2>1. e # array[0]
    <3>1. CASE last = 0
      <4>1. heapPos'[array[0]] = -1 BY <3>1, <1>3, <1>5 DEF Types
      <4> QED BY <4>1
    <3>2. CASE last # 0 BY <3>2, <1>5
    <3> QED BY <3>1, <3>2
  <2>2. CASE e = array[last]
    <3>1. last # 0 BY <2>1, <2>2
    <3>2. heapPos'[e] = 0 BY <3>1, <2>2, <1>3, <1>5 DEF Types
    <3>3. 0 \in Used' BY <3>1, <1>0, <1>2
    <3> QED BY <3>1, <3>2, <3>3, <2>2, <1>0, <1>2, <1>4
  <2>3. CASE e # array[last]
    <3>1. heapPos'[e] = heapPos[e] BY <2>1, <2>3, <1>3, <1>5 DEF Types
    <3>2. heapPos[e] < unusedPos /\ array[heapPos[e]] = e /\ heapPos[e] \in Indices
      BY <3>1, <1>0 DEF FlagsButGone, Types
    <3>3. heapPos[e] # last /\ heapPos[e] # 0 BY <3>2, <2>1, <2>3
    <3>4. heapPos[e] \in Used /\ heapPos[e] \in Used'
      BY <3>2, <3>3, <1>0, <1>2 DEF Used, Indices
    <3> QED BY <3>1, <3>2, <3>3, <3>4, <1>0, <1>2, <1>4 DEF Indices
  <2> QED BY <2>2, <2>3
<1> QED BY <1>6, <1>7, <1>8, <1>9, <1>10

LEMMA RedoLinked ==
  ASSUME Linked, NEW r \in Edges, Redo(r)
  PROVE  Linked' /\ heapPos[r] \in Used
<1> USE HeapAssumption DEF Linked
<1> DEFINE last == unusedPos - 1
           p == heapPos[r]
<1>0. /\ pc = "idle" /\ unusedPos \in Nat /\ gone = NULL /\ unusedPos < HeapSize
  BY DEF Redo, Types, GoneIsOut, Room
<1>1. p >= 0 /\ p < unusedPos /\ array[p] = r /\ p \in Indices
  BY <1>0 DEF Redo, FlagsButGone, Types
<1>2. p \in Used BY <1>0, <1>1 DEF Used, Indices
<1>3. TakeOut(p, "delUp", "reinsert") BY DEF Redo
<1>4. /\ last \in Used /\ Used' = Used \ {last}
      /\ array' \in [Indices -> Edges \cup {NULL}]
      /\ unusedPos' \in 0 .. HeapSize
      /\ \A i \in Used' : /\ array'[i] = IF i = p THEN array[last] ELSE array[i]
                          /\ array'[i] \in Edges /\ array'[i] # array[p]
      /\ \A i \in Indices : i \notin Used' => array'[i] = NULL
  BY <1>2, <1>3, TakeOutFacts
<1>5. /\ array[last] \in Edges /\ heapPos[array[last]] = last /\ last \in Indices
  BY <1>4, UsedFacts DEF Positions
<1>6. /\ unusedPos' = last /\ gone' = r /\ merit' = merit /\ moved' = FALSE
      /\ heapPos' = IF p = last THEN heapPos ELSE [heapPos EXCEPT ![array[last]] = p]
      /\ pc' = IF p = last THEN "reinsert" ELSE "delUp"
      /\ pos' = IF p = last THEN 0 ELSE p
  BY DEF Redo, TakeOut
<1>7. Types'
  <2>1. heapPos' \in [Edges -> Indices \cup {-1}] BY <1>1, <1>5, <1>6 DEF Types
  <2>2. pos' \in Indices BY <1>1, <1>6 DEF Indices
  <2>3. merit' \in [Edges -> Merits] BY <1>6 DEF Types
  <2> QED BY <1>4, <1>6, <2>1, <2>2, <2>3 DEF Types, Phases
<1>8. Positions'
  <2>1. ASSUME NEW i \in Indices, i \in Used'
        PROVE  array'[i] \in Edges /\ heapPos'[array'[i]] = i
    <3>1. i \in Used /\ i # last BY <2>1, <1>4
    <3>2. CASE i = p
      <4>1. heapPos' = [heapPos EXCEPT ![array[last]] = p] BY <3>1, <3>2, <1>6
      <4> QED BY <4>1, <3>2, <1>4, <1>5, <2>1 DEF Types
    <3>3. CASE i # p
      <4>1. array'[i] = array[i] /\ array[i] # array[last] /\ array[i] \in Edges
        BY <3>1, <3>3, <2>1, <1>4, UsedFacts
      <4>2. heapPos[array[i]] = i BY <3>1, <2>1 DEF Positions
      <4> QED BY <4>1, <4>2, <1>5, <1>6 DEF Types
    <3> QED BY <3>2, <3>3
  <2> QED BY <2>1, <1>4 DEF Positions, Indices
<1>9. Room'
  <2>1. unusedPos' < HeapSize BY <1>0, <1>6
  <2>2. pc' = "delUp" => p \in Used' /\ pos' = p BY <1>2, <1>4, <1>6
  <2> QED BY <2>1, <2>2, <1>6 DEF Room, UpPhase, DownPhase
<1>10. GoneIsOut'
  <2>1. gone' # NULL /\ pc' \in {"delUp", "reinsert"} BY <1>6
  <2>2. \A i \in Used' : array'[i] # gone' BY <1>1, <1>4, <1>6
  <2> QED BY <2>1, <2>2 DEF GoneIsOut
<1>11. FlagsButGone'
  <2> SUFFICES ASSUME NEW e \in Edges, e # r, heapPos'[e] >= 0
               PROVE  heapPos'[e] < unusedPos' /\ array'[heapPos'[e]] = e
    BY <1>6 DEF FlagsButGone
  <2>2. CASE e = array[last]
    <3>1. p # last BY <2>2, <1>1
    <3>2. heapPos'[e] = p BY <3>1, <2>2, <1>5, <1>6 DEF Types
    <3>3. p \in Used' BY <3>1, <1>2, <1>4
    <3> QED BY <3>1, <3>2, <3>3, <2>2, <1>0, <1>1, <1>4, <1>6 DEF Indices
  <2>3. CASE e # array[last]
    <3>1. heapPos'[e] = heapPos[e] BY <2>3, <1>5, <1>6 DEF Types
    <3>2. heapPos[e] < unusedPos /\ array[heapPos[e]] = e /\ heapPos[e] \in Indices
      BY <3>1, <1>0 DEF FlagsButGone, Types
    <3>3. heapPos[e] # last /\ heapPos[e] # p BY <3>2, <1>1, <2>3
    <3>4. heapPos[e] \in Used /\ heapPos[e] \in Used'
      BY <3>2, <3>3, <1>0, <1>4 DEF Used, Indices
    <3> QED BY <3>1, <3>2, <3>3, <3>4, <1>0, <1>4, <1>6 DEF Indices
  <2> QED BY <2>2, <2>3
<1> QED BY <1>2, <1>7, <1>8, <1>9, <1>10, <1>11

-----------------------------------------------------------------------------
(* Two edges change places, and their notes with them. *)
LEMMA SwapLinked ==
  ASSUME Linked, NEW p \in Used, NEW q \in Used, p # q, Swap(p, q),
         UNCHANGED <<unusedPos, merit, pc, gone>>,
         pos' \in Used, moved' \in BOOLEAN
  PROVE  /\ Linked' /\ Used' = Used
         /\ MeritAt(p)' = MeritAt(q) /\ MeritAt(q)' = MeritAt(p)
         /\ \A i \in Used : i # p /\ i # q => MeritAt(i)' = MeritAt(i)
<1> USE DEF Linked
<1>1. Used' = Used BY DEF Used
<1>2. /\ p \in Indices /\ q \in Indices
      /\ array[p] \in Edges /\ array[q] \in Edges /\ array[p] # array[q]
  BY UsedFacts
<1>3. /\ array' = [array EXCEPT ![p] = array[q], ![q] = array[p]]
      /\ heapPos' = [heapPos EXCEPT ![array[q]] = p, ![array[p]] = q]
  BY DEF Swap
<1>4. /\ array' \in [Indices -> Edges \cup {NULL}]
      /\ heapPos' \in [Edges -> Indices \cup {-1}]
  BY <1>2, <1>3 DEF Types
<1>5. /\ array'[p] = array[q] /\ array'[q] = array[p]
      /\ \A i \in Indices : i # p /\ i # q => array'[i] = array[i]
  BY <1>2, <1>3 DEF Types
<1>6. /\ heapPos'[array[q]] = p /\ heapPos'[array[p]] = q
      /\ \A e \in Edges : e # array[p] /\ e # array[q] => heapPos'[e] = heapPos[e]
  BY <1>2, <1>3 DEF Types
<1>7. Types'
  <2>1. pos' \in Indices BY UsedFacts
  <2> QED BY <2>1, <1>4 DEF Types
<1>8. Positions'
  <2>1. ASSUME NEW i \in Indices, i \in Used
        PROVE  array'[i] \in Edges /\ heapPos'[array'[i]] = i
    <3>1. i # p /\ i # q => /\ array[i] # array[p] /\ array[i] # array[q]
                            /\ array[i] \in Edges /\ heapPos[array[i]] = i
      BY <2>1, UsedFacts DEF Positions
    <3> QED BY <2>1, <3>1, <1>2, <1>5, <1>6
  <2>2. ASSUME NEW i \in Indices, i \notin Used
        PROVE  array'[i] = NULL
    BY <2>2, <1>5 DEF Positions
  <2> QED BY <2>1, <2>2, <1>1 DEF Positions, Indices
<1>9. Room'
  BY <1>1 DEF Room, UpPhase, DownPhase
<1>10. GoneIsOut'
  <2>1. \A i \in Used : array'[i] # gone
    BY <1>2, <1>5, UsedFacts DEF GoneIsOut
  <2> QED BY <2>1, <1>1 DEF GoneIsOut
<1>11. FlagsButGone'
  <2> SUFFICES ASSUME NEW e \in Edges, e # gone, heapPos'[e] >= 0
               PROVE  heapPos'[e] < unusedPos /\ array'[heapPos'[e]] = e
    BY DEF FlagsButGone
  <2>1. p < unusedPos /\ q < unusedPos BY DEF Used, Types
  <2>2. CASE e = array[p] BY <2>1, <2>2, <1>5, <1>6
  <2>3. CASE e = array[q] BY <2>1, <2>3, <1>5, <1>6
  <2>4. CASE e # array[p] /\ e # array[q]
    <3>1. heapPos'[e] = heapPos[e] BY <2>4, <1>6
    <3>2. heapPos[e] < unusedPos /\ array[heapPos[e]] = e /\ heapPos[e] \in Indices
      BY <3>1 DEF FlagsButGone, Types
    <3> QED BY <3>1, <3>2, <2>4, <1>5
  <2> QED BY <2>2, <2>3, <2>4
<1>12. /\ MeritAt(p)' = MeritAt(q) /\ MeritAt(q)' = MeritAt(p)
       /\ \A i \in Used : i # p /\ i # q => MeritAt(i)' = MeritAt(i)
  BY <1>5, UsedFacts DEF MeritAt
<1> QED BY <1>1, <1>7, <1>8, <1>9, <1>10, <1>11, <1>12

(* A rising edge that is better than its parent passes it. *)
LEMMA UpPreserves ==
  ASSUME IInv, Up
  PROVE  IInv'
<1> USE DEF IInv, Linked
<1>0. PICK p \in Used : p = pos BY DEF Up, Room
<1>q. PICK q : q = Parent(p) OBVIOUS
<1>1. /\ UpPhase /\ p \in Used /\ p \in Nat /\ p > 0
      /\ MeritAt(p) > MeritAt(q)
  BY <1>0, <1>q, UsedFacts DEF Up, Rises
<1>2. q \in Nat /\ q < p BY <1>1, <1>q, ParentFacts
<1>3. q \in Used BY <1>1, <1>2 DEF Used, Types
<1>4. /\ Swap(q, p) /\ pos' = q /\ moved' = TRUE
      /\ UNCHANGED <<unusedPos, merit, pc, gone>>
  BY <1>0, <1>q DEF Up
<1>5. /\ Linked' /\ Used' = Used
      /\ MeritAt(q)' = MeritAt(p) /\ MeritAt(p)' = MeritAt(q)
      /\ \A i \in Used : i # q /\ i # p => MeritAt(i)' = MeritAt(i)
  BY <1>1, <1>2, <1>3, <1>4, SwapLinked
<1>6. \A i \in Used : i \in Nat /\ MeritAt(i) \in Int BY UsedFacts
<1>7. \A i \in Used : i > 0 => Parent(i) \in Used /\ Parent(i) < i
  <2> TAKE i \in Used
  <2>1. i > 0 => Parent(i) \in Nat /\ Parent(i) < i BY <1>6, ParentFacts
  <2> QED BY <2>1, <1>6 DEF Used, Types
<1>8. /\ OrderedElsewhere /\ ChildrenBelowParent BY <1>1 DEF Order
<1>9. ASSUME NEW i \in Used, i > 0, i # q, Parent(i) # q
      PROVE  MeritAt(Parent(i))' >= MeritAt(i)'
  <2>1. CASE Parent(i) = p
    <3>1. MeritAt(q) >= MeritAt(i) BY <2>1, <1>0, <1>q, <1>1, <1>8, <1>9 DEF ChildrenBelowParent, Under
    <3>2. i # p /\ MeritAt(i)' = MeritAt(i) BY <2>1, <1>5, <1>6, <1>7, <1>9
    <3> QED BY <3>1, <3>2, <2>1, <1>5
  <2>2. CASE Parent(i) # p
    <3>1. i # p BY <1>9, <1>q
    <3>2. OrderedAt(i) BY <3>1, <2>2, <1>0, <1>8 DEF OrderedElsewhere, Under
    <3>3. MeritAt(i)' = MeritAt(i) /\ MeritAt(Parent(i))' = MeritAt(Parent(i))
      BY <3>1, <2>2, <1>5, <1>7, <1>9
    <3> QED BY <3>2, <3>3, <1>9 DEF OrderedAt
  <2> QED BY <2>1, <2>2
<1>10. OrderedElsewhere'
  BY <1>4, <1>5, <1>9 DEF OrderedElsewhere, OrderedAt, Under
<1>11. ASSUME NEW i \in Used, i > 0, Parent(i) = q
       PROVE  MeritAt(q)' >= MeritAt(i)' /\ MeritAt(q) >= MeritAt(i)'
  <2>1. CASE i = p BY <2>1, <1>1, <1>3, <1>5, <1>6
  <2>2. CASE i # p
    <3>1. i # q BY <1>7, <1>11, <1>2
    <3>2. q # p BY <1>2, <1>1
    <3>3. OrderedAt(i) BY <2>2, <3>2, <1>0, <1>8, <1>11 DEF OrderedElsewhere, Under
    <3>4. MeritAt(q) >= MeritAt(i) BY <3>3, <1>11 DEF OrderedAt
    <3>5. MeritAt(i)' = MeritAt(i) BY <2>2, <3>1, <1>5
    <3> QED BY <3>4, <3>5, <1>1, <1>3, <1>5, <1>6
  <2> QED BY <2>1, <2>2
<1>12. OrderedBelow'
  BY <1>4, <1>5, <1>11 DEF OrderedBelow, OrderedAt, Under
<1>13. ChildrenBelowParent'
  <2> SUFFICES ASSUME NEW i \in Used, i > 0, Parent(i) = q, q > 0
               PROVE  MeritAt(Parent(q))' >= MeritAt(i)'
    BY <1>4, <1>5 DEF ChildrenBelowParent, Under
  <2>1. Parent(q) \in Used /\ Parent(q) # q /\ Parent(q) # p
    BY <1>2, <1>3, <1>7
  <2>2. OrderedAt(q) BY <1>0, <1>2, <1>3, <1>8, <2>1 DEF OrderedElsewhere, Under
  <2>3. MeritAt(Parent(q)) >= MeritAt(q) BY <2>2 DEF OrderedAt
  <2>4. MeritAt(Parent(q))' = MeritAt(Parent(q)) BY <2>1, <1>5
  <2>5. MeritAt(q) >= MeritAt(i)' BY <1>11
  <2>6. MeritAt(i)' \in Int BY <1>1, <1>3, <1>5, <1>6
  <2> QED BY <2>1, <2>3, <2>4, <2>5, <2>6, <1>3, <1>6
<1>14. Order' BY <1>1, <1>4, <1>10, <1>12, <1>13 DEF Order, UpPhase, DownPhase
<1> QED BY <1>5, <1>14

(* A sinking edge changes places with the better of its children. *)
LEMMA DownPreserves ==
  ASSUME IInv, Down
  PROVE  IInv'
<1> USE DEF IInv, Linked
<1>0. PICK p \in Used : p = pos BY DEF Down, Room
<1>q. PICK c : c = LargeChild(p) OBVIOUS
<1>1. /\ DownPhase /\ p \in Nat /\ p \in Used
      /\ LeftChild(p) < unusedPos /\ MeritAt(p) < MeritAt(c)
  BY <1>0, <1>q, UsedFacts DEF Down, Sinks
<1>2. \A i : i \in Used <=> i \in Nat /\ i < unusedPos BY DEF Used, Types
<1>3. /\ c \in Used /\ c > p /\ Parent(c) = p
      /\ \A i \in Used : i > 0 /\ Parent(i) = p => MeritAt(c) >= MeritAt(i)
  <2>1. LeftChild(p) \in Used BY <1>1, <1>2, ChildFacts
  <2>2. \A i \in Used : i > 0 /\ Parent(i) = p => i \in {LeftChild(p), RightChild(p)}
    BY <1>2, ParentFacts
  <2>3. CASE RightChild(p) >= unusedPos
    <3>1. c = LeftChild(p) BY <2>3, <1>q DEF LargeChild
    <3>2. RightChild(p) \notin Used BY <2>3, <1>2, <1>1 DEF Types
    <3> QED BY <3>1, <3>2, <2>1, <2>2, <1>1, ChildFacts, UsedFacts
  <2>4. CASE ~(RightChild(p) >= unusedPos)
    <3>1. RightChild(p) \in Nat /\ unusedPos \in Nat /\ RightChild(p) > p
      BY <1>1, ChildFacts DEF Types
    <3>2. RightChild(p) \in Used BY <3>1, <2>4, <1>2
    <3>3. MeritAt(LeftChild(p)) \in Int /\ MeritAt(RightChild(p)) \in Int
      BY <2>1, <3>2, UsedFacts
    <3>4. c = IF MeritAt(LeftChild(p)) > MeritAt(RightChild(p))
              THEN LeftChild(p) ELSE RightChild(p)
      BY <2>4, <1>q DEF LargeChild
    <3>5. MeritAt(c) >= MeritAt(LeftChild(p)) /\ MeritAt(c) >= MeritAt(RightChild(p))
      BY <3>3, <3>4
    <3> QED BY <2>1, <2>2, <3>1, <3>2, <3>4, <3>5, <1>1, ChildFacts
  <2> QED BY <2>3, <2>4
<1>4. /\ Swap(p, c) /\ pos' = c /\ moved' \in BOOLEAN
      /\ UNCHANGED <<unusedPos, merit, pc, gone>>
  BY <1>0, <1>q DEF Down, Types
<1>5. /\ Linked' /\ Used' = Used
      /\ MeritAt(p)' = MeritAt(c) /\ MeritAt(c)' = MeritAt(p)
      /\ \A i \in Used : i # p /\ i # c => MeritAt(i)' = MeritAt(i)
  <2>1. p # c BY <1>1, <1>3, <1>2
  <2> QED BY <2>1, <1>3, <1>4, SwapLinked
<1>6. \A i \in Used : i \in Nat /\ MeritAt(i) \in Int BY UsedFacts
<1>7. \A i \in Used : i > 0 => Parent(i) \in Used /\ Parent(i) < i
  <2> TAKE i \in Used
  <2>1. i > 0 => Parent(i) \in Nat /\ Parent(i) < i BY <1>6, ParentFacts
  <2> QED BY <2>1, <1>6 DEF Used, Types
<1>8. /\ OrderedElsewhere /\ OrderedAt(p) /\ ChildrenBelowParent
  BY <1>0, <1>1 DEF Order
<1>9. ASSUME NEW i \in Used, i > 0, Parent(i) # c
      PROVE  MeritAt(Parent(i))' >= MeritAt(i)'
  <2>1. CASE i = p
    <3>1. MeritAt(Parent(p)) >= MeritAt(c)
      BY <2>1, <1>0, <1>3, <1>6, <1>8, <1>9 DEF ChildrenBelowParent, Under
    <3>2. Parent(p) # p /\ Parent(p) # c /\ Parent(p) \in Used
      BY <2>1, <1>3, <1>6, <1>7, <1>9
    <3> QED BY <2>1, <3>1, <3>2, <1>5
  <2>2. CASE Parent(i) = p
    <3>1. MeritAt(c) >= MeritAt(i) BY <2>2, <1>3, <1>9
    <3>2. CASE i = c BY <3>2, <2>2, <1>1, <1>3, <1>5, <1>6
    <3>3. CASE i # c
      <4>1. i # p BY <2>2, <1>6, <1>7, <1>9
      <4> QED BY <4>1, <3>1, <3>3, <2>2, <1>5
    <3> QED BY <3>2, <3>3
  <2>3. CASE i # p /\ Parent(i) # p
    <3>1. i # c BY <2>3, <1>3
    <3>2. OrderedAt(i) BY <2>3, <1>0, <1>8 DEF OrderedElsewhere, Under
    <3>3. MeritAt(i)' = MeritAt(i) /\ MeritAt(Parent(i))' = MeritAt(Parent(i))
      BY <3>1, <2>3, <1>5, <1>7, <1>9
    <3> QED BY <3>2, <3>3, <1>9 DEF OrderedAt
  <2> QED BY <2>1, <2>2, <2>3
<1>10. OrderedElsewhere'
  BY <1>4, <1>5, <1>9 DEF OrderedElsewhere, OrderedAt, Under
<1>11. OrderedAt(pos)'
  <2>1. c > 0 /\ Parent(c) # c BY <1>3, <1>6
  <2>2. MeritAt(Parent(c))' >= MeritAt(c)' BY <2>1, <1>3, <1>9
  <2> QED BY <2>2, <1>4 DEF OrderedAt, MeritAt
<1>12. ChildrenBelowParent'
  <2> SUFFICES ASSUME NEW i \in Used, i > 0, Parent(i) = c
               PROVE  MeritAt(Parent(c))' >= MeritAt(i)'
    BY <1>4, <1>5 DEF ChildrenBelowParent, Under, MeritAt
  <2>1. i # p /\ i # c BY <1>3, <1>6, <1>7
  <2>2. OrderedAt(i) BY <2>1, <1>0, <1>3, <1>6, <1>8 DEF OrderedElsewhere, Under
  <2>3. MeritAt(c) >= MeritAt(i) BY <2>2 DEF OrderedAt
  <2> QED BY <2>1, <2>3, <1>3, <1>5
<1>13. Order' BY <1>1, <1>4, <1>10, <1>11, <1>12 DEF Order, UpPhase, DownPhase
<1> QED BY <1>5, <1>13

-----------------------------------------------------------------------------
(* The end of a sift: nothing moves, and the edge taken out is marked. *)
LEMMA FinishPreserves ==
  ASSUME Linked, Finish, UpPhase \/ DownPhase,
         \A i \in Used : OrderedAt(i)
  PROVE  IInv'
<1> USE HeapAssumption DEF Linked
<1>0. 0 \in Indices BY DEF Indices
<1>1. UNCHANGED <<array, unusedPos, merit>> /\ pos' = 0 /\ moved' = FALSE /\ Used' = Used
  BY DEF Finish, Used
<1>2. pc' = IF pc \in {"delUp", "delDown"} THEN "reinsert" ELSE "idle"
  BY DEF Finish
<1>3. CASE pc \in {"popUp", "popDown"}
  <2>1. heapPos' = [heapPos EXCEPT ![gone] = -1] /\ gone' = NULL /\ pc' = "idle"
    BY <1>3 DEF Finish
  <2>2. gone \in Edges BY <1>3 DEF GoneIsOut, Types
  <2>3. Types' BY <1>0, <1>1, <2>1, <2>2 DEF Types, Phases
  <2>4. Positions'
    <3>1. \A i \in Used : array[i] # gone BY DEF GoneIsOut
    <3> QED BY <3>1, <1>1, <2>1, UsedFacts DEF Positions, Types, Indices
  <2>5. Room' BY <1>3, <1>1, <2>1 DEF Room, UpPhase, DownPhase
  <2>6. GoneIsOut' BY <1>1, <2>1, UsedFacts DEF GoneIsOut
  <2>7. FlagsButGone' BY <1>1, <2>1, <2>2 DEF FlagsButGone, Types
  <2> QED BY <1>1, <2>1, <2>3, <2>4, <2>5, <2>6, <2>7
      DEF IInv, Order, UpPhase, DownPhase, OrderedAt, MeritAt
<1>4. CASE pc \notin {"popUp", "popDown"}
  <2>1. UNCHANGED <<heapPos, gone>> BY <1>4 DEF Finish
  <2>2. Types' BY <1>0, <1>1, <1>2, <2>1 DEF Types, Phases
  <2>3. Positions' BY <1>1, <2>1 DEF Positions, Indices
  <2>4. Room' BY <1>1, <1>2, <1>4 DEF Room, UpPhase, DownPhase
  <2>5. GoneIsOut' BY <1>1, <1>2, <1>4, <2>1 DEF GoneIsOut, UpPhase, DownPhase
  <2>6. FlagsButGone' BY <1>1, <2>1 DEF FlagsButGone
  <2> QED BY <1>1, <1>2, <2>2, <2>3, <2>4, <2>5, <2>6
      DEF IInv, Order, UpPhase, DownPhase, OrderedAt, MeritAt
<1> QED BY <1>3, <1>4

LEMMA UpReturnsPreserves ==
  ASSUME IInv, UpReturns
  PROVE  IInv'
<1> USE DEF IInv, Linked
<1>1. UpPhase /\ ~Rises /\ pos \in Used BY DEF UpReturns, Room
<1>2. OrderedAt(pos)
  <2>1. pos > 0 => Parent(pos) \in Used
    BY <1>1, UsedFacts, ParentFacts DEF Used, Types
  <2>2. MeritAt(pos) \in Int /\ (pos > 0 => MeritAt(Parent(pos)) \in Int)
    BY <1>1, <2>1, UsedFacts
  <2> QED BY <1>1, <2>2 DEF Rises, OrderedAt
<1>3. OrderedElsewhere /\ ChildrenBelowParent BY <1>1 DEF Order
<1>4. CASE pc = "insertUp" \/ moved
  <2>1. OrderedBelow BY <1>1, <1>4 DEF Order
  <2>2. \A i \in Used : OrderedAt(i)
    BY <1>2, <1>3, <2>1 DEF OrderedElsewhere, OrderedBelow
  <2> QED BY <1>1, <1>4, <2>2, FinishPreserves DEF UpReturns
<1>5. CASE ~(pc = "insertUp" \/ moved)
  <2>1. /\ pc' = IF pc = "popUp" THEN "popDown" ELSE "delDown"
        /\ pc \in {"popUp", "delUp"}
        /\ UNCHANGED <<array, unusedPos, heapPos, merit, pos, moved, gone>>
    BY <1>1, <1>5 DEF UpReturns, UpPhase
  <2>2. Types' BY <2>1 DEF Types, Phases, Indices
  <2>3. Positions' /\ FlagsButGone' BY <2>1 DEF Positions, FlagsButGone, Used, Indices
  <2>4. Room' /\ GoneIsOut'
    BY <1>1, <2>1 DEF Room, GoneIsOut, Used, UpPhase, DownPhase
  <2>5. OrderedElsewhere' /\ ChildrenBelowParent' /\ OrderedAt(pos)'
    BY <1>2, <1>3, <2>1
    DEF OrderedElsewhere, ChildrenBelowParent, OrderedAt, Used, MeritAt, Under
  <2>6. Order' BY <2>1, <2>5 DEF Order, UpPhase, DownPhase
  <2> QED BY <2>2, <2>3, <2>4, <2>6
<1> QED BY <1>4, <1>5

LEMMA DownReturnsPreserves ==
  ASSUME IInv, DownReturns
  PROVE  IInv'
<1> USE DEF IInv, Linked
<1>0. PICK p \in Used : p = pos BY DEF DownReturns, Room
<1>1. DownPhase /\ ~Sinks /\ p \in Nat BY UsedFacts DEF DownReturns
<1>2. OrderedElsewhere /\ OrderedAt(p) BY <1>0, <1>1 DEF Order
<1>3. \A i : i \in Used <=> i \in Nat /\ i < unusedPos BY DEF Used, Types
<1>4. ASSUME NEW i \in Used, i > 0, Parent(i) = p
      PROVE  MeritAt(p) >= MeritAt(i)
  <2>1. i = LeftChild(p) \/ i = RightChild(p) BY <1>3, <1>4, ParentFacts
  <2>2. LeftChild(p) \in Used BY <2>1, <1>1, <1>3, ChildFacts DEF Types
  <2>3. ~(MeritAt(p) < MeritAt(LargeChild(p)))
    BY <2>2, <1>0, <1>1, <1>3 DEF Sinks
  <2>4. MeritAt(p) \in Int /\ MeritAt(i) \in Int /\ MeritAt(LeftChild(p)) \in Int
    BY <2>2, UsedFacts
  <2>5. CASE RightChild(p) >= unusedPos
    <3>1. LargeChild(p) = LeftChild(p) BY <2>5 DEF LargeChild
    <3>2. i = LeftChild(p) BY <2>1, <2>5, <1>3 DEF Types
    <3> QED BY <3>1, <3>2, <2>3, <2>4
  <2>6. CASE ~(RightChild(p) >= unusedPos)
    <3>1. RightChild(p) \in Used
      <4>1. RightChild(p) \in Nat /\ unusedPos \in Nat BY <1>1, ChildFacts DEF Types
      <4> QED BY <4>1, <2>6, <1>3
    <3>2. MeritAt(RightChild(p)) \in Int BY <3>1, UsedFacts
    <3>3. LargeChild(p) = IF MeritAt(LeftChild(p)) > MeritAt(RightChild(p))
                          THEN LeftChild(p) ELSE RightChild(p)
      BY <2>6 DEF LargeChild
    <3> QED BY <3>2, <3>3, <2>1, <2>3, <2>4
  <2> QED BY <2>5, <2>6
<1>5. \A i \in Used : OrderedAt(i)
  <2> TAKE i \in Used
  <2>1. CASE i > 0 /\ Parent(i) = p BY <2>1, <1>4 DEF OrderedAt
  <2>2. CASE ~(i > 0 /\ Parent(i) = p)
    BY <2>2, <1>0, <1>2 DEF OrderedElsewhere, Under
  <2> QED BY <2>1, <2>2
<1> QED BY <1>1, <1>5, FinishPreserves DEF DownReturns

-----------------------------------------------------------------------------
LEMMA InitInv == Init => IInv
<1> SUFFICES ASSUME Init PROVE IInv
  OBVIOUS
<1> USE HeapAssumption DEF Init
<1>1. Used = {} BY DEF Used
<1>2. Types
  <2>1. 0 \in Indices /\ 0 \in 0 .. HeapSize BY DEF Indices
  <2> QED BY <2>1 DEF Types, Phases
<1>3. Positions BY <1>1 DEF Positions
<1>4. Room /\ GoneIsOut /\ FlagsButGone
  BY <1>1 DEF Room, GoneIsOut, FlagsButGone, UpPhase, DownPhase
<1>5. Order BY <1>1 DEF Order, UpPhase, DownPhase
<1> QED BY <1>2, <1>3, <1>4, <1>5 DEF IInv

LEMMA PutPreserves ==
  ASSUME IInv, NEW e \in Edges, NEW m \in Merits, Put(e, m),
         pc \in {"idle", "reinsert"},
         \A i \in Used : array[i] # e,
         gone \in {NULL, e}
  PROVE  IInv'
BY PutLinked, PutOrder DEF IInv

LEMMA StepInv == IInv /\ [Next]_vars => IInv'
<1> SUFFICES ASSUME IInv, [Next]_vars PROVE IInv'
  OBVIOUS
<1> USE DEF IInv
<1>1. ASSUME Pop PROVE IInv'
  <2>1. Linked' BY <1>1, PopLinked DEF Linked
  <2>2. /\ 0 \in Used /\ merit' = merit /\ TakeOut(0, "popUp", "idle") /\ pc = "idle"
        /\ pc' = IF unusedPos - 1 = 0 THEN "idle" ELSE "popUp"
        /\ moved' = FALSE
        /\ unusedPos - 1 # 0 => pos' = 0
    BY <1>1 DEF Pop, TakeOut, Used, Types
  <2>3. /\ unusedPos - 1 = 0 => \A i \in Used' : OrderedAt(i)'
        /\ unusedPos - 1 # 0 => OrderedElsewhere' /\ ChildrenBelowParent'
    BY <2>2, TakeOutOrder DEF Order
  <2>4. Order' BY <2>2, <2>3 DEF Order, UpPhase, DownPhase
  <2> QED BY <2>1, <2>4 DEF Linked
<1>2. ASSUME NEW e \in Edges, Redo(e) PROVE IInv'
  <2>1. Linked' /\ heapPos[e] \in Used BY <1>2, RedoLinked DEF Linked
  <2>2. PICK p \in Used : p = heapPos[e] BY <2>1
  <2>3. /\ merit' = merit /\ TakeOut(p, "delUp", "reinsert") /\ pc = "idle"
        /\ pc' = IF unusedPos - 1 = p THEN "reinsert" ELSE "delUp"
        /\ moved' = FALSE
    BY <1>2, <2>2 DEF Redo, TakeOut
  <2>4. /\ p = unusedPos - 1 => \A i \in Used' : OrderedAt(i)'
        /\ p # unusedPos - 1 => OrderedElsewhere' /\ ChildrenBelowParent'
    BY <2>3, TakeOutOrder DEF Order
  <2>5. Order' BY <2>3, <2>4 DEF Order, UpPhase, DownPhase
  <2> QED BY <2>1, <2>5 DEF Linked
<1>3. ASSUME NEW m \in Merits, Reinsert(m) PROVE IInv'
  <2>1. gone \in Edges /\ Put(gone, m) /\ pc = "reinsert"
    BY <1>3 DEF Reinsert, GoneIsOut, Types
  <2>2. PICK e \in Edges : e = gone BY <2>1
  <2> QED BY <2>1, <2>2, PutPreserves DEF GoneIsOut
<1>4. ASSUME NEW e \in Edges, NEW m \in Merits, Insert(e, m) PROVE IInv'
  <2>1. pc = "idle" /\ heapPos[e] = -1 /\ Put(e, m) /\ gone = NULL
    BY <1>4 DEF Insert, GoneIsOut
  <2>2. \A i \in Used : array[i] # e
    <3>1. \A i \in Used : heapPos[array[i]] = i /\ i \in Nat
      BY UsedFacts DEF Positions
    <3> QED BY <2>1, <3>1
  <2> QED BY <2>1, <2>2, PutPreserves
<1>5. ASSUME NEW e \in Edges, NEW m \in Merits, RedoPopped(e, m) PROVE IInv'
  <2>1. /\ merit' = [merit EXCEPT ![e] = m] /\ pc = "idle" /\ heapPos[e] = -1
        /\ UNCHANGED <<array, unusedPos, heapPos, pc, pos, moved, gone>>
    BY <1>5 DEF RedoPopped
  <2>2. Types' BY <2>1 DEF Types
  <2>3. Positions' /\ Room' /\ GoneIsOut' /\ FlagsButGone'
    BY <2>1 DEF Positions, Room, GoneIsOut, FlagsButGone, Used, UpPhase, DownPhase
  <2>4. \A i \in Used : array[i] # e
    <3>1. \A i \in Used : heapPos[array[i]] = i /\ i \in Nat
      BY UsedFacts DEF Positions
    <3> QED BY <2>1, <3>1
  <2>5. Used' = Used /\ \A i \in Used : MeritAt(i)' = MeritAt(i)
    BY <2>1, <2>4, UsedFacts DEF MeritAt, Types, Used
  <2>6. \A i \in Used : OrderedAt(i)'
    <3> TAKE i \in Used
    <3>1. i > 0 => Parent(i) \in Used BY UsedFacts, ParentFacts DEF Used, Types
    <3> QED BY <2>1, <2>5, <3>1 DEF Order, OrderedAt
  <2>7. Order' BY <2>1, <2>5, <2>6 DEF Order, UpPhase, DownPhase
  <2> QED BY <2>2, <2>3, <2>7
<1>6. CASE UNCHANGED vars
  BY <1>6 DEF vars, Types, Positions, Room, GoneIsOut, FlagsButGone, Order, Used,
     OrderedElsewhere, OrderedBelow, ChildrenBelowParent, Under, OrderedAt, MeritAt,
     UpPhase, DownPhase, Indices
<1> QED
  BY <1>1, <1>2, <1>3, <1>4, <1>5, <1>6, UpPreserves, DownPreserves,
     UpReturnsPreserves, DownReturnsPreserves DEF Next

LEMMA Invariance == Spec => []IInv
BY InitInv, StepInv, PTL DEF Spec

(* EdgeHeap.C never leaves its variables' types. *)
THEOREM TypeCorrect == Spec => []TypeOK
<1>1. IInv => TypeOK BY DEF IInv, TypeOK, Room
<1> QED BY <1>1, Invariance, PTL

(* What upheap, downHeap and del assert of heapPos holds between any two steps,
   for every size of the array. *)
THEOREM PositionsTheorem == Spec => []Positions
BY Invariance, PTL DEF IInv

(* Between two operations heapPos tells redoP the truth. *)
THEOREM FlagIsTrueTheorem == Spec => []FlagIsTrue
<1>1. IInv => FlagIsTrue
  BY HeapAssumption DEF IInv, GoneIsOut, FlagsButGone, FlagIsTrue, Types
<1> QED BY <1>1, Invariance, PTL

(* Between two operations the heap is in order, whatever redoP has moved. *)
THEOREM HeapOrderedTheorem == Spec => []HeapOrdered
<1>1. IInv => HeapOrdered BY DEF IInv, Order, HeapOrdered
<1> QED BY <1>1, Invariance, PTL

-----------------------------------------------------------------------------
(* A set of natural numbers has a least element. *)
LEMMA LeastNatural ==
  ASSUME NEW T, T \subseteq Nat, T # {}
  PROVE  \E x \in T : \A y \in T : x <= y
<1> DEFINE R == OpToRel(<, Nat)
<1>1. IsWellFoundedOn(R, Nat) BY NatLessThanWellFounded
<1>2. R = {ss \in Nat \X Nat : ss[1] < ss[2]} BY DEF OpToRel
<1>3. \A y, x \in Nat : y < x => <<y, x>> \in R BY <1>2
<1> HIDE DEF R
<1>4. PICK x \in T : \A y \in T : ~ (<<y, x>> \in R) BY <1>1, WFMin
<1>5. \A y \in T : ~(y < x) BY <1>3, <1>4
<1> QED BY <1>5

(* An array in which no edge is better than its parent has a best edge on top:
   the least position better than the top would have a parent that is no better
   than the top. *)
LEMMA TopIsBest ==
  ASSUME IInv, \A i \in Used : OrderedAt(i), 0 \in Used
  PROVE  \A i \in Used : MeritAt(i) <= MeritAt(0)
<1> DEFINE T == {i \in Used : MeritAt(i) > MeritAt(0)}
<1>1. \A i \in Used : i \in Nat /\ MeritAt(i) \in Int BY UsedFacts DEF IInv
<1>2. ASSUME T # {} PROVE FALSE
  <2>1. PICK x \in T : \A y \in T : x <= y BY <1>1, <1>2, LeastNatural
  <2>2. x \in Used /\ x \in Nat /\ MeritAt(x) > MeritAt(0) BY <1>1, <2>1
  <2>3. x > 0 BY <2>2, <1>1
  <2>4. Parent(x) \in Nat /\ Parent(x) < x BY <2>2, <2>3, ParentFacts
  <2>5. Parent(x) \in Used BY <2>2, <2>4 DEF Used, IInv, Types
  <2>6. MeritAt(Parent(x)) >= MeritAt(x) BY <2>2, <2>3 DEF OrderedAt
  <2>7. MeritAt(Parent(x)) > MeritAt(0)
    <3>1. MeritAt(Parent(x)) \in Int /\ MeritAt(x) \in Int /\ MeritAt(0) \in Int
      BY <2>2, <2>5, <1>1
    <3> QED BY <3>1, <2>2, <2>6
  <2>8. Parent(x) \in T BY <2>5, <2>7
  <2> QED BY <2>1, <2>2, <2>4, <2>8
<1> QED BY <1>1, <1>2


(* EdgeHeap.C implements Agenda.tla: pop takes a best edge, and an edge that redoP
   takes out and puts back has not left. *)
THEOREM HeapIsAgenda == Spec => IsAgenda
<1> USE HeapAssumption
<1>1. Init => A!Init
  <2>1. Init => Waiting = {} BY DEF Init, Waiting, Used
  <2> QED BY <2>1 DEF Init, A!Init
<1>2. IInv /\ [Next]_vars => [A!Next]_(A!agendaVars)
  <2> SUFFICES ASSUME IInv, [Next]_vars PROVE [A!Next]_(A!agendaVars)
    OBVIOUS
  <2> USE DEF IInv
  <2> DEFINE Held == {array[i] : i \in Used}
             Moving == IF pc \in {"delUp", "delDown", "reinsert"} THEN {gone} ELSE {}
  <2>0. Waiting = Held \cup Moving BY DEF Waiting
  <2>1. ASSUME NEW e \in Edges, NEW m \in Merits, Put(e, m),
               pc \in {"idle", "reinsert"}
        PROVE  Held' = Held \cup {e} /\ Moving' = {} /\ merit' = [merit EXCEPT ![e] = m]
    <3>1. unusedPos \in Indices /\ unusedPos \notin Used /\ unusedPos \in Nat
      BY <2>1 DEF Room, Types, Indices, Used
    <3>2. Used' = Used \cup {unusedPos} BY <2>1, <3>1 DEF Put, Used
    <3>3. array'[unusedPos] = e /\ \A i \in Used : array'[i] = array[i]
      BY <2>1, <3>1, UsedFacts DEF Put, Types
    <3>4. Held' = Held \cup {e} BY <3>2, <3>3
    <3>5. Moving' = {} /\ merit' = [merit EXCEPT ![e] = m] BY <2>1 DEF Put
    <3> QED BY <3>4, <3>5
  <2>2. ASSUME NEW e \in Edges, NEW m \in Merits, Insert(e, m)
        PROVE  A!Insert(e, m)
    <3>1. pc = "idle" /\ heapPos[e] = -1 /\ Put(e, m) BY <2>2 DEF Insert
    <3>2. e \notin Held
      <4>1. \A i \in Used : heapPos[array[i]] = i /\ i \in Nat
        BY UsedFacts DEF Positions
      <4> QED BY <3>1, <4>1
    <3>3. Moving = {} BY <3>1
    <3> QED BY <2>0, <2>1, <3>1, <3>2, <3>3 DEF A!Insert, Waiting
  <2>3. ASSUME NEW m \in Merits, Reinsert(m)
        PROVE  \E e \in Edges : A!Revalue(e, m)
    <3>1. gone \in Edges /\ Put(gone, m) /\ pc = "reinsert"
      BY <2>3 DEF Reinsert, GoneIsOut, Types
    <3>2. PICK e \in Edges : e = gone BY <3>1
    <3>3. Held' = Held \cup {e} /\ Moving' = {} /\ merit' = [merit EXCEPT ![e] = m]
      BY <2>1, <3>1, <3>2
    <3>4. Moving = {e} BY <3>1, <3>2
    <3>5. Waiting' = Waiting BY <2>0, <3>3, <3>4 DEF Waiting
    <3> QED BY <3>3, <3>5 DEF A!Revalue
  <2>4. ASSUME NEW e \in Edges, NEW m \in Merits, RedoPopped(e, m)
        PROVE  A!Revalue(e, m)
    BY <2>4 DEF RedoPopped, A!Revalue, Waiting, Used
  <2>5. ASSUME NEW p \in Used, NEW a, NEW b, TakeOut(p, a, b)
        PROVE  Held' = Held \ {array[p]}
    <3>1. /\ unusedPos - 1 \in Used /\ Used' = Used \ {unusedPos - 1}
          /\ \A i \in Used' : /\ array'[i] = IF i = p THEN array[unusedPos - 1] ELSE array[i]
                              /\ array'[i] # array[p]
      BY <2>5, TakeOutFacts
    <3>2. \A i \in Used' : array'[i] \in Held /\ array'[i] # array[p] BY <3>1
    <3>3. ASSUME NEW i \in Used, array[i] # array[p]
          PROVE  \E j \in Used' : array'[j] = array[i]
      <4>1. CASE i = unusedPos - 1
        <5>1. p \in Used' /\ array'[p] = array[i] BY <4>1, <3>1, <3>3
        <5> QED BY <5>1
      <4>2. CASE i # unusedPos - 1
        <5>1. i \in Used' /\ array'[i] = array[i] BY <4>2, <3>1, <3>3
        <5> QED BY <5>1
      <4> QED BY <4>1, <4>2
    <3> QED BY <3>2, <3>3
  <2>6. ASSUME Pop PROVE \E e \in Edges : A!Pop(e)
    <3>1. /\ pc = "idle" /\ 0 \in Used /\ TakeOut(0, "popUp", "idle") /\ merit' = merit
          /\ pc' \in {"idle", "popUp"}
      BY <2>6 DEF Pop, TakeOut, Used, Types
    <3>2. PICK e \in Edges : e = array[0] BY <3>1, UsedFacts
    <3>3. Moving = {} /\ Moving' = {} BY <3>1
    <3>4. Waiting' = Waiting \ {e} BY <2>0, <2>5, <3>1, <3>2, <3>3 DEF Waiting
    <3>5. A!Best(e)
      <4>1. e \in Held BY <3>1, <3>2
      <4>2. \A i \in Used : merit[array[i]] <= merit[array[0]]
        BY <3>1, TopIsBest DEF Order, MeritAt
      <4> QED BY <2>0, <3>2, <3>3, <4>1, <4>2 DEF A!Best
    <3> QED BY <3>1, <3>4, <3>5 DEF A!Pop
  <2>7. ASSUME NEW e \in Edges, Redo(e) PROVE UNCHANGED <<Waiting, merit>>
    <3>1. heapPos[e] \in Used BY <2>7, RedoLinked DEF Linked
    <3>2. PICK p \in Used : p = heapPos[e] BY <3>1
    <3>3. /\ merit' = merit /\ TakeOut(p, "delUp", "reinsert") /\ pc = "idle"
          /\ pc' \in {"delUp", "reinsert"} /\ gone' = e
      BY <2>7, <3>2 DEF Redo, TakeOut
    <3>4. array[p] = e
      BY <2>7, <3>2, <3>3 DEF FlagsButGone, GoneIsOut, Redo
    <3>5. Held' = Held \ {e} BY <2>5, <3>3, <3>4
    <3>6. Moving = {} /\ Moving' = {e} /\ e \in Held BY <3>2, <3>3, <3>4
    <3> QED BY <2>0, <3>3, <3>5, <3>6 DEF Waiting
  <2>8. ASSUME NEW p \in Used, NEW q \in Used, Swap(p, q), unusedPos' = unusedPos
        PROVE  Held' = Held
    <3>1. Used' = Used BY <2>8 DEF Used
    <3>2. /\ array'[p] = array[q] /\ array'[q] = array[p]
          /\ \A i \in Used : i # p /\ i # q => array'[i] = array[i]
      BY <2>8, UsedFacts DEF Swap, Types
    <3>3. \A i \in Used : \E j \in Used : array'[i] = array[j] BY <3>2
    <3>4. \A i \in Used : \E j \in Used : array[i] = array'[j] BY <3>2
    <3> QED BY <3>1, <3>3, <3>4
  <2>9. ASSUME Up PROVE UNCHANGED <<Waiting, merit>>
    <3>1. PICK p \in Used : p = pos BY <2>9 DEF Up, Room
    <3>2. p > 0 /\ p \in Nat BY <2>9, <3>1, UsedFacts DEF Up, Rises
    <3>3. Parent(p) \in Used BY <3>2, ParentFacts DEF Used, Types
    <3>4. Held' = Held BY <2>8, <2>9, <3>1, <3>3 DEF Up
    <3>5. UNCHANGED <<merit, pc, gone>> BY <2>9 DEF Up
    <3> QED BY <2>0, <3>4, <3>5 DEF Waiting
  <2>10. ASSUME Down PROVE UNCHANGED <<Waiting, merit>>
    <3>1. PICK p \in Used : p = pos BY <2>10 DEF Down, Room
    <3>2. LargeChild(p) \in Used
      <4>1. p \in Nat /\ LeftChild(p) < unusedPos
        BY <2>10, <3>1, UsedFacts DEF Down, Sinks
      <4>2. /\ LeftChild(p) \in Nat /\ RightChild(p) \in Nat /\ unusedPos \in Nat
        BY <4>1, ChildFacts DEF Types
      <4>3. \A i : i \in Used <=> i \in Nat /\ i < unusedPos BY DEF Used, Types
      <4>4. LargeChild(p) = LeftChild(p) \/
              (LargeChild(p) = RightChild(p) /\ ~(RightChild(p) >= unusedPos))
        BY DEF LargeChild
      <4> QED BY <4>1, <4>2, <4>3, <4>4
    <3>3. Held' = Held BY <2>8, <2>10, <3>1, <3>2 DEF Down
    <3>4. UNCHANGED <<merit, pc, gone>> BY <2>10 DEF Down
    <3> QED BY <2>0, <3>3, <3>4 DEF Waiting
  <2>11. ASSUME Finish, UpPhase \/ DownPhase, pc # "insertUp" \/ gone = NULL
         PROVE  UNCHANGED <<Waiting, merit>>
    <3>1. UNCHANGED <<array, unusedPos, merit>> BY <2>11 DEF Finish
    <3>2. Moving' = Moving BY <2>11 DEF Finish, UpPhase, DownPhase
    <3>3. Held' = Held BY <3>1 DEF Used
    <3> QED BY <2>0, <3>1, <3>2, <3>3 DEF Waiting
  <2>12. ASSUME UpReturns PROVE UNCHANGED <<Waiting, merit>>
    <3>1. CASE pc = "insertUp" \/ moved
      BY <2>11, <2>12, <3>1 DEF UpReturns, GoneIsOut
    <3>2. CASE ~(pc = "insertUp" \/ moved)
      <4>1. /\ UNCHANGED <<array, unusedPos, merit, gone>>
            /\ pc = "delUp" <=> pc' = "delDown"
            /\ pc \in {"popUp", "delUp"} /\ pc' \in {"popDown", "delDown"}
        BY <2>12, <3>2 DEF UpReturns, UpPhase
      <4> QED BY <4>1 DEF Waiting, Used
    <3> QED BY <3>1, <3>2
  <2>13. ASSUME DownReturns PROVE UNCHANGED <<Waiting, merit>>
    BY <2>11, <2>13 DEF DownReturns, DownPhase
  <2>14. CASE UNCHANGED vars BY <2>14 DEF vars, Waiting, Used, A!agendaVars
  <2> HIDE DEF IInv
  <2> QED
    BY <2>2, <2>3, <2>4, <2>6, <2>7, <2>9, <2>10, <2>12, <2>13, <2>14
       DEF Next, A!Next, A!agendaVars
<1> QED BY <1>1, <1>2, Invariance, PTL DEF Spec, IsAgenda, A!Spec
=============================================================================

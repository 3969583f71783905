------------------------------ MODULE EdgeHeap ------------------------------
(***************************************************************************)
(* The keylist of the Charniak parser (PARSE/EdgeHeap.C): a binary heap in *)
(* a fixed array, whose entries know their own position so that redoP      *)
(* (PARSE/Bchart.C) can take an edge out, change its merit and put it      *)
(* back.  Every level that upheap and downHeap visit is a step here.       *)
(*                                                                         *)
(* heapPos is a position and a flag at once: -1 says that the edge does    *)
(* not wait.  pop resets it and del does not, which is how redoP knows     *)
(* that the edge it has just deleted has to be inserted again.             *)
(***************************************************************************)
EXTENDS Integers

CONSTANTS Edges,      \* the edges the chart makes
          HeapSize,   \* length of the array
          Merits,     \* figures of merit: only their order counts
          NULL

ASSUME HeapAssumption == /\ HeapSize \in Nat \ {0, 1}
                         /\ Merits \subseteq Int
                         /\ Merits # {}
                         /\ NULL \notin Edges

VARIABLES array,      \* array[HeapSize]
          unusedPos,  \* the first free position
          heapPos,    \* Edge::heapPos_
          merit,      \* Edge::merit_
          pc,         \* what the heap is doing
          pos,        \* the argument of upheap or downHeap
          moved,      \* the outermost upheap has swapped: it will return true
          gone        \* the edge pop or redoP has taken out and not finished with

vars == <<array, unusedPos, heapPos, merit, pc, pos, moved, gone>>

Indices == 0 .. HeapSize - 1

(* Where control is.  The operation under way is told by the phase: a sift
   after insert, after pop or after the del of redoP. *)
Phases == {"idle", "insertUp", "popUp", "popDown", "delUp", "delDown",
           "reinsert", "aborted"}

Types == /\ array \in [Indices -> Edges \cup {NULL}]
         /\ unusedPos \in 0 .. HeapSize
         /\ heapPos \in [Edges -> Indices \cup {-1}]
         /\ merit \in [Edges -> Merits]
         /\ pc \in Phases
         /\ pos \in Indices
         /\ moved \in BOOLEAN
         /\ gone \in Edges \cup {NULL}

(* The types, and insert's assertion: unless it has stopped the process, one
   position is left. *)
TypeOK == Types /\ (pc # "aborted" => unusedPos < HeapSize)

LeftChild(p)  == 2 * p + 1
RightChild(p) == 2 * p + 2
Parent(p)     == (p - 1) \div 2

Init ==
    /\ array = [i \in Indices |-> NULL]
    /\ unusedPos = 0
    /\ heapPos = [e \in Edges |-> -1]
    /\ merit \in [Edges -> Merits]
    /\ pc = "idle" /\ pos = 0 /\ moved = FALSE /\ gone = NULL

-----------------------------------------------------------------------------
(* insert: the edge goes to the first free position, then up.  (The code
   counts it after upheap returns; upheap does not look at the count.)  The
   second assertion leaves the last position of the array unused: one edge
   too many stops the process. *)
Put(e, m) ==
    /\ array' = [array EXCEPT ![unusedPos] = e]
    /\ heapPos' = [heapPos EXCEPT ![e] = unusedPos]
    /\ merit' = [merit EXCEPT ![e] = m]
    /\ pos' = unusedPos
    /\ unusedPos' = unusedPos + 1
    /\ moved' = FALSE
    /\ gone' = NULL
    /\ pc' = IF unusedPos + 1 < HeapSize THEN "insertUp" ELSE "aborted"

(* A new edge, or one the parser popped and puts back with more demerits. *)
Insert(e, m) == pc = "idle" /\ heapPos[e] = -1 /\ Put(e, m)

(* del_(p) up to its call of upheap: the last edge takes the free place.
   When p is the last position there is nothing to sift. *)
TakeOut(p, phase, finished) ==
    LET last == unusedPos - 1
    IN  /\ unusedPos' = last
        /\ moved' = FALSE
        /\ IF p = last
           THEN /\ array' = [array EXCEPT ![p] = NULL]
                /\ pc' = finished
                /\ pos' = 0
           ELSE /\ array' = [array EXCEPT ![p] = array[last], ![last] = NULL]
                /\ pos' = p
                /\ pc' = phase

(* pop: only an edge that leaves this way gets heapPos -1. *)
Pop ==
    /\ pc = "idle" /\ unusedPos > 0
    /\ TakeOut(0, "popUp", "idle")
    /\ gone' = IF unusedPos = 1 THEN NULL ELSE array[0]
    /\ heapPos' = IF unusedPos = 1 THEN [heapPos EXCEPT ![array[0]] = -1]
                  ELSE [heapPos EXCEPT ![array[unusedPos - 1]] = 0]
    /\ UNCHANGED merit

(* redoP on an edge: out, new merit, back in -- or only the new merit, when
   the edge has been popped. *)
Redo(e) ==
    /\ pc = "idle" /\ heapPos[e] >= 0
    /\ TakeOut(heapPos[e], "delUp", "reinsert")
    /\ heapPos' = IF heapPos[e] = unusedPos - 1 THEN heapPos
                  ELSE [heapPos EXCEPT ![array[unusedPos - 1]] = heapPos[e]]
    /\ gone' = e
    /\ UNCHANGED merit

Reinsert(m) == pc = "reinsert" /\ heapPos[gone] >= 0 /\ Put(gone, m)

RedoPopped(e, m) ==
    /\ pc = "idle" /\ heapPos[e] = -1
    /\ merit' = [merit EXCEPT ![e] = m]
    /\ UNCHANGED <<array, unusedPos, heapPos, pc, pos, moved, gone>>

-----------------------------------------------------------------------------
\* Mutation: only the edge that rises notes its new position.
SwapOneNote(p, q) ==
    /\ array' = [array EXCEPT ![p] = array[q], ![q] = array[p]]
    /\ heapPos' = [heapPos EXCEPT ![array[q]] = p]

Swap(p, q) ==
    /\ array' = [array EXCEPT ![p] = array[q], ![q] = array[p]]
    /\ heapPos' = [heapPos EXCEPT ![array[q]] = p, ![array[p]] = q]

MeritAt(p) == merit[array[p]]

\* Mutation: pop does not reset heapPos.
FinishUnmarked ==
    /\ pc' = IF pc \in {"delUp", "delDown"} THEN "reinsert" ELSE "idle"
    /\ gone' = IF pc \in {"popUp", "popDown"} THEN NULL ELSE gone
    /\ pos' = 0 /\ moved' = FALSE
    /\ UNCHANGED <<array, unusedPos, heapPos, merit>>

(* The sift is over: insert returns, pop marks the edge it returns, redoP
   goes on to insert. *)
Finish ==
    /\ pc' = IF pc \in {"delUp", "delDown"} THEN "reinsert" ELSE "idle"
    /\ IF pc \in {"popUp", "popDown"}
       THEN heapPos' = [heapPos EXCEPT ![gone] = -1] /\ gone' = NULL
       ELSE UNCHANGED <<heapPos, gone>>
    /\ pos' = 0 /\ moved' = FALSE
    /\ UNCHANGED <<array, unusedPos, merit>>

\* Mutation: del_ only calls downHeap.
RisesOnInsert ==
    pc = "insertUp" /\ pos > 0 /\ MeritAt(pos) > MeritAt(Parent(pos))

Rises == pos > 0 /\ MeritAt(pos) > MeritAt(Parent(pos))

UpPhase == pc \in {"insertUp", "popUp", "delUp"}
DownPhase == pc \in {"popDown", "delDown"}

Up == /\ UpPhase /\ Rises
      /\ Swap(Parent(pos), pos)
      /\ pos' = Parent(pos)
      /\ moved' = TRUE
      /\ UNCHANGED <<unusedPos, merit, pc, gone>>

(* del_: if(upheap(pos)) return; downHeap(pos); *)
UpReturns ==
    /\ UpPhase /\ ~Rises
    /\ IF pc = "insertUp" \/ moved
       THEN Finish
       ELSE /\ pc' = IF pc = "popUp" THEN "popDown" ELSE "delDown"
            /\ UNCHANGED <<array, unusedPos, heapPos, merit, pos, moved, gone>>

\* Mutation: the children are not compared with each other.
LeftChildFirst(p) == LeftChild(p)

(* The child an edge would change places with; equal ones: the right one. *)
LargeChild(p) ==
    IF \/ RightChild(p) >= unusedPos
       \/ MeritAt(LeftChild(p)) > MeritAt(RightChild(p))
    THEN LeftChild(p)
    ELSE RightChild(p)

Sinks == LeftChild(pos) < unusedPos /\ MeritAt(pos) < MeritAt(LargeChild(pos))

Down == /\ DownPhase /\ Sinks
        /\ Swap(pos, LargeChild(pos))
        /\ pos' = LargeChild(pos)
        /\ UNCHANGED <<unusedPos, merit, pc, moved, gone>>

DownReturns == DownPhase /\ ~Sinks /\ Finish

Next ==
    \/ Pop \/ Up \/ UpReturns \/ Down \/ DownReturns
    \/ \E m \in Merits : Reinsert(m)
    \/ \E e \in Edges : Redo(e)
    \/ \E e \in Edges, m \in Merits : Insert(e, m) \/ RedoPopped(e, m)

Spec == Init /\ [][Next]_vars

-----------------------------------------------------------------------------
Used == 0 .. unusedPos - 1

(* The array up to the first free position holds edges without a gap, each at
   the position it has noted: what the assertions on heapPos in upheap,
   downHeap and del take for granted.  It holds between any two steps. *)
Positions ==
    \A i \in Indices : IF i \in Used
                       THEN array[i] \in Edges /\ heapPos[array[i]] = i
                       ELSE array[i] = NULL

(* An edge says that it waits exactly if it does, whenever the parser can
   look: between two operations. *)
FlagIsTrue ==
    pc = "idle" => \A e \in Edges : heapPos[e] >= 0 => /\ heapPos[e] < unusedPos
                                                       /\ array[heapPos[e]] = e

OrderedAt(i) == i > 0 => MeritAt(Parent(i)) >= MeritAt(i)

(* Between two operations no edge is better than the one above it: also after
   redoP took an edge from the middle and the last edge of another branch,
   perhaps a better one than those above the hole, took its place. *)
HeapOrdered == pc = "idle" => \A i \in Used : OrderedAt(i)

(* The heap is an agenda: an edge that redoP is moving has not left it, and
   what pop returns is as good as anything that waits. *)
Waiting == {array[i] : i \in Used} \cup (IF pc \in {"delUp", "delDown", "reinsert"}
                                          THEN {gone} ELSE {})

A == INSTANCE Agenda WITH agenda <- Waiting, worth <- merit

IsAgenda == A!Spec
=============================================================================

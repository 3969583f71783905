------------------------------- MODULE Agenda -------------------------------
(***************************************************************************)
(* What the best-first parser of the Charniak annotator asks of its        *)
(* keylist (EdgeHeap.h): a set of edges, each with a figure of merit, from *)
(* which an edge of greatest merit is taken; the merit of an edge can      *)
(* change while it waits.                                                  *)
(***************************************************************************)
EXTENDS Integers

CONSTANTS Edges, Merits

VARIABLES agenda,   \* the edges that wait
          worth     \* the merit of every edge

agendaVars == <<agenda, worth>>

Init == agenda = {} /\ worth \in [Edges -> Merits]

Insert(e, m) == /\ e \notin agenda
                /\ agenda' = agenda \cup {e}
                /\ worth' = [worth EXCEPT ![e] = m]

Best(e) == e \in agenda /\ \A f \in agenda : worth[f] <= worth[e]

Pop(e) == /\ Best(e)
          /\ agenda' = agenda \ {e}
          /\ UNCHANGED worth

(* A waiting edge keeps its place in the set; one that was popped stays out. *)
Revalue(e, m) == worth' = [worth EXCEPT ![e] = m] /\ UNCHANGED agenda

Next == \E e \in Edges : \/ Pop(e)
                         \/ \E m \in Merits : Insert(e, m) \/ Revalue(e, m)

Spec == Init /\ [][Next]_agendaVars
=============================================================================

--------------------------- MODULE ClientLending ---------------------------
(***************************************************************************)
(* What Pool.java promises to the threads that share the clients of one    *)
(* annotation service: getClient lends a client to one borrower at a time, *)
(* releaseClient takes it back, and the TTransportException of getClient   *)
(* means that every client of the pool was found offline in one search.    *)
(* ClientPool.tla is shown to implement this specification.                *)
(***************************************************************************)
CONSTANTS Borrower, Client

VARIABLES
  stage,     \* "out", "searching", "trying" a client or "using" it
  lent,      \* the client a borrower tries or uses, else NoClient
  refused    \* the clients its current search has found offline

vars == <<stage, lent, refused>>

NoClient == 0

Free(c) == \A b \in Borrower : lent[b] # c

Init ==
  /\ stage = [b \in Borrower |-> "out"]
  /\ lent = [b \in Borrower |-> NoClient]
  /\ refused = [b \in Borrower |-> {}]

\* b asks for a client, or begins its search afresh.
Search(b) ==
  /\ stage[b] \in {"out", "searching"}
  /\ stage' = [stage EXCEPT ![b] = "searching"]
  /\ refused' = [refused EXCEPT ![b] = {}]
  /\ UNCHANGED lent

\* The pool reserves a free client for b, to try its connection ("trying") or
\* to hand it over at once ("using").
Reserve(b, c, as) ==
  /\ stage[b] = "searching"
  /\ Free(c)
  /\ stage' = [stage EXCEPT ![b] = as]
  /\ lent' = [lent EXCEPT ![b] = c]
  /\ UNCHANGED refused

\* The client b tries is online: b has it.
Lend(b) ==
  /\ stage[b] = "trying"
  /\ stage' = [stage EXCEPT ![b] = "using"]
  /\ UNCHANGED <<lent, refused>>

\* The client b tries is offline: it is free again and the search goes on.
Refuse(b) ==
  /\ stage[b] = "trying"
  /\ stage' = [stage EXCEPT ![b] = "searching"]
  /\ lent' = [lent EXCEPT ![b] = NoClient]
  /\ refused' = [refused EXCEPT ![b] = @ \cup {lent[b]}]

\* The client b tries was the last one that was not known to be offline.
GiveUp(b) ==
  /\ stage[b] = "trying"
  /\ refused[b] \cup {lent[b]} = Client
  /\ stage' = [stage EXCEPT ![b] = "out"]
  /\ lent' = [lent EXCEPT ![b] = NoClient]
  /\ refused' = [refused EXCEPT ![b] = Client]

\* b returns its client, which is free from then on.
Return(b) ==
  /\ stage[b] = "using"
  /\ stage' = [stage EXCEPT ![b] = "out"]
  /\ lent' = [lent EXCEPT ![b] = NoClient]
  /\ UNCHANGED refused

Next ==
  \E b \in Borrower :
    \/ Search(b)
    \/ \E c \in Client, as \in {"trying", "using"} : Reserve(b, c, as)
    \/ Lend(b)
    \/ Refuse(b)
    \/ GiveUp(b)
    \/ Return(b)

Spec == Init /\ [][Next]_vars
=============================================================================

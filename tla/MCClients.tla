------------------------------ MODULE MCClients ------------------------------
(***************************************************************************)
(* How the Curator gets at its annotators, in one run: the pool that lends *)
(* the connections of a service to the threads of the server, and the      *)
(* session in which a legacy annotator is asked.  A legacy annotator makes *)
(* its own client, outside the pool, so they share no variable: in a       *)
(* behaviour either the pool moves and the call rests where it began, or   *)
(* the other way round.                                                    *)
(***************************************************************************)
EXTENDS ClientPool, LegacySession

VARIABLE moving  \* the part that moves

ClientsInit ==
  /\ Init /\ CallInit
  /\ \/ moving = "pool"
     \/ moving = "call" /\ up = [s \in Host |-> TRUE]

ClientsNext ==
  /\ UNCHANGED moving
  /\ \/ moving = "pool" /\ Next /\ UNCHANGED callVars
     \/ moving = "call" /\ CallNext /\ UNCHANGED vars

ClientsVars == <<vars, callVars, moving>>

PoolMoves == moving = "pool" /\ UNCHANGED <<callVars, moving>>
CallMoves == moving = "call" /\ UNCHANGED <<vars, moving>>

\* The fairness of ClientPool!FairSpec and of CallFairSpec, each while its part moves.
ClientsSpec ==
  /\ ClientsInit /\ [][ClientsNext]_ClientsVars
  /\ \A t \in Thread : WF_ClientsVars(ThreadStep(t) /\ PoolMoves)
  /\ WF_ClientsVars(Client /\ CallMoves)
=============================================================================

-------------------------- MODULE MCCharniakParser --------------------------
(***************************************************************************)
(* The Charniak parser's server and what goes on inside one parse of it,   *)
(* in one run.  To CharniakServer a parse is its sentence and to           *)
(* BestFirstChart there is only one sentence, so they share no variable:   *)
(* in a behaviour either the server moves and the chart rests where it     *)
(* began, or the other way round.                                          *)
(*                                                                         *)
(* The chart's sentence is V N N/M.  The grammar grows edges on both sides *)
(* of a head, twice on one side, builds one constituent in two ways,       *)
(* leaves an edge that no item completes, and has a unit rule that is      *)
(* ruled out.                                                              *)
(***************************************************************************)
EXTENDS CharniakServer, BestFirstChart

Rule(lhs, left, head, right) == [lhs |-> lhs, left |-> left, head |-> head, right |-> right]

SmallRules == {Rule("S1", << >>, "VP", << >>),
               Rule("VP", << >>, "V", <<"N", "NP">>),
               Rule("NP", <<"N">>, "N", << >>),
               Rule("NP", << >>, "N", << >>),
               Rule("NP", << >>, "M", << >>),
               Rule("NP", << >>, "NP", << >>)}

NoRepeat == {<<"NP", "NP">>}

ThreeWords == <<{"V"}, {"N"}, {"N","M"}>>

VARIABLE moving  \* the part that moves

ParserInit ==
  /\ Init /\ ChartInit
  /\ \/ moving = "server" /\ timeout = CHOOSE t \in RuleiTimeouts : TRUE
     \/ moving = "chart"

ParserNext ==
  /\ UNCHANGED moving
  /\ \/ moving = "server" /\ Next /\ UNCHANGED chartVars
     \/ moving = "chart" /\ ChartNext /\ UNCHANGED vars
     \/ moving = "chart" /\ Done /\ UNCHANGED <<vars, chartVars>>

ParserVars == <<vars, chartVars, moving>>

ServerMoves == moving = "server" /\ UNCHANGED <<chartVars, moving>>

\* The server's fairness (CharniakServer!FairSpec), while it is the server that moves.
ServerFairness ==
  /\ WF_ParserVars(MainStep /\ ServerMoves)
  /\ \A t \in Thread :
       /\ WF_ParserVars(ThreadStep(t) /\ ServerMoves)
       /\ SF_ParserVars(LockRead(t) /\ ServerMoves)
       /\ SF_ParserVars(LockWrite(t) /\ ServerMoves)

ParserSpec == ParserInit /\ [][ParserNext]_ParserVars /\ ServerFairness
=============================================================================

--------------------------- MODULE MCServerMonitor ---------------------------
(***************************************************************************)
(* Model checking of ServerMonitor: the groups of components of the runs.  *)
(***************************************************************************)
EXTENDS ServerMonitor, TLC

\* A group of two components and one of a single one, as the <demo>s of
\* curatorResources.xml (which gives each component a kill_cmd; the runs also cover
\* files that do not).
TwoGroups == <<<<"ner", "pos">>, <<"mongoDB">>>>

Sessions == Permutations(Session)
=============================================================================

-------------------------- MODULE MCCuratorHandler --------------------------
(***************************************************************************)
(* Model checking of CuratorHandler: the configurations of annotators and  *)
(* the histories of releases the runs use.                                 *)
(***************************************************************************)
EXTENDS CuratorHandler, TLC

\* A part of configs/annotators-example.xml.
TwoViews == {"tokens", "pos"}
TwoRequires == "tokens" :> << >> @@ "pos" :> <<"tokens">>
TwoFields == [v \in TwoViews |-> <<v>>]
TwoMaps == [v \in TwoViews |-> 1]

\* A multi-annotator for two fields, and a parser that requires both.
PairViews == {"sentences", "tokens", "charniak"}
PairRequires ==
  "sentences" :> << >> @@ "tokens" :> << >> @@ "charniak" :> <<"sentences", "tokens">>
PairFields ==
  "sentences" :> <<"sentences", "tokens">> @@ "tokens" :> <<"sentences", "tokens">> @@
  "charniak" :> <<"charniak">>
PairMaps == "sentences" :> 1 @@ "tokens" :> 1 @@ "charniak" :> 3

\* Two annotators that do not require one another, and one that requires both; what
\* they all require is left out.
SrlViews == {"ner", "charniak", "srl"}
SrlRequires == "ner" :> << >> @@ "charniak" :> << >> @@ "srl" :> <<"ner", "charniak">>
SrlFields == [v \in SrlViews |-> <<v>>]
SrlMaps == "ner" :> 1 @@ "charniak" :> 3 @@ "srl" :> 3

OneRelease == <<[name |-> "a", version |-> 1]>>
TwoReleases == OneRelease \o <<[name |-> "a", version |-> 2]>>
NewName == TwoReleases \o <<[name |-> "b", version |-> 1]>>

\* Threads are alike.
Threads == Permutations(Thread)

\* In the histories above a later release is always found out to be newer.
ASSUME MCReleases == ReleasesTell

\* The configurations above are as annotators-example.xml is.
ASSUME MCLists == ListsAreClosed /\ TokensFirst
=============================================================================

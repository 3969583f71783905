----------------------------- MODULE Annotators -----------------------------
(***************************************************************************)
(* A record that any one of the handlers is asked for: a tagger's or a     *)
(* parser's.  What the taggers' handlers do is TaggersNext, which leaves   *)
(* the parsers' variables alone, and the other way around.                 *)
(***************************************************************************)
EXTENDS Taggers, ParserHandlers

tagging == <<lists, taken, types, chunk>>
vars == <<record, tagging, parsing>>

Init == TaggersInit /\ ParsersInit

Next ==
  \/ TaggersNext /\ UNCHANGED parsing
  \/ ParsersNext /\ UNCHANGED tagging

Spec == Init /\ [][Next]_vars
=============================================================================

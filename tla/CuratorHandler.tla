--------------------------- MODULE CuratorHandler ---------------------------
(***************************************************************************)
(* curator/CuratorHandler.java: what a Curator that is not a slave does    *)
(* with the requests for one text.  provide() reads the text's record from *)
(* the archive, drops what is out of date, provides every requirement of   *)
(* the view by calling itself, has the annotator of the view add its       *)
(* fields and stores the whole record again.  The threads of CuratorServer *)
(* run this side by side, while the version updater changes what counts as *)
(* out of date and the archive's maintenance removes records.              *)
(*                                                                         *)
(* A text may also be given as a list of sentences of tokens (wsprovide,   *)
(* wsgetRecord): it is another text for the archive, with a record whose   *)
(* sentences and tokens the Whitespacer makes in the Curator itself.       *)
(*                                                                         *)
(* A thread's Java stack of provide() calls is the sequence stack[t]; the  *)
(* variable `record` of the innermost call is record[t] (every call below  *)
(* it will assign its own from the result).  ClientPool is the component   *)
(* that lends the annotator's client; here it lends one or throws.         *)
(***************************************************************************)
EXTENDS Naturals, Sequences, Functions

CONSTANTS
  Thread,      \* server threads
  View,        \* names of annotations
  Requires,    \* requirements: for each view the list the configuration gives
  Fields,      \* multiFields: for each view the list of fields of its annotator
  MapOf,       \* the record's map a view is in: 1 label, 2 cluster, 3 parse, 4 view
  Offered,     \* views that have an annotator (keys of pools)
  Releases,    \* the source identifiers, [name, version], annotators go through
  Replies,     \* what annotators do: "all" fields, "first" field, "failed",
               \* "unavailable", "exception"
  Forcing,     \* values of forceUpdate in requests
  Kinds,       \* may the text be whitespaced?  a subset of BOOLEAN
  ArchiveFails, Expires, Restarts,      \* what else may happen
  Watched,     \* bound: the views whose annotator is asked for its version or upgraded
  Upgrades     \* when annotators are upgraded: "never", "quiet" or "anytime"

Release == 1 .. Len(Releases)
Unknown == 0

RequiredBy(v) == Range(Requires[v])

ASSUME HandlerAssumption ==
  /\ Requires \in [View -> Seq(View)]
  /\ Fields \in [View -> Seq(View)]
  /\ \A v \in View : v \in Range(Fields[v])
  \* The constructor puts the same two lists for every field of an annotator.
  /\ \A v \in View : \A u \in Range(Fields[v]) :
       Range(Fields[u]) = Range(Fields[v]) /\ Requires[u] = Requires[v]
  /\ MapOf \in [View -> 1 .. 4]
  /\ Offered \subseteq View
  /\ Watched \subseteq Offered
  /\ Releases \in Seq([name : STRING, version : Nat]) /\ Releases # << >>
  /\ Replies \subseteq {"all", "first", "failed", "unavailable", "exception"}
  /\ Forcing \subseteq BOOLEAN
  /\ Kinds \subseteq BOOLEAN

VARIABLES
  whitespaced,   \* is the text given as sentences?  It stays what it is.
  archive,       \* the stored record of the text, empty if there is none
  server,        \* the release of the annotator of each view
  clientSource,  \* clientSourceIdentifiers: release the Curator knows of, or Unknown
  updater,       \* the version updater: <<view, ident>> it is about to put, or Resting
  pc, stack, record, outcome,
  known          \* history: clientSource when the thread's request came in

vars == <<whitespaced, archive, server, clientSource, updater, pc, stack, record, outcome, known>>

(***************************************************************************)
(* A record is a function on the views it contains.  A view's value is the *)
(* release that made it (its source) and, for each view its annotator      *)
(* requires, the release of that view it was made from, or Missing.        *)
(***************************************************************************)
Missing == 0

\* Whitespacer.getSourceIdentifier(), none of the annotators' releases.
Whitespacer == Len(Releases) + 1

Source == Release \cup {Whitespacer}

Annotation(v) == [by : Source, from : [RequiredBy(v) -> Source \cup {Missing}]]

EmptyRecord == [v \in {} |-> Missing]
Resting == << >>

(***************************************************************************)
(* updateRequired: a view is missing, or its source is not the known one   *)
(* and has another name, no version number, or a smaller one.  A version   *)
(* that cannot be parsed is 0; the Whitespacer has a name of its own.      *)
(***************************************************************************)
Outdated(a, c) ==
  IF a = Whitespacer THEN TRUE ELSE
  LET old == Releases[a]
      new == Releases[c]
  IN old # new /\ (old.name # new.name \/ old.version = 0 \/ new.version > old.version)

\* Views the Whitespacer makes, if the text is whitespaced.
OfWhitespacer == IF whitespaced THEN {"sentences", "tokens"} \cap View ELSE {}

\* Of a whitespaced text, sentences and tokens are only compared with the Whitespacer.
OutOfDate(v, annotation) ==
  IF v \in OfWhitespacer THEN annotation.by # Whitespacer
  ELSE clientSource[v] # Unknown /\ Outdated(annotation.by, clientSource[v])

\* Mutation: no annotation, no update.
UpdateRequiredIfThere(v, rec) == v \in DOMAIN rec /\ OutOfDate(v, rec[v])

UpdateRequired(v, rec) == v \in DOMAIN rec => OutOfDate(v, rec[v])

\* Mutation: the cascade is left out.
RemoveStaleNoCascade(rec, m) ==
  LET removals == {v \in DOMAIN rec : MapOf[v] = m /\ UpdateRequired(v, rec)}
  IN Restrict(rec, DOMAIN rec \ removals)

\* removeStaleFields(record, views) for the m-th map of the record: its stale
\* views go first, then whatever requires one of them, in any map.
RemoveStaleIn(rec, m) ==
  LET removed(v) == MapOf[v] = m /\ v \in DOMAIN rec /\ UpdateRequired(v, rec)
  IN Restrict(rec, {v \in DOMAIN rec : ~removed(v) /\ \A r \in RequiredBy(v) : ~removed(r)})

\* Mutation: removeStaleFields as it is for a MultiRecord, "TODO: Implement!".
RemoveStaleTodo(rec) == rec

RemoveStale(rec) ==
  RemoveStaleIn(RemoveStaleIn(RemoveStaleIn(RemoveStaleIn(rec, 1), 2), 3), 4)

-----------------------------------------------------------------------------
Init ==
  /\ whitespaced \in Kinds
  /\ archive = EmptyRecord
  /\ server = [v \in View |-> 1]
  /\ clientSource = [v \in View |-> Unknown]
  /\ updater = Resting
  /\ pc = [t \in Thread |-> "idle"]
  /\ stack = [t \in Thread |-> << >>]
  /\ record = [t \in Thread |-> EmptyRecord]
  /\ outcome = [t \in Thread |-> "none"]
  /\ known = [t \in Thread |-> clientSource]

Goto(t, l) == pc' = [pc EXCEPT ![t] = l]

\* The stack's top is its head.
Top(t) == Head(stack[t])
Push(f, s) == <<f>> \o s

Begin(t, frames, place) ==
  /\ pc[t] = "idle"
  /\ Goto(t, place)
  /\ stack' = [stack EXCEPT ![t] = frames]
  /\ known' = [known EXCEPT ![t] = clientSource]
  /\ UNCHANGED <<archive, server, clientSource, updater, record, outcome>>

Frame(v, force) == [view |-> v, force |-> force, next |-> 1]

\* provide(view_name, text, forceUpdate), or wsprovide, is called.
Provide(t, v, force) == Begin(t, <<Frame(v, force)>>, "get")

\* getRecord(text), or wsgetRecord, is called.
GetRecord(t) == Begin(t, << >>, "get")

\* getRecordById(identifier) is called.
GetRecordById(t) == Begin(t, << >>, "get by id")

\* archive.get: what is stored, or a new record if there is none or if the
\* archive throws an ArchiveException.
AskArchive(t) ==
  /\ pc[t] = "get"
  /\ \/ record' = [record EXCEPT ![t] = archive]
     \/ ArchiveFails /\ record' = [record EXCEPT ![t] = EmptyRecord]
  /\ Goto(t, "clean")
  /\ UNCHANGED <<archive, server, clientSource, updater, stack, outcome, known>>

\* The request is answered with an outcome.
Answer(t, o) ==
  /\ Goto(t, "done")
  /\ outcome' = [outcome EXCEPT ![t] = o]

\* An exception leaves every provide() on the stack, and no record is answered.
Throw(t, o) ==
  /\ Answer(t, o)
  /\ stack' = [stack EXCEPT ![t] = << >>]
  /\ record' = [record EXCEPT ![t] = EmptyRecord]

\* archive.getById: without a record there is nothing to answer.  (A record may have
\* been stored with no view in it, if the first annotator of all threw.)
AskArchiveById(t) ==
  /\ pc[t] = "get by id"
  /\ \/ /\ archive # EmptyRecord \/ "exception" \in Replies
        /\ record' = [record EXCEPT ![t] = archive]
        /\ Goto(t, "clean by id") /\ UNCHANGED <<stack, outcome>>
     \/ /\ archive = EmptyRecord \/ ArchiveFails
        /\ Throw(t, "failed")
  /\ UNCHANGED <<archive, server, clientSource, updater, known>>

\* A call of provide() returns its record to the one that made it.
Return(t) ==
  IF Len(stack[t]) = 1
  THEN Answer(t, "record") /\ UNCHANGED stack
  ELSE Goto(t, "require") /\ stack' = [stack EXCEPT ![t] = Tail(@)] /\ UNCHANGED outcome

\* The Whitespacer's annotations replace what a record has of these views.
Whitespace(rec, views) ==
  [v \in DOMAIN rec \cup views |->
     IF v \in views THEN [by |-> Whitespacer, from |-> [r \in RequiredBy(v) |-> Missing]]
     ELSE rec[v]]

\* wsgetRecord adds sentences and tokens that are not there.  (That it also replaces
\* sentences of another source has no effect: removeStaleFields has removed them.)
Complete(rec) == Whitespace(rec, OfWhitespacer \ DOMAIN rec)

\* removeStaleFields ends getRecord.
Clean(t) ==
  /\ pc[t] = "clean"
  /\ record' = [record EXCEPT ![t] = Complete(RemoveStale(@))]
  /\ IF stack[t] = << >>
     THEN Answer(t, "record")
     ELSE Goto(t, "require") /\ UNCHANGED outcome
  /\ UNCHANGED <<archive, server, clientSource, updater, stack, known>>

\* ... and getRecordById.
CleanById(t) ==
  /\ pc[t] = "clean by id"
  /\ record' = [record EXCEPT ![t] = RemoveStale(@)]
  /\ Answer(t, "record")
  /\ UNCHANGED <<archive, server, clientSource, updater, stack, known>>

MoreRequirements(t) == Top(t).next <= Len(Requires[Top(t).view])

\* Mutation: back from a requirement, the loop starts at the first one again.
RequireFromTheFirst(t) ==
  /\ pc[t] = "require" /\ MoreRequirements(t)
  /\ LET top == Top(t)
         r == Requires[top.view][top.next]
         force == top.force \/ r \notin DOMAIN record[t]
         here == [top EXCEPT !.next = IF force THEN 1 ELSE @ + 1, !.force = force]
     IN IF force
        THEN /\ stack' = [stack EXCEPT ![t] = Push(Frame(r, force), Push(here, Tail(@)))]
             /\ Goto(t, "get")
        ELSE stack' = [stack EXCEPT ![t] = Push(here, Tail(@))] /\ UNCHANGED pc
  /\ UNCHANGED <<archive, server, clientSource, updater, record, outcome, known>>

\* Mutation: only forceUpdate decides whether a requirement is provided.
RequireOnlyForced(t) ==
  /\ pc[t] = "require" /\ MoreRequirements(t)
  /\ LET top == Top(t)
         r == Requires[top.view][top.next]
         here == [top EXCEPT !.next = @ + 1]
     IN IF top.force
        THEN /\ stack' = [stack EXCEPT ![t] = Push(Frame(r, TRUE), Push(here, Tail(@)))]
             /\ Goto(t, "get")
        ELSE stack' = [stack EXCEPT ![t] = Push(here, Tail(@))] /\ UNCHANGED pc
  /\ UNCHANGED <<archive, server, clientSource, updater, record, outcome, known>>

\* The loop over the requirements: from the first one that is missing on, each
\* one is provided, with forceUpdate set.
Require(t) ==
  /\ pc[t] = "require" /\ MoreRequirements(t)
  /\ LET top == Top(t)
         r == Requires[top.view][top.next]
         force == top.force \/ r \notin DOMAIN record[t]
         here == [view |-> top.view, force |-> force, next |-> top.next + 1]
     IN IF force
        THEN /\ stack' = [stack EXCEPT ![t] = Push(Frame(r, force), Push(here, Tail(@)))]
             /\ Goto(t, "get")
        ELSE stack' = [stack EXCEPT ![t] = Push(here, Tail(@))] /\ UNCHANGED pc
  /\ UNCHANGED <<archive, server, clientSource, updater, record, outcome, known>>

\* Past the loop: is the view itself forced, missing or out of date?  The Whitespacer
\* makes its two views on the spot, and the record is not stored.
Decide(t) ==
  /\ pc[t] = "require" /\ ~MoreRequirements(t)
  /\ LET v == Top(t).view
         update == Top(t).force \/ UpdateRequired(v, record[t])
     IN \/ /\ update /\ v \notin OfWhitespacer
           /\ Goto(t, "annotate") /\ UNCHANGED <<stack, record, outcome>>
        \/ /\ update /\ v \in OfWhitespacer
           /\ record' = [record EXCEPT ![t] = Whitespace(@, OfWhitespacer)]
           /\ Return(t)
        \/ ~update /\ UNCHANGED record /\ Return(t)
  /\ UNCHANGED <<archive, server, clientSource, updater, known>>

\* What the annotator of v makes of a record.
Made(v, rec) ==
  [by |-> server[v],
   from |-> [r \in RequiredBy(v) |-> IF r \in DOMAIN rec THEN rec[r].by ELSE Missing]]

\* Mutation: the annotator's result replaces the record.
WithNothingElse(rec, fs) == [v \in fs |-> Made(v, rec)]

With(rec, fs) ==
  [v \in DOMAIN rec \cup fs |-> IF v \in fs THEN Made(v, rec) ELSE rec[v]]

\* performAnnotation up to the release of the client.  A multi-annotator may
\* return fewer labelings than it has fields, and an exception that is neither
\* of the declared ones is logged, with the client released, and nothing more.
Annotate(t) ==
  /\ pc[t] = "annotate"
  /\ LET v == Top(t).view IN
     IF v \notin Offered
     THEN Throw(t, "unavailable")
     ELSE \E reply \in Replies :
            CASE reply = "all" ->
                   /\ record' = [record EXCEPT ![t] = With(@, Range(Fields[v]))]
                   /\ Goto(t, "store") /\ UNCHANGED <<stack, outcome>>
              [] reply = "first" ->
                   /\ record' = [record EXCEPT ![t] = With(@, {Head(Fields[v])})]
                   /\ Goto(t, "store") /\ UNCHANGED <<stack, outcome>>
              [] reply = "exception" ->
                   Goto(t, "store") /\ UNCHANGED <<stack, record, outcome>>
              [] OTHER -> Throw(t, reply)
  /\ UNCHANGED <<archive, server, clientSource, updater, known>>

\* archive.store replaces the whole record; an ArchiveException is only logged.
Store(t) ==
  /\ pc[t] = "store"
  /\ archive' = record[t] \/ (ArchiveFails /\ UNCHANGED archive)
  /\ Return(t)
  /\ UNCHANGED <<server, clientSource, updater, record, known>>

\* An exception that is no ArchiveException (the database driver's MongoException) is
\* caught nowhere: it leaves every provide() on the stack, and the client's connection
\* is closed.  The store may have been done by then.
ArchiveThrows(t) ==
  /\ ArchiveFails
  /\ \/ pc[t] \in {"get", "get by id"} /\ UNCHANGED archive
     \/ pc[t] = "store" /\ archive' \in {archive, record[t]}
  /\ Throw(t, "closed")
  /\ UNCHANGED <<server, clientSource, updater, known>>

Reply(t) ==
  /\ pc[t] = "done"
  /\ Goto(t, "idle")
  /\ stack' = [stack EXCEPT ![t] = << >>]
  /\ record' = [record EXCEPT ![t] = EmptyRecord]
  /\ outcome' = [outcome EXCEPT ![t] = "none"]
  /\ known' = [known EXCEPT ![t] = [v \in View |-> Unknown]]
  /\ UNCHANGED <<archive, server, clientSource, updater>>

-----------------------------------------------------------------------------
\* The version updater asks the annotator of v for its source identifier ...
UpdaterAsks(v) ==
  /\ updater = Resting /\ v \in Watched
  /\ updater' = <<v, server[v]>>
  /\ UNCHANGED <<archive, server, clientSource, pc, stack, record, outcome, known>>

\* ... and then puts it, if it is a new one.
UpdaterPuts ==
  /\ updater # Resting
  /\ clientSource' = [clientSource EXCEPT ![updater[1]] = updater[2]]
  /\ updater' = Resting
  /\ UNCHANGED <<archive, server, pc, stack, record, outcome, known>>

Quiet == updater = Resting /\ \A t \in Thread : pc[t] = "idle"

\* The annotator of v is replaced by its next release.  "quiet": only between
\* requests, and the Curator knows of it before the next one.
Upgrade(v) ==
  LET fs == Range(Fields[v])
      next == server[v] + 1
  IN /\ v \in Watched /\ next \in Release
     /\ server' = [u \in View |-> IF u \in fs THEN next ELSE server[u]]
     /\ \/ Upgrades = "anytime" /\ UNCHANGED clientSource
        \/ /\ Upgrades = "quiet" /\ Quiet
           /\ clientSource' = [u \in View |-> IF u \in fs THEN next ELSE clientSource[u]]
     /\ UNCHANGED <<archive, updater, pc, stack, record, outcome, known>>

\* The archive's maintenance removes the record.
Expire ==
  /\ Expires /\ archive # EmptyRecord
  /\ archive' = EmptyRecord
  /\ UNCHANGED <<server, clientSource, updater, pc, stack, record, outcome, known>>

\* The Curator is stopped and started again: all it knew is in the archive.
Restart ==
  /\ Restarts
  /\ clientSource' = [v \in View |-> Unknown]
  /\ updater' = Resting
  /\ pc' = [t \in Thread |-> "idle"]
  /\ stack' = [t \in Thread |-> << >>]
  /\ record' = [t \in Thread |-> EmptyRecord]
  /\ outcome' = [t \in Thread |-> "none"]
  /\ known' = [t \in Thread |-> [v \in View |-> Unknown]]
  /\ UNCHANGED <<archive, server>>

ThreadStep(t) ==
  \/ AskArchive(t) \/ AskArchiveById(t) \/ Clean(t) \/ CleanById(t) \/ Require(t)
  \/ Decide(t) \/ Annotate(t) \/ Store(t) \/ ArchiveThrows(t) \/ Reply(t)

Step ==
  \/ \E t \in Thread :
       \/ \E v \in View, force \in Forcing : Provide(t, v, force)
       \/ GetRecord(t)
       \/ GetRecordById(t)
       \/ ThreadStep(t)
  \/ \E v \in View : UpdaterAsks(v) \/ Upgrade(v)
  \/ UpdaterPuts
  \/ Expire
  \/ Restart

Next == Step /\ UNCHANGED whitespaced

Spec == Init /\ [][Next]_vars

\* A request that is being served goes on: the annotator answers or the client's
\* timeout ends the call, and the pool lends a client or throws.
FairSpec == Spec /\ \A t \in Thread : WF_vars(ThreadStep(t) /\ UNCHANGED whitespaced)
-----------------------------------------------------------------------------
Location ==
  {"idle", "get", "get by id", "clean", "clean by id", "require", "annotate", "store", "done"}

FrameType == [view : View, force : BOOLEAN, next : Nat \ {0}]

TypeOK ==
  /\ whitespaced \in BOOLEAN
  /\ DOMAIN archive \subseteq View /\ \A v \in DOMAIN archive : archive[v] \in Annotation(v)
  /\ server \in [View -> Release]
  /\ clientSource \in [View -> Release \cup {Unknown}]
  /\ updater = Resting \/ updater \in View \X Release
  /\ pc \in [Thread -> Location]
  /\ stack \in [Thread -> Seq(FrameType)]
  /\ record = [t \in Thread |-> record[t]]
  /\ \A t \in Thread : DOMAIN record[t] \subseteq View
  /\ \A t \in Thread : \A v \in DOMAIN record[t] : record[t][v] \in Annotation(v)
  /\ outcome \in [Thread -> {"none", "record", "failed", "unavailable", "closed"}]
  /\ known \in [Thread -> [View -> Release \cup {Unknown}]]

\* A later release is always found out to be newer (see Outdated: a new release
\* without a version number, or with an old one, is not).
ReleasesTell == \A a, c \in Release : a < c => Outdated(a, c)

\* What the configuration has to be like for some of the properties (as that of
\* annotators-example.xml is): a list of requirements also names what these require,
\* which an annotator does not make itself; and sentences and tokens require nothing
\* and come from an annotator of their own.
ListsAreClosed ==
  \A v \in View :
    /\ \A r \in RequiredBy(v) : RequiredBy(r) \subseteq RequiredBy(v)
    /\ RequiredBy(v) \cap Range(Fields[v]) = {}

TokensFirst ==
  \A v \in View :
    IF v \in {"sentences", "tokens"} THEN RequiredBy(v) = {}
    ELSE Range(Fields[v]) \cap {"sentences", "tokens"} = {}

Given(t) == pc[t] = "done" /\ outcome[t] = "record"

\* Whatever another request stores meanwhile, and whenever the version updater
\* comes by: no view of a record that is handed out is of a release that the
\* Curator knew to be outdated when the request came in.
NothingStaleServed ==
  \A t \in Thread : Given(t) =>
    \A v \in DOMAIN record[t] : record[t][v].by >= known[t][v]

\* "Each requirement node specifies to an annotation name that must be performed
\* before the current annotator can run": the record an annotator is sent has
\* all the views it requires.
RequirementsPerformed ==
  \A t \in Thread : pc[t] = "annotate" => RequiredBy(Top(t).view) \subseteq DOMAIN record[t]

\* The request for a view, if it is answered with a record, has got that view; and the
\* sentences and tokens a text was given with are those its record has.
Asked(t) == stack[t] # << >>

ProvidesTheView ==
  \A t \in Thread : Given(t) /\ Asked(t) =>
    /\ Top(t).view \in DOMAIN record[t]
    /\ \A v \in OfWhitespacer \cap DOMAIN record[t] : record[t][v].by = Whitespacer

\* What is stored fits together: every view was made from the very releases of
\* its requirements that are stored beside it.
MadeFromWhatIsThere(rec) ==
  \A v \in DOMAIN rec : \A r \in RequiredBy(v) \cap DOMAIN rec : rec[v].from[r] = rec[r].by

ArchiveFitsTogether == MadeFromWhatIsThere(archive)

\* removeStaleFields "Removes any field that depends on the view_dependency
\* field": no view is left whose requirement went in the same call.
NothingLeftOnRemovedViews ==
  [][\A t \in Thread : pc[t] \in {"clean", "clean by id"} /\ pc'[t] # pc[t] =>
       \A v \in DOMAIN record'[t] :
          RequiredBy(v) \cap DOMAIN record[t] \subseteq DOMAIN record'[t]]_vars

\* An annotation that is up to date, and rests on nothing that is not, is not
\* lost by storing the record again.
Fresh(v) ==
  /\ ~UpdateRequired(v, archive)
  /\ \A r \in RequiredBy(v) : r \in DOMAIN archive => ~UpdateRequired(r, archive)

NoAnnotationLost ==
  [][archive' # EmptyRecord =>
       \A v \in DOMAIN archive : Fresh(v) => v \in DOMAIN archive']_vars

\* Every request is answered, with a record or an exception: the recursion over the
\* requirements ends whatever the annotators reply, whether or not the archive keeps
\* what they made, and however often the record is removed or replaced meanwhile.
EveryRequestIsAnswered ==
  \A t \in Thread : pc[t] # "idle" ~> pc[t] = "idle"
=============================================================================

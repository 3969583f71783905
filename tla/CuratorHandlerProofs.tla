------------------------ MODULE CuratorHandlerProofs ------------------------
(***************************************************************************)
(* For any number of threads, views, annotators and releases: what a       *)
(* record that is handed out may be made of.  And for one thread, whatever *)
(* the configuration that is like annotators-example.xml: that annotators  *)
(* get what they require, and that what is stored fits together.           *)
(***************************************************************************)
EXTENDS CuratorHandler, SequenceTheorems, TLAPS

(* What the record of a text is, wherever it is. *)
RecordType(rec) ==
  DOMAIN rec \subseteq View /\ \A v \in DOMAIN rec : rec[v] \in Annotation(v)

-----------------------------------------------------------------------------
(* The constants. *)

LEMMA ReleaseFacts ==
  /\ Release \subseteq Nat \ {0} /\ 1 \in Release
  /\ Whitespacer \in Nat /\ \A a \in Release : a < Whitespacer
  /\ Whitespacer \notin Release
<1>1. Len(Releases) \in Nat /\ Len(Releases) # 0
  BY HandlerAssumption, EmptySeq, LenProperties
<1> QED
  BY <1>1 DEF Release, Whitespacer

LEMMA ListFacts ==
  ASSUME NEW v \in View
  PROVE  /\ Requires[v] \in Seq(View) /\ Len(Requires[v]) \in Nat
         /\ RequiredBy(v) = {Requires[v][i] : i \in 1 .. Len(Requires[v])}
         /\ RequiredBy(v) \subseteq View
         /\ Range(Fields[v]) \subseteq View /\ v \in Range(Fields[v])
         /\ Head(Fields[v]) \in Range(Fields[v])
<1>1. Requires[v] \in Seq(View) /\ Fields[v] \in Seq(View) /\ v \in Range(Fields[v])
  BY HandlerAssumption
<1>2. /\ Len(Requires[v]) \in Nat /\ DOMAIN Requires[v] = 1 .. Len(Requires[v])
      /\ Requires[v] \in [1 .. Len(Requires[v]) -> View]
  BY <1>1, LenProperties
<1>3. /\ Len(Fields[v]) \in Nat /\ DOMAIN Fields[v] = 1 .. Len(Fields[v])
      /\ Fields[v] \in [1 .. Len(Fields[v]) -> View]
  BY <1>1, LenProperties
<1>4. RequiredBy(v) = {Requires[v][i] : i \in 1 .. Len(Requires[v])} /\ RequiredBy(v) \subseteq View
  BY <1>2 DEF RequiredBy, Range
<1>5. Range(Fields[v]) \subseteq View /\ 1 \in DOMAIN Fields[v]
  BY <1>1, <1>3 DEF Range
<1>6. Head(Fields[v]) = Fields[v][1]
  BY <1>1, <1>3, <1>5
<1> QED
  BY <1>1, <1>2, <1>4, <1>5, <1>6 DEF Range

(* The stack. *)
LEMMA PushFacts ==
  ASSUME NEW f \in FrameType, NEW s \in Seq(FrameType)
  PROVE  /\ Push(f, s) \in Seq(FrameType)
         /\ Len(Push(f, s)) = Len(s) + 1
         /\ Push(f, s)[1] = f
         /\ \A i \in 2 .. Len(s) + 1 : Push(f, s)[i] = s[i - 1]
<1>1. <<f>> \in Seq(FrameType) /\ Len(<<f>>) = 1 /\ <<f>>[1] = f
  OBVIOUS
<1>2. Len(s) \in Nat
  BY LenProperties
<1> QED
  BY <1>1, <1>2, ConcatProperties DEF Push

LEMMA StackFacts ==
  ASSUME NEW s \in Seq(FrameType), s # << >>
  PROVE  /\ Len(s) \in Nat \ {0} /\ Head(s) = s[1]
         /\ \A i \in 1 .. Len(s) : s[i] \in FrameType
         /\ Head(s) \in FrameType
         /\ Tail(s) \in Seq(FrameType) /\ Len(Tail(s)) = Len(s) - 1
         /\ \A i \in 1 .. Len(s) - 1 : Tail(s)[i] = s[i + 1]
<1>1. Len(s) \in Nat \ {0}
  BY EmptySeq
<1>2. \A i \in 1 .. Len(s) : s[i] \in FrameType
  BY ElementOfSeq
<1>3. Head(s) = s[1]
  BY <1>1
<1>4. Tail(s) \in Seq(FrameType) /\ Len(Tail(s)) = Len(s) - 1
      /\ \A i \in 1 .. Len(s) - 1 : Tail(s)[i] = s[i + 1]
  BY <1>1
<1> QED
  BY <1>1, <1>2, <1>3, <1>4

LEMMA NextTopFacts ==
  ASSUME NEW f \in FrameType, NEW s \in Seq(FrameType), s # << >>
  PROVE  /\ Push(f, Tail(s)) \in Seq(FrameType)
         /\ Len(Push(f, Tail(s))) = Len(s)
         /\ Push(f, Tail(s))[1] = f
         /\ \A i \in 2 .. Len(s) : Push(f, Tail(s))[i] = s[i]
<1>1. /\ Len(s) \in Nat \ {0} /\ Tail(s) \in Seq(FrameType) /\ Len(Tail(s)) = Len(s) - 1
      /\ \A i \in 1 .. Len(s) - 1 : Tail(s)[i] = s[i + 1]
  BY StackFacts
<1> DEFINE tail == Tail(s)
           new == Push(f, tail)
<1> HIDE DEF tail
<1>2. /\ new \in Seq(FrameType) /\ Len(new) = Len(tail) + 1 /\ new[1] = f
      /\ \A i \in 2 .. Len(tail) + 1 : new[i] = tail[i - 1]
  BY <1>1, PushFacts DEF tail
<1> HIDE DEF new
<1>3. ASSUME NEW i \in 2 .. Len(s)
      PROVE  new[i] = s[i]
  <2>1. i \in 2 .. Len(tail) + 1 /\ i - 1 \in 1 .. Len(s) - 1 /\ (i - 1) + 1 = i
    BY <1>1 DEF tail
  <2>2. new[i] = tail[i - 1] /\ tail[i - 1] = s[(i - 1) + 1]
    BY <1>1, <1>2, <2>1 DEF tail
  <2> QED
    BY <2>1, <2>2
<1>4. Len(new) = Len(s)
  BY <1>1, <1>2 DEF tail
<1> QED
  BY <1>2, <1>3, <1>4 DEF new, tail

-----------------------------------------------------------------------------
(* Records. *)

LEMMA EmptyRecordFacts ==
  RecordType(EmptyRecord) /\ DOMAIN EmptyRecord = {}
BY DEF RecordType, EmptyRecord

(* One round of removeStaleFields: what goes, and that it takes along what requires it
   if the lists also name what is required indirectly. *)
LEMMA OneRound ==
  ASSUME NEW rec, NEW m
  PROVE  LET left == RemoveStaleIn(rec, m) IN
         /\ DOMAIN left \subseteq DOMAIN rec
         /\ \A v \in DOMAIN left : left[v] = rec[v]
         /\ \A v \in DOMAIN left : MapOf[v] = m => ~UpdateRequired(v, rec)
         /\ \A v \in DOMAIN rec :
              /\ ~UpdateRequired(v, rec)
              /\ \A r \in RequiredBy(v) : r \in DOMAIN rec => ~UpdateRequired(r, rec)
              => v \in DOMAIN left
BY DEF RemoveStaleIn, Restrict

LEMMA OneRoundCascades ==
  ASSUME NEW rec, NEW m, ListsAreClosed, DOMAIN rec \subseteq View
  PROVE  \A v \in DOMAIN RemoveStaleIn(rec, m) :
           \A r \in RequiredBy(v) : r \in DOMAIN rec => r \in DOMAIN RemoveStaleIn(rec, m)
BY DEF RemoveStaleIn, Restrict, ListsAreClosed

(* removeStaleFields as a whole. *)
LEMMA RemoveStaleFacts ==
  ASSUME NEW rec, RecordType(rec)
  PROVE  /\ RecordType(RemoveStale(rec))
         /\ DOMAIN RemoveStale(rec) \subseteq DOMAIN rec
         /\ \A v \in DOMAIN RemoveStale(rec) :
              RemoveStale(rec)[v] = rec[v] /\ ~OutOfDate(v, rec[v])
         /\ \A v \in DOMAIN rec :
              /\ ~OutOfDate(v, rec[v])
              /\ \A r \in RequiredBy(v) : r \in DOMAIN rec => ~OutOfDate(r, rec[r])
              => v \in DOMAIN RemoveStale(rec)
         /\ ListsAreClosed =>
              \A v \in DOMAIN RemoveStale(rec) :
                \A r \in RequiredBy(v) : r \in DOMAIN rec => r \in DOMAIN RemoveStale(rec)
<1> DEFINE r1 == RemoveStaleIn(rec, 1)
           r2 == RemoveStaleIn(r1, 2)
           r3 == RemoveStaleIn(r2, 3)
           r4 == RemoveStaleIn(r3, 4)
<1>0. RemoveStale(rec) = r4
  BY DEF RemoveStale
<1>1. /\ DOMAIN r1 \subseteq DOMAIN rec
      /\ \A v \in DOMAIN r1 : r1[v] = rec[v]
      /\ \A v \in DOMAIN r1 : MapOf[v] = 1 => ~UpdateRequired(v, rec)
      /\ \A v \in DOMAIN rec :
              /\ ~UpdateRequired(v, rec)
              /\ \A r \in RequiredBy(v) : r \in DOMAIN rec => ~UpdateRequired(r, rec)
              => v \in DOMAIN r1
  BY OneRound
<1>2. /\ DOMAIN r2 \subseteq DOMAIN r1
      /\ \A v \in DOMAIN r2 : r2[v] = r1[v]
      /\ \A v \in DOMAIN r2 : MapOf[v] = 2 => ~UpdateRequired(v, r1)
      /\ \A v \in DOMAIN r1 :
              /\ ~UpdateRequired(v, r1)
              /\ \A r \in RequiredBy(v) : r \in DOMAIN r1 => ~UpdateRequired(r, r1)
              => v \in DOMAIN r2
  BY OneRound
<1>3. /\ DOMAIN r3 \subseteq DOMAIN r2
      /\ \A v \in DOMAIN r3 : r3[v] = r2[v]
      /\ \A v \in DOMAIN r3 : MapOf[v] = 3 => ~UpdateRequired(v, r2)
      /\ \A v \in DOMAIN r2 :
              /\ ~UpdateRequired(v, r2)
              /\ \A r \in RequiredBy(v) : r \in DOMAIN r2 => ~UpdateRequired(r, r2)
              => v \in DOMAIN r3
  BY OneRound
<1>4. /\ DOMAIN r4 \subseteq DOMAIN r3
      /\ \A v \in DOMAIN r4 : r4[v] = r3[v]
      /\ \A v \in DOMAIN r4 : MapOf[v] = 4 => ~UpdateRequired(v, r3)
      /\ \A v \in DOMAIN r3 :
              /\ ~UpdateRequired(v, r3)
              /\ \A r \in RequiredBy(v) : r \in DOMAIN r3 => ~UpdateRequired(r, r3)
              => v \in DOMAIN r4
  BY OneRound
<1> HIDE DEF r1, r2, r3, r4
<1>5. /\ DOMAIN r4 \subseteq DOMAIN rec
      /\ \A v \in DOMAIN r4 : r4[v] = rec[v] /\ rec[v] \in Annotation(v) /\ v \in View
  BY <1>1, <1>2, <1>3, <1>4 DEF RecordType
<1>6. \A v \in DOMAIN r4 : ~OutOfDate(v, rec[v])
  <2> SUFFICES ASSUME NEW v \in DOMAIN r4 PROVE ~OutOfDate(v, rec[v])
    OBVIOUS
  <2>1. MapOf[v] \in 1 .. 4
    BY <1>5, HandlerAssumption
  <2>2. v \in DOMAIN r3 /\ v \in DOMAIN r2 /\ v \in DOMAIN r1 /\ v \in DOMAIN rec
    BY <1>1, <1>2, <1>3, <1>4
  <2>3. r3[v] = rec[v] /\ r2[v] = rec[v] /\ r1[v] = rec[v]
    BY <2>2, <1>1, <1>2, <1>3
  <2>4. MapOf[v] = 1 \/ MapOf[v] = 2 \/ MapOf[v] = 3 \/ MapOf[v] = 4
    BY <2>1
  <2> QED
    BY <2>2, <2>3, <2>4, <1>1, <1>2, <1>3, <1>4 DEF UpdateRequired
<1>7. ASSUME NEW v \in DOMAIN rec, ~OutOfDate(v, rec[v]),
             \A r \in RequiredBy(v) : r \in DOMAIN rec => ~OutOfDate(r, rec[r])
      PROVE  v \in DOMAIN r4
  <2>1. v \in DOMAIN r1
    BY <1>1, <1>7 DEF UpdateRequired
  <2>2. v \in DOMAIN r2
    BY <1>1, <1>2, <1>7, <2>1 DEF UpdateRequired
  <2>3. v \in DOMAIN r3
    BY <1>1, <1>2, <1>3, <1>7, <2>2 DEF UpdateRequired
  <2> QED
    BY <1>1, <1>2, <1>3, <1>4, <1>7, <2>3 DEF UpdateRequired
<1>8. ASSUME ListsAreClosed, NEW v \in DOMAIN r4, NEW r \in RequiredBy(v), r \in DOMAIN rec
      PROVE  r \in DOMAIN r4
  <2>0. /\ DOMAIN rec \subseteq View /\ DOMAIN r1 \subseteq View
        /\ DOMAIN r2 \subseteq View /\ DOMAIN r3 \subseteq View
    BY <1>1, <1>2, <1>3 DEF RecordType
  <2>1. v \in DOMAIN r3 /\ v \in DOMAIN r2 /\ v \in DOMAIN r1
    BY <1>2, <1>3, <1>4
  <2>2. r \in DOMAIN r1
    BY <1>8, <2>0, <2>1, OneRoundCascades DEF r1
  <2>3. r \in DOMAIN r2
    BY <1>8, <2>0, <2>1, <2>2, OneRoundCascades DEF r2
  <2>4. r \in DOMAIN r3
    BY <1>8, <2>0, <2>1, <2>3, OneRoundCascades DEF r3
  <2> QED
    BY <1>8, <2>0, <2>4, OneRoundCascades DEF r4
<1>9. RecordType(r4)
  BY <1>5 DEF RecordType
<1> QED
  BY <1>0, <1>5, <1>6, <1>7, <1>8, <1>9

LEMMA OfWhitespacerFacts ==
  OfWhitespacer \subseteq View /\ OfWhitespacer \subseteq {"sentences", "tokens"}
BY DEF OfWhitespacer

(* The Whitespacer adds its views and leaves the others alone. *)
LEMMA WhitespaceFacts ==
  ASSUME NEW rec, RecordType(rec), NEW views, views \subseteq OfWhitespacer
  PROVE  /\ RecordType(Whitespace(rec, views))
         /\ DOMAIN Whitespace(rec, views) = DOMAIN rec \cup views
         /\ \A v \in DOMAIN rec \cup views :
              IF v \in views THEN Whitespace(rec, views)[v].by = Whitespacer
              ELSE Whitespace(rec, views)[v] = rec[v]
<1>1. DOMAIN Whitespace(rec, views) = DOMAIN rec \cup views
  BY DEF Whitespace
<1>2. ASSUME NEW v \in DOMAIN rec \cup views
      PROVE  Whitespace(rec, views)[v] =
               IF v \in views
               THEN [by |-> Whitespacer, from |-> [r \in RequiredBy(v) |-> Missing]]
               ELSE rec[v]
  BY DEF Whitespace
<1>3. \A v \in views :
        [by |-> Whitespacer, from |-> [r \in RequiredBy(v) |-> Missing]] \in Annotation(v)
  BY DEF Annotation, Source
<1>4. \A v \in DOMAIN rec \cup views : Whitespace(rec, views)[v] \in Annotation(v)
  BY <1>2, <1>3 DEF RecordType
<1>5. DOMAIN rec \cup views \subseteq View
  BY OfWhitespacerFacts DEF RecordType
<1>6. RecordType(Whitespace(rec, views))
  BY <1>1, <1>4, <1>5 DEF RecordType
<1>7. ASSUME NEW v \in DOMAIN rec \cup views
      PROVE  IF v \in views THEN Whitespace(rec, views)[v].by = Whitespacer
             ELSE Whitespace(rec, views)[v] = rec[v]
  <2>1. CASE v \in views
    <3>1. Whitespace(rec, views)[v] =
            [by |-> Whitespacer, from |-> [r \in RequiredBy(v) |-> Missing]]
      BY <1>2, <2>1
    <3> QED
      BY <2>1, <3>1
  <2> QED
    BY <1>2, <2>1
<1> QED
  BY <1>1, <1>6, <1>7

LEMMA CompleteFacts ==
  ASSUME NEW rec, RecordType(rec)
  PROVE  /\ RecordType(Complete(rec))
         /\ DOMAIN Complete(rec) = DOMAIN rec \cup OfWhitespacer
         /\ \A v \in DOMAIN rec \cup OfWhitespacer :
              IF v \in DOMAIN rec THEN Complete(rec)[v] = rec[v]
              ELSE Complete(rec)[v].by = Whitespacer
<1> DEFINE views == OfWhitespacer \ DOMAIN rec
<1>1. views \subseteq OfWhitespacer /\ Complete(rec) = Whitespace(rec, views)
  BY DEF Complete
<1> HIDE DEF views
<1>2. /\ RecordType(Whitespace(rec, views)) /\ DOMAIN Whitespace(rec, views) = DOMAIN rec \cup views
      /\ \A v \in DOMAIN rec \cup views :
              IF v \in views THEN Whitespace(rec, views)[v].by = Whitespacer
              ELSE Whitespace(rec, views)[v] = rec[v]
  BY <1>1, WhitespaceFacts
<1>3. DOMAIN rec \cup views = DOMAIN rec \cup OfWhitespacer
  BY DEF views
<1>4. \A v \in DOMAIN rec \cup OfWhitespacer : v \in views <=> v \notin DOMAIN rec
  BY DEF views
<1>5. ASSUME NEW v \in DOMAIN rec \cup OfWhitespacer
      PROVE  IF v \in DOMAIN rec THEN Complete(rec)[v] = rec[v]
             ELSE Complete(rec)[v].by = Whitespacer
  BY <1>1, <1>2, <1>3, <1>4
<1> QED
  BY <1>1, <1>2, <1>3, <1>5

(* An annotator adds its fields, each of the release it is of. *)
LEMMA WithFacts ==
  ASSUME TypeOK, NEW rec, RecordType(rec), NEW fs, fs \subseteq View
  PROVE  /\ RecordType(With(rec, fs))
         /\ DOMAIN With(rec, fs) = DOMAIN rec \cup fs
         /\ \A v \in DOMAIN rec \cup fs :
              IF v \in fs
              THEN /\ With(rec, fs)[v].by = server[v]
                   /\ \A r \in RequiredBy(v) : With(rec, fs)[v].from[r] =
                        IF r \in DOMAIN rec THEN rec[r].by ELSE Missing
              ELSE With(rec, fs)[v] = rec[v]
<1>1. DOMAIN With(rec, fs) = DOMAIN rec \cup fs
  BY DEF With
<1>2. ASSUME NEW v \in DOMAIN rec \cup fs
      PROVE  With(rec, fs)[v] = IF v \in fs THEN Made(v, rec) ELSE rec[v]
  BY DEF With
<1>3. \A r \in DOMAIN rec : rec[r].by \in Source
  BY DEF RecordType, Annotation
<1>4. \A v \in fs : Made(v, rec) \in Annotation(v)
  BY <1>3 DEF Made, Annotation, Source, TypeOK
<1>5. \A v \in fs : Made(v, rec).by = server[v]
  BY DEF Made
<1>6. \A v \in fs : \A r \in RequiredBy(v) :
        Made(v, rec).from[r] = IF r \in DOMAIN rec THEN rec[r].by ELSE Missing
  BY DEF Made
<1>7. \A v \in DOMAIN rec \cup fs : With(rec, fs)[v] \in Annotation(v)
  BY <1>2, <1>4 DEF RecordType
<1>8. DOMAIN rec \cup fs \subseteq View
  BY DEF RecordType
<1>9. RecordType(With(rec, fs))
  BY <1>1, <1>7, <1>8 DEF RecordType
<1> QED
  BY <1>1, <1>2, <1>5, <1>6, <1>9

-----------------------------------------------------------------------------
(* What each action of a thread does: to its own state only, and to the archive. *)

OnlyOf(t) ==
  /\ pc' = [pc EXCEPT ![t] = pc'[t]]
  /\ stack' = [stack EXCEPT ![t] = stack'[t]]
  /\ record' = [record EXCEPT ![t] = record'[t]]
  /\ outcome' = [outcome EXCEPT ![t] = outcome'[t]]
  /\ known' = [known EXCEPT ![t] = known'[t]]
  /\ UNCHANGED <<server, clientSource, updater>>

StacksFit ==
  \A t \in Thread :
    /\ pc[t] \in {"require", "annotate", "store"} => stack[t] # << >>
    /\ pc[t] \in {"idle", "get by id", "clean by id"} => stack[t] = << >>

TInv == TypeOK /\ StacksFit

LEMMA BeginDoes ==
  ASSUME TInv, NEW t \in Thread, NEW frames, NEW place, Begin(t, frames, place)
  PROVE  /\ OnlyOf(t) /\ UNCHANGED archive
         /\ pc[t] = "idle" /\ pc'[t] = place /\ stack'[t] = frames
         /\ record'[t] = record[t] /\ outcome'[t] = outcome[t] /\ known'[t] = clientSource
BY DEF TInv, TypeOK, Begin, Goto, OnlyOf

LEMMA AskArchiveDoes ==
  ASSUME TInv, NEW t \in Thread, AskArchive(t)
  PROVE  /\ OnlyOf(t) /\ UNCHANGED archive
         /\ pc[t] = "get" /\ pc'[t] = "clean" /\ stack'[t] = stack[t]
         /\ outcome'[t] = outcome[t] /\ known'[t] = known[t]
         /\ record'[t] = archive \/ (ArchiveFails /\ record'[t] = EmptyRecord)
BY DEF TInv, TypeOK, AskArchive, Goto, OnlyOf

(* An exception leaves every provide(). *)
Throws(t) == pc'[t] = "done" /\ stack'[t] = << >> /\ record'[t] = EmptyRecord

LEMMA ThrowDoes ==
  ASSUME TInv, NEW t \in Thread, NEW o, Throw(t, o),
         UNCHANGED <<server, clientSource, updater, known>>
  PROVE  OnlyOf(t) /\ known'[t] = known[t] /\ Throws(t) /\ outcome'[t] = o
BY DEF TInv, TypeOK, Throw, Throws, Answer, Goto, OnlyOf

LEMMA ThrowsTypes ==
  ASSUME NEW t \in Thread, Throws(t)
  PROVE  stack'[t] \in Seq(FrameType) /\ RecordType(record'[t])
<1>1. << >> \in Seq(FrameType)
  OBVIOUS
<1> QED
  BY <1>1 DEF Throws, RecordType, EmptyRecord

LEMMA AskArchiveByIdDoes ==
  ASSUME TInv, NEW t \in Thread, AskArchiveById(t)
  PROVE  /\ OnlyOf(t) /\ UNCHANGED archive
         /\ pc[t] = "get by id" /\ known'[t] = known[t]
         /\ \/ /\ pc'[t] = "clean by id" /\ stack'[t] = stack[t]
               /\ record'[t] = archive /\ outcome'[t] = outcome[t]
            \/ Throws(t) /\ outcome'[t] = "failed"
<1>1. /\ pc[t] = "get by id"
      /\ UNCHANGED <<archive, server, clientSource, updater, known>>
  BY DEF AskArchiveById
<1>2. CASE Throw(t, "failed")
  BY <1>1, <1>2, ThrowDoes
<1>3. CASE /\ record' = [record EXCEPT ![t] = archive]
           /\ Goto(t, "clean by id") /\ UNCHANGED <<stack, outcome>>
  BY <1>1, <1>3 DEF TInv, TypeOK, Goto, OnlyOf
<1> QED
  BY <1>2, <1>3 DEF AskArchiveById

LEMMA CleanDoes ==
  ASSUME TInv, NEW t \in Thread, Clean(t)
  PROVE  /\ OnlyOf(t) /\ UNCHANGED archive
         /\ pc[t] = "clean" /\ stack'[t] = stack[t] /\ known'[t] = known[t]
         /\ record'[t] = Complete(RemoveStale(record[t]))
         /\ \/ /\ stack[t] = << >> /\ pc'[t] = "done" /\ outcome'[t] = "record"
            \/ /\ stack[t] # << >> /\ pc'[t] = "require" /\ outcome'[t] = outcome[t]
BY DEF TInv, TypeOK, Clean, Answer, Goto, OnlyOf

LEMMA CleanByIdDoes ==
  ASSUME TInv, NEW t \in Thread, CleanById(t)
  PROVE  /\ OnlyOf(t) /\ UNCHANGED archive
         /\ pc[t] = "clean by id" /\ pc'[t] = "done" /\ stack'[t] = stack[t]
         /\ known'[t] = known[t] /\ outcome'[t] = "record"
         /\ record'[t] = RemoveStale(record[t])
BY DEF TInv, TypeOK, CleanById, Answer, Goto, OnlyOf

(* A call of provide() is left: the requirement it was for is done with. *)
Returns(t) ==
  \/ /\ Len(stack[t]) = 1 /\ stack'[t] = stack[t]
     /\ pc'[t] = "done" /\ outcome'[t] = "record"
  \/ /\ Len(stack[t]) # 1 /\ stack'[t] = Tail(stack[t])
     /\ pc'[t] = "require" /\ outcome'[t] = outcome[t]

LEMMA ReturnDoes ==
  ASSUME TInv, NEW t \in Thread, Return(t)
  PROVE  /\ pc' = [pc EXCEPT ![t] = pc'[t]]
         /\ stack' = [stack EXCEPT ![t] = stack'[t]]
         /\ outcome' = [outcome EXCEPT ![t] = outcome'[t]]
         /\ Returns(t)
BY DEF TInv, TypeOK, Return, Answer, Goto, Returns

LEMMA TopFacts ==
  ASSUME TInv, NEW t \in Thread, stack[t] # << >>
  PROVE  /\ stack[t] \in Seq(FrameType) /\ Len(stack[t]) \in Nat \ {0}
         /\ Top(t) = stack[t][1] /\ Top(t) \in FrameType
         /\ \A i \in 1 .. Len(stack[t]) : stack[t][i] \in FrameType
         /\ Tail(stack[t]) \in Seq(FrameType)
         /\ Len(Tail(stack[t])) = Len(stack[t]) - 1
         /\ \A i \in 1 .. Len(stack[t]) - 1 : Tail(stack[t])[i] = stack[t][i + 1]
BY StackFacts DEF TInv, TypeOK, Top

(* The top frame's loop takes its next requirement, and calls provide() for it or not. *)

LEMMA RequireDoes ==
  ASSUME TInv, NEW t \in Thread, Require(t)
  PROVE  LET v == Top(t).view
             n == Top(t).next
             r == Requires[v][n]
         IN
         /\ OnlyOf(t) /\ UNCHANGED archive
         /\ pc[t] = "require" /\ stack[t] # << >> /\ v \in View
         /\ n \in 1 .. Len(Requires[v]) /\ r \in View
         /\ record'[t] = record[t] /\ outcome'[t] = outcome[t] /\ known'[t] = known[t]
         /\ stack'[t] \in Seq(FrameType)
         /\ \/ /\ pc'[t] = "get" /\ Len(stack'[t]) = Len(stack[t]) + 1
               /\ stack'[t][1].view = r /\ stack'[t][1].next = 1
               /\ stack'[t][2].view = v /\ stack'[t][2].next = n + 1
               /\ \A i \in 3 .. Len(stack[t]) + 1 : stack'[t][i] = stack[t][i - 1]
            \/ /\ r \in DOMAIN record[t]
               /\ pc'[t] = "require" /\ Len(stack'[t]) = Len(stack[t])
               /\ stack'[t][1].view = v /\ stack'[t][1].next = n + 1
               /\ \A i \in 2 .. Len(stack[t]) : stack'[t][i] = stack[t][i]
<1> DEFINE v == Top(t).view
           n == Top(t).next
           r == Requires[v][n]
           force == Top(t).force \/ r \notin DOMAIN record[t]
           here == [view |-> v, force |-> force, next |-> n + 1]
<1>1. pc[t] = "require" /\ stack[t] # << >>
  BY DEF Require, TInv, StacksFit
<1>2. /\ stack[t] \in Seq(FrameType) /\ Len(stack[t]) \in Nat \ {0}
      /\ Top(t) \in FrameType
      /\ Tail(stack[t]) \in Seq(FrameType)
      /\ Len(Tail(stack[t])) = Len(stack[t]) - 1
      /\ \A i \in 1 .. Len(stack[t]) - 1 : Tail(stack[t])[i] = stack[t][i + 1]
  BY <1>1, TopFacts
<1>3. v \in View /\ n \in Nat \ {0} /\ Top(t).force \in BOOLEAN
  BY <1>2 DEF FrameType
<1>4. n \in 1 .. Len(Requires[v])
  BY <1>3, ListFacts DEF Require, MoreRequirements
<1>5. r \in View
  BY <1>3, <1>4, ListFacts
<1>0. force \in BOOLEAN
  OBVIOUS
<1> HIDE DEF force, r, n, v
<1>6. here \in FrameType /\ here.view = v /\ here.next = n + 1
  BY <1>0, <1>3 DEF FrameType
<1>7. Frame(r, force) \in FrameType /\ Frame(r, force).view = r /\ Frame(r, force).next = 1
  BY <1>0, <1>5 DEF FrameType, Frame
<1>8. /\ record' = record /\ outcome' = outcome /\ known' = known
      /\ UNCHANGED <<archive, server, clientSource, updater>>
      /\ \/ /\ force
            /\ stack' = [stack EXCEPT ![t] = Push(Frame(r, force), Push(here, Tail(stack[t])))]
            /\ pc' = [pc EXCEPT ![t] = "get"]
         \/ /\ ~force /\ pc' = pc
            /\ stack' = [stack EXCEPT ![t] = Push(here, Tail(stack[t]))]
  BY DEF Require, Goto, v, n, r, force
<1> HIDE DEF here
<1>9. /\ Push(here, Tail(stack[t])) \in Seq(FrameType)
      /\ Len(Push(here, Tail(stack[t]))) = Len(stack[t])
      /\ Push(here, Tail(stack[t]))[1] = here
      /\ \A i \in 2 .. Len(stack[t]) : Push(here, Tail(stack[t]))[i] = stack[t][i]
  BY <1>1, <1>2, <1>6, NextTopFacts
<1>10. OnlyOf(t)
  BY <1>8 DEF OnlyOf, TInv, TypeOK
<1>11. CASE ~force
  <2>1. stack'[t] = Push(here, Tail(stack[t])) /\ pc'[t] = "require"
    BY <1>1, <1>8, <1>11 DEF TInv, TypeOK
  <2>2. r \in DOMAIN record[t]
    BY <1>11 DEF force
  <2> QED
    BY <1>1, <1>3, <1>4, <1>5, <1>6, <1>8, <1>9, <1>10, <2>1, <2>2 DEF v, n, r
<1>12. CASE force
  <2> DEFINE low == Push(here, Tail(stack[t]))
  <2> HIDE DEF low
  <2>1. stack'[t] = Push(Frame(r, force), low) /\ pc'[t] = "get"
    BY <1>1, <1>8, <1>12 DEF TInv, TypeOK, low
  <2> DEFINE high == Push(Frame(r, force), low)
  <2>2. /\ low \in Seq(FrameType) /\ Len(low) = Len(stack[t]) /\ low[1] = here
        /\ \A i \in 2 .. Len(stack[t]) : low[i] = stack[t][i]
    BY <1>9 DEF low
  <2>3. /\ high \in Seq(FrameType) /\ Len(high) = Len(stack[t]) + 1
        /\ high[1] = Frame(r, force)
        /\ \A i \in 2 .. Len(low) + 1 : high[i] = low[i - 1]
    <3> DEFINE top == Frame(r, force)
    <3> SUFFICES /\ Push(top, low) \in Seq(FrameType) /\ Len(Push(top, low)) = Len(stack[t]) + 1
                 /\ Push(top, low)[1] = top
                 /\ \A i \in 2 .. Len(low) + 1 : Push(top, low)[i] = low[i - 1]
      OBVIOUS
    <3>1. top \in FrameType /\ low \in Seq(FrameType) /\ Len(low) = Len(stack[t])
      BY <1>7, <2>2
    <3> HIDE DEF top
    <3>2. /\ Push(top, low) \in Seq(FrameType) /\ Len(Push(top, low)) = Len(low) + 1
          /\ Push(top, low)[1] = top
          /\ \A i \in 2 .. Len(low) + 1 : Push(top, low)[i] = low[i - 1]
      BY <3>1, PushFacts
    <3> QED
      BY <3>1, <3>2
  <2> HIDE DEF high
  <2>4. high[2] = here
    BY <1>2, <2>2, <2>3
  <2>5. ASSUME NEW i \in 3 .. Len(stack[t]) + 1
        PROVE  high[i] = stack[t][i - 1]
    <3>1. i \in 2 .. Len(low) + 1 /\ i - 1 \in 2 .. Len(stack[t])
      BY <1>2, <2>2
    <3> QED
      BY <2>2, <2>3, <3>1
  <2> QED
    BY <1>1, <1>3, <1>4, <1>5, <1>6, <1>7, <1>8, <1>10, <2>1, <2>2, <2>3, <2>4, <2>5 DEF high, v, n, r
<1> QED
  BY <1>11, <1>12

LEMMA DecideDoes ==
  ASSUME TInv, NEW t \in Thread, Decide(t)
  PROVE  LET v == Top(t).view IN
         /\ OnlyOf(t) /\ UNCHANGED archive /\ known'[t] = known[t]
         /\ pc[t] = "require" /\ stack[t] # << >> /\ ~MoreRequirements(t)
         /\ \/ /\ v \notin OfWhitespacer /\ pc'[t] = "annotate"
               /\ stack'[t] = stack[t] /\ record'[t] = record[t] /\ outcome'[t] = outcome[t]
            \/ /\ v \in OfWhitespacer /\ record'[t] = Whitespace(record[t], OfWhitespacer)
               /\ Returns(t)
            \/ v \in DOMAIN record[t] /\ record'[t] = record[t] /\ Returns(t)
<1> DEFINE v == Top(t).view
           update == Top(t).force \/ UpdateRequired(v, record[t])
<1>1. /\ pc[t] = "require" /\ stack[t] # << >> /\ ~MoreRequirements(t)
      /\ UNCHANGED <<archive, server, clientSource, updater, known>>
  BY DEF Decide, TInv, StacksFit
<1>2. \/ /\ v \notin OfWhitespacer /\ Goto(t, "annotate") /\ UNCHANGED <<stack, record, outcome>>
      \/ /\ v \in OfWhitespacer
         /\ record' = [record EXCEPT ![t] = Whitespace(record[t], OfWhitespacer)]
         /\ Return(t)
      \/ v \in DOMAIN record[t] /\ UNCHANGED record /\ Return(t)
  BY DEF Decide, UpdateRequired
<1> HIDE DEF v
<1>3. CASE v \notin OfWhitespacer /\ Goto(t, "annotate") /\ UNCHANGED <<stack, record, outcome>>
  <2>1. OnlyOf(t) /\ pc'[t] = "annotate"
    BY <1>1, <1>3 DEF TInv, TypeOK, OnlyOf, Goto
  <2> QED
    BY <1>1, <1>3, <2>1 DEF v
<1>4. CASE /\ v \in OfWhitespacer
           /\ record' = [record EXCEPT ![t] = Whitespace(record[t], OfWhitespacer)]
           /\ Return(t)
  <2>1. OnlyOf(t)
    BY <1>1, <1>4, ReturnDoes DEF TInv, TypeOK, OnlyOf
  <2>2. record'[t] = Whitespace(record[t], OfWhitespacer)
    BY <1>4 DEF TInv, TypeOK
  <2> QED
    BY <1>1, <1>4, <2>1, <2>2, ReturnDoes DEF v
<1>5. CASE v \in DOMAIN record[t] /\ UNCHANGED record /\ Return(t)
  <2>1. OnlyOf(t)
    BY <1>1, <1>5, ReturnDoes DEF TInv, TypeOK, OnlyOf
  <2> QED
    BY <1>1, <1>5, <2>1, ReturnDoes DEF v
<1> QED
  BY <1>2, <1>3, <1>4, <1>5

LEMMA AnnotateDoes ==
  ASSUME TInv, NEW t \in Thread, Annotate(t)
  PROVE  LET v == Top(t).view IN
         /\ OnlyOf(t) /\ UNCHANGED archive
         /\ pc[t] = "annotate" /\ stack[t] # << >> /\ v \in View
         /\ known'[t] = known[t]
         /\ \/ Throws(t) /\ outcome'[t] \in {"failed", "unavailable"}
            \/ /\ pc'[t] = "store" /\ stack'[t] = stack[t] /\ outcome'[t] = outcome[t]
               /\ \/ record'[t] = With(record[t], Range(Fields[v]))
                  \/ "first" \in Replies /\ record'[t] = With(record[t], {Head(Fields[v])})
                  \/ "exception" \in Replies /\ record'[t] = record[t]
<1> DEFINE v == Top(t).view
<1>1. /\ pc[t] = "annotate" /\ stack[t] # << >>
      /\ UNCHANGED <<archive, server, clientSource, updater, known>>
  BY DEF Annotate, TInv, StacksFit
<1>2. v \in View
  BY <1>1, TopFacts DEF FrameType
<1>3. \/ \E o \in {"failed", "unavailable"} : Throw(t, o)
      \/ /\ record' = [record EXCEPT ![t] = With(record[t], Range(Fields[v]))]
         /\ Goto(t, "store") /\ UNCHANGED <<stack, outcome>>
      \/ /\ "first" \in Replies
         /\ record' = [record EXCEPT ![t] = With(record[t], {Head(Fields[v])})]
         /\ Goto(t, "store") /\ UNCHANGED <<stack, outcome>>
      \/ "exception" \in Replies /\ Goto(t, "store") /\ UNCHANGED <<stack, record, outcome>>
  <2>1. CASE v \notin Offered
    <3>1. Throw(t, "unavailable")
      BY <2>1 DEF Annotate
    <3> QED
      BY <3>1
  <2>2. CASE v \in Offered
    <3>1. PICK reply \in Replies :
            CASE reply = "all" ->
                   /\ record' = [record EXCEPT ![t] = With(@, Range(Fields[v]))]
                   /\ Goto(t, "store") /\ UNCHANGED <<stack, outcome>>
              [] reply = "first" ->
                   /\ record' = [record EXCEPT ![t] = With(@, {Head(Fields[v])})]
                   /\ Goto(t, "store") /\ UNCHANGED <<stack, outcome>>
              [] reply = "exception" ->
                   Goto(t, "store") /\ UNCHANGED <<stack, record, outcome>>
              [] OTHER -> Throw(t, reply)
      BY <2>2 DEF Annotate
    <3>2. reply \in {"all", "first", "failed", "unavailable", "exception"}
      BY HandlerAssumption
    <3>3. CASE reply = "all"
      BY <3>1, <3>3
    <3>4. CASE reply = "first"
      BY <3>1, <3>4
    <3>5. CASE reply = "exception"
      BY <3>1, <3>5
    <3>6. CASE reply \in {"failed", "unavailable"}
      BY <3>1, <3>6
    <3> QED
      BY <3>2, <3>3, <3>4, <3>5, <3>6
  <2> QED
    BY <2>1, <2>2
<1> HIDE DEF v
<1>4. CASE \E o \in {"failed", "unavailable"} : Throw(t, o)
  <2>1. OnlyOf(t) /\ Throws(t) /\ outcome'[t] \in {"failed", "unavailable"}
    BY <1>1, <1>4, ThrowDoes
  <2> QED
    BY <1>1, <1>2, <2>1 DEF v
<1>5. CASE /\ record' = [record EXCEPT ![t] = With(record[t], Range(Fields[v]))]
           /\ Goto(t, "store") /\ UNCHANGED <<stack, outcome>>
  <2>1. /\ OnlyOf(t) /\ pc'[t] = "store" /\ stack'[t] = stack[t]
        /\ outcome'[t] = outcome[t]
        /\ record'[t] = With(record[t], Range(Fields[v]))
    BY <1>1, <1>5 DEF TInv, TypeOK, OnlyOf, Goto
  <2> QED
    BY <1>1, <1>2, <2>1 DEF v
<1>6. CASE /\ "first" \in Replies
           /\ record' = [record EXCEPT ![t] = With(record[t], {Head(Fields[v])})]
           /\ Goto(t, "store") /\ UNCHANGED <<stack, outcome>>
  <2>1. /\ OnlyOf(t) /\ pc'[t] = "store" /\ stack'[t] = stack[t]
        /\ outcome'[t] = outcome[t]
        /\ record'[t] = With(record[t], {Head(Fields[v])})
    BY <1>1, <1>6 DEF TInv, TypeOK, OnlyOf, Goto
  <2> QED
    BY <1>1, <1>2, <1>6, <2>1 DEF v
<1>7. CASE "exception" \in Replies /\ Goto(t, "store") /\ UNCHANGED <<stack, record, outcome>>
  <2>1. /\ OnlyOf(t) /\ pc'[t] = "store" /\ stack'[t] = stack[t]
        /\ outcome'[t] = outcome[t]
        /\ record'[t] = record[t]
    BY <1>1, <1>7 DEF TInv, TypeOK, OnlyOf, Goto
  <2> QED
    BY <1>1, <1>2, <1>7, <2>1 DEF v
<1> QED
  BY <1>3, <1>4, <1>5, <1>6, <1>7

LEMMA StoreDoes ==
  ASSUME TInv, NEW t \in Thread, Store(t)
  PROVE  /\ OnlyOf(t) /\ pc[t] = "store" /\ stack[t] # << >>
         /\ record'[t] = record[t] /\ known'[t] = known[t]
         /\ archive' = record[t] \/ (ArchiveFails /\ archive' = archive)
         /\ Returns(t)
<1>1. /\ pc[t] = "store" /\ stack[t] # << >> /\ Return(t)
      /\ archive' = record[t] \/ (ArchiveFails /\ archive' = archive)
      /\ UNCHANGED <<server, clientSource, updater, record, known>>
  BY DEF Store, TInv, StacksFit
<1>2. OnlyOf(t)
  BY <1>1, ReturnDoes DEF TInv, TypeOK, OnlyOf
<1> QED
  BY <1>1, <1>2, ReturnDoes

LEMMA ArchiveThrowsDoes ==
  ASSUME TInv, NEW t \in Thread, ArchiveThrows(t)
  PROVE  /\ ArchiveFails /\ OnlyOf(t)
         /\ archive' \in {archive, record[t]}
         /\ pc[t] \in {"get", "get by id", "store"} /\ known'[t] = known[t]
         /\ Throws(t) /\ outcome'[t] = "closed"
<1>1. /\ ArchiveFails /\ Throw(t, "closed")
      /\ archive' \in {archive, record[t]} /\ pc[t] \in {"get", "get by id", "store"}
      /\ UNCHANGED <<server, clientSource, updater, known>>
  BY DEF ArchiveThrows
<1> QED
  BY <1>1, ThrowDoes

LEMMA ReplyDoes ==
  ASSUME TInv, NEW t \in Thread, Reply(t)
  PROVE  /\ OnlyOf(t) /\ UNCHANGED archive
         /\ pc[t] = "done" /\ pc'[t] = "idle" /\ stack'[t] = << >>
         /\ record'[t] = EmptyRecord /\ outcome'[t] = "none"
         /\ known'[t] = [v \in View |-> Unknown]
BY DEF TInv, TypeOK, Reply, Goto, OnlyOf

-----------------------------------------------------------------------------
(* Types. *)

LEMMA OnlyOfTypes ==
  ASSUME TInv, NEW t \in Thread, OnlyOf(t), UNCHANGED whitespaced, RecordType(archive'),
         pc'[t] \in Location, stack'[t] \in Seq(FrameType), RecordType(record'[t]),
         outcome'[t] \in {"none", "record", "failed", "unavailable", "closed"},
         known'[t] \in [View -> Release \cup {Unknown}],
         pc'[t] \in {"require", "annotate", "store"} => stack'[t] # << >>,
         pc'[t] \in {"idle", "get by id", "clean by id"} => stack'[t] = << >>
  PROVE  TInv'
<1>1. /\ server' \in [View -> Release] /\ clientSource' \in [View -> Release \cup {Unknown}]
      /\ updater' = Resting \/ updater' \in View \X Release
      /\ whitespaced' \in BOOLEAN
  BY DEF OnlyOf, TInv, TypeOK
<1>2. /\ pc' \in [Thread -> Location]
      /\ outcome' \in [Thread -> {"none", "record", "failed", "unavailable", "closed"}]
      /\ known' \in [Thread -> [View -> Release \cup {Unknown}]]
  BY DEF OnlyOf, TInv, TypeOK
<1>3. stack' \in [Thread -> Seq(FrameType)]
  BY DEF OnlyOf, TInv, TypeOK
<1>4. record' = [u \in Thread |-> record'[u]]
  BY DEF OnlyOf, TInv, TypeOK
<1>5. \A u \in Thread : RecordType(record'[u])
  BY DEF OnlyOf, TInv, TypeOK, RecordType
<1>6. \A u \in Thread :
        /\ pc'[u] \in {"require", "annotate", "store"} => stack'[u] # << >>
        /\ pc'[u] \in {"idle", "get by id", "clean by id"} => stack'[u] = << >>
  BY DEF OnlyOf, TInv, TypeOK, StacksFit
<1> QED
  BY <1>1, <1>2, <1>3, <1>4, <1>5, <1>6 DEF TInv, TypeOK, StacksFit, RecordType, Annotation, Source

LEMMA TypeInit == Init => TInv
<1> SUFFICES ASSUME Init PROVE TInv
  OBVIOUS
<1>1. \A t \in Thread : stack[t] = << >> /\ pc[t] = "idle" /\ record[t] = EmptyRecord
  BY DEF Init
<1>2. stack \in [Thread -> Seq(FrameType)]
  <2>1. << >> \in Seq(FrameType)
    BY EmptySeq
  <2> QED
    BY <2>1 DEF Init
<1>3. whitespaced \in BOOLEAN
  BY HandlerAssumption DEF Init
<1>4. /\ server \in [View -> Release] /\ clientSource \in [View -> Release \cup {Unknown}]
      /\ updater = Resting
      /\ outcome \in [Thread -> {"none", "record", "failed", "unavailable", "closed"}]
      /\ known \in [Thread -> [View -> Release \cup {Unknown}]]
      /\ pc \in [Thread -> Location]
  BY ReleaseFacts DEF Init, Location
<1>5. record = [t \in Thread |-> record[t]]
  BY DEF Init
<1>6. DOMAIN archive \subseteq View /\ \A v \in DOMAIN archive : archive[v] \in Annotation(v)
  BY EmptyRecordFacts DEF Init, RecordType
<1>7. \A t \in Thread : RecordType(record[t])
  BY <1>1, EmptyRecordFacts
<1>8. StacksFit
  BY <1>1 DEF StacksFit
<1> QED
  BY <1>2, <1>3, <1>4, <1>5, <1>6, <1>7, <1>8 DEF TInv, TypeOK, RecordType

LEMMA ReturnsTypes ==
  ASSUME TInv, NEW t \in Thread, stack[t] # << >>, Returns(t)
  PROVE  /\ pc'[t] \in {"done", "require"} /\ stack'[t] \in Seq(FrameType)
         /\ outcome'[t] \in {"none", "record", "failed", "unavailable", "closed"}
         /\ stack'[t] # << >>
<1>1. /\ stack[t] \in Seq(FrameType) /\ Len(stack[t]) \in Nat \ {0}
      /\ Tail(stack[t]) \in Seq(FrameType) /\ Len(Tail(stack[t])) = Len(stack[t]) - 1
  BY TopFacts
<1>2. outcome[t] \in {"none", "record", "failed", "unavailable", "closed"}
  BY DEF TInv, TypeOK
<1>3. Len(stack[t]) # 1 => Tail(stack[t]) # << >>
  <2>1. Len(<< >>) = 0
    BY EmptySeq
  <2>2. Len(stack[t]) # 1 => Len(Tail(stack[t])) # 0
    BY <1>1
  <2> QED
    BY <2>1, <2>2
<1> QED
  BY <1>1, <1>2, <1>3 DEF Returns

LEMMA ThreadTypes ==
  ASSUME TInv, NEW t \in Thread, UNCHANGED whitespaced,
         \/ \E v \in View, force \in Forcing : Provide(t, v, force)
         \/ GetRecord(t)
         \/ GetRecordById(t)
         \/ ThreadStep(t)
  PROVE  TInv'
<1>1. /\ pc[t] \in Location /\ stack[t] \in Seq(FrameType) /\ RecordType(record[t])
      /\ RecordType(archive) /\ RecordType(EmptyRecord)
      /\ outcome[t] \in {"none", "record", "failed", "unavailable", "closed"}
      /\ known[t] \in [View -> Release \cup {Unknown}]
      /\ clientSource \in [View -> Release \cup {Unknown}]
  BY EmptyRecordFacts DEF TInv, TypeOK, RecordType
<1>2. << >> \in Seq(FrameType)
  BY EmptySeq
<1>3. ASSUME NEW v \in View, NEW force \in Forcing, Provide(t, v, force)
      PROVE  TInv'
  <2> DEFINE s == <<Frame(v, force)>>
  <2>1. s \in Seq(FrameType) /\ s # << >>
    <3>1. Frame(v, force) \in FrameType
      BY HandlerAssumption DEF Frame, FrameType
    <3> QED
      BY <3>1
  <2> HIDE DEF s
  <2>2. Begin(t, s, "get")
    BY <1>3 DEF Provide, s
  <2>3. /\ OnlyOf(t) /\ UNCHANGED archive
        /\ pc'[t] = "get" /\ stack'[t] = s
        /\ record'[t] = record[t] /\ outcome'[t] = outcome[t] /\ known'[t] = clientSource
    BY <2>2, BeginDoes
  <2> QED
    BY <1>1, <1>2, <2>1, <2>3, OnlyOfTypes DEF Location
<1>4. CASE GetRecord(t)
  <2>1. Begin(t, << >>, "get")
    BY <1>4 DEF GetRecord
  <2>2. /\ OnlyOf(t) /\ UNCHANGED archive
        /\ pc'[t] = "get" /\ stack'[t] = << >>
        /\ record'[t] = record[t] /\ outcome'[t] = outcome[t] /\ known'[t] = clientSource
    BY <2>1, BeginDoes
  <2> QED
    BY <1>1, <1>2, <2>1, <2>2, OnlyOfTypes DEF Location
<1>5. CASE GetRecordById(t)
  <2>1. Begin(t, << >>, "get by id")
    BY <1>5 DEF GetRecordById
  <2>2. /\ OnlyOf(t) /\ UNCHANGED archive
        /\ pc'[t] = "get by id" /\ stack'[t] = << >>
        /\ record'[t] = record[t] /\ outcome'[t] = outcome[t] /\ known'[t] = clientSource
    BY <2>1, BeginDoes
  <2> QED
    BY <1>1, <1>2, <2>1, <2>2, OnlyOfTypes DEF Location
<1>6. CASE AskArchive(t)
  BY <1>1, <1>6, AskArchiveDoes, OnlyOfTypes DEF Location
<1>7. CASE AskArchiveById(t)
  <2>1. stack[t] = << >>
    BY <1>7 DEF AskArchiveById, TInv, StacksFit
  <2> QED
    BY <1>1, <1>7, <2>1, AskArchiveByIdDoes, ThrowsTypes, OnlyOfTypes DEF Location, Throws
<1>8. CASE Clean(t)
  <2>1. RecordType(RemoveStale(record[t]))
    BY <1>1, RemoveStaleFacts
  <2>2. RecordType(Complete(RemoveStale(record[t])))
    BY <2>1, CompleteFacts
  <2> QED
    BY <1>1, <1>8, <2>2, CleanDoes, OnlyOfTypes DEF Location
<1>9. CASE CleanById(t)
  <2>1. RecordType(RemoveStale(record[t]))
    BY <1>1, RemoveStaleFacts
  <2> QED
    BY <1>1, <1>9, <2>1, CleanByIdDoes, OnlyOfTypes DEF Location
<1>10. CASE Require(t)
  <2>1. /\ OnlyOf(t) /\ UNCHANGED archive
        /\ record'[t] = record[t] /\ outcome'[t] = outcome[t] /\ known'[t] = known[t]
        /\ stack'[t] \in Seq(FrameType) /\ pc'[t] \in {"get", "require"}
    BY <1>10, RequireDoes
  <2>2. Len(stack'[t]) \in {Len(stack[t]), Len(stack[t]) + 1} /\ Len(stack[t]) \in Nat \ {0}
    BY <1>10, RequireDoes, TopFacts
  <2>3. stack'[t] # << >>
    BY <2>2, EmptySeq
  <2> QED
    BY <1>1, <2>1, <2>3, OnlyOfTypes DEF Location
<1>11. CASE Decide(t)
  <2>1. RecordType(Whitespace(record[t], OfWhitespacer))
    BY <1>1, WhitespaceFacts
  <2>2. /\ OnlyOf(t) /\ UNCHANGED archive /\ known'[t] = known[t] /\ stack[t] # << >>
        /\ record'[t] \in {record[t], Whitespace(record[t], OfWhitespacer)}
        /\ \/ pc'[t] = "annotate" /\ stack'[t] = stack[t] /\ outcome'[t] = outcome[t]
           \/ Returns(t)
    BY <1>11, DecideDoes
  <2>3. RecordType(record'[t])
    BY <1>1, <2>1, <2>2
  <2>4. CASE pc'[t] = "annotate" /\ stack'[t] = stack[t] /\ outcome'[t] = outcome[t]
    BY <1>1, <2>2, <2>3, <2>4, OnlyOfTypes DEF Location
  <2>5. CASE Returns(t)
    BY <1>1, <2>2, <2>3, <2>5, ReturnsTypes, OnlyOfTypes DEF Location
  <2> QED
    BY <2>2, <2>4, <2>5
<1>12. CASE Annotate(t)
  <2> DEFINE v == Top(t).view
             all == Range(Fields[v])
             one == {Head(Fields[v])}
  <2>1. /\ OnlyOf(t) /\ UNCHANGED archive
        /\ stack[t] # << >> /\ v \in View
        /\ known'[t] = known[t]
        /\ outcome'[t] \in {outcome[t], "failed", "unavailable"}
        /\ \/ Throws(t)
           \/ /\ pc'[t] = "store" /\ stack'[t] = stack[t]
              /\ record'[t] \in {record[t], With(record[t], all), With(record[t], one)}
    BY <1>12, AnnotateDoes
  <2>2. all \subseteq View /\ one \subseteq View
    BY <2>1, ListFacts
  <2> HIDE DEF all, one
  <2>3. RecordType(With(record[t], all)) /\ RecordType(With(record[t], one))
    BY <1>1, <2>2, WithFacts DEF TInv
  <2>4. RecordType(record'[t]) /\ stack'[t] \in Seq(FrameType)
    BY <1>1, <2>1, <2>3, ThrowsTypes
  <2>5. outcome'[t] \in {"none", "record", "failed", "unavailable", "closed"}
    BY <1>1, <2>1
  <2> HIDE DEF v
  <2> QED
    BY <1>1, <2>1, <2>4, <2>5, OnlyOfTypes DEF Location, Throws
<1>13. CASE Store(t)
  <2>1. /\ OnlyOf(t) /\ stack[t] # << >> /\ Returns(t)
        /\ record'[t] = record[t] /\ known'[t] = known[t]
        /\ archive' \in {record[t], archive}
    BY <1>13, StoreDoes
  <2> QED
    BY <1>1, <2>1, ReturnsTypes, OnlyOfTypes DEF Location
<1>14. CASE Reply(t)
  <2>1. [v \in View |-> Unknown] \in [View -> Release \cup {Unknown}]
    OBVIOUS
  <2> QED
    BY <1>1, <1>2, <1>14, <2>1, ReplyDoes, OnlyOfTypes DEF Location
<1>15. CASE ArchiveThrows(t)
  <2>1. RecordType(archive')
    BY <1>1, <1>15, ArchiveThrowsDoes
  <2> QED
    BY <1>1, <1>15, <2>1, ArchiveThrowsDoes, ThrowsTypes, OnlyOfTypes DEF Location, Throws
<1> QED
  BY <1>3, <1>4, <1>5, <1>6, <1>7, <1>8, <1>9, <1>10, <1>11, <1>12, <1>13, <1>14, <1>15
  DEF ThreadStep

LEMMA TypeStep ==
  ASSUME TInv, [Next]_vars
  PROVE  TInv'
<1>1. CASE UNCHANGED vars
  BY <1>1 DEF TInv, TypeOK, StacksFit, vars, Annotation
<1>2. ASSUME UNCHANGED whitespaced, NEW v \in View, UpdaterAsks(v)
      PROVE  TInv'
  <2>1. /\ updater' = <<v, server[v]>> /\ server[v] \in Release
        /\ UNCHANGED <<archive, server, clientSource, pc, stack, record, outcome, known>>
    BY <1>2 DEF UpdaterAsks, TInv, TypeOK
  <2>2. updater' \in View \X Release
    BY <2>1
  <2> QED
    BY <1>2, <2>1, <2>2 DEF TInv, TypeOK, StacksFit, Annotation
<1>3. ASSUME UNCHANGED whitespaced, NEW v \in View, Upgrade(v)
      PROVE  TInv'
  <2>1. /\ server' \in [View -> Release]
        /\ clientSource' \in [View -> Release \cup {Unknown}]
        /\ UNCHANGED <<archive, updater, pc, stack, record, outcome, known>>
    BY <1>3 DEF Upgrade, TInv, TypeOK
  <2> QED
    BY <1>3, <2>1 DEF TInv, TypeOK, StacksFit, Annotation
<1>4. CASE UNCHANGED whitespaced /\ UpdaterPuts
  <2>1. updater \in View \X Release
    BY <1>4 DEF UpdaterPuts, TInv, TypeOK
  <2>2. updater[2] \in Release
    BY <2>1
  <2>3. clientSource' \in [View -> Release \cup {Unknown}]
    BY <1>4, <2>2 DEF UpdaterPuts, TInv, TypeOK
  <2>4. updater' = Resting /\ UNCHANGED <<archive, server, pc, stack, record, outcome, known>>
    BY <1>4 DEF UpdaterPuts
  <2> QED
    BY <1>4, <2>3, <2>4 DEF TInv, TypeOK, StacksFit, Annotation
<1>5. CASE UNCHANGED whitespaced /\ Expire
  <2>1. /\ RecordType(archive')
        /\ UNCHANGED <<server, clientSource, updater, pc, stack, record, outcome, known>>
    BY <1>5, EmptyRecordFacts DEF Expire
  <2> QED
    BY <1>5, <2>1 DEF TInv, TypeOK, StacksFit, Annotation, RecordType
<1>6. CASE UNCHANGED whitespaced /\ Restart
  <2>1. << >> \in Seq(FrameType)
    BY EmptySeq
  <2>2. /\ stack' \in [Thread -> Seq(FrameType)]
        /\ \A t \in Thread : stack'[t] = << >> /\ pc'[t] = "idle"
    BY <1>6, <2>1 DEF Restart
  <2>3. /\ clientSource' \in [View -> Release \cup {Unknown}] /\ updater' = Resting
        /\ pc' \in [Thread -> Location]
        /\ outcome' \in [Thread -> {"none", "record", "failed", "unavailable", "closed"}]
        /\ known' \in [Thread -> [View -> Release \cup {Unknown}]]
        /\ UNCHANGED <<archive, server>>
    BY <1>6 DEF Restart, Location
  <2>4. record' = [t \in Thread |-> record'[t]] /\ \A t \in Thread : record'[t] = EmptyRecord
    BY <1>6 DEF Restart
  <2>5. \A t \in Thread : RecordType(record'[t])
    BY <2>4, EmptyRecordFacts
  <2> QED
    BY <1>6, <2>2, <2>3, <2>4, <2>5 DEF TInv, TypeOK, StacksFit, Annotation, RecordType
<1> QED
  BY <1>1, <1>2, <1>3, <1>4, <1>5, <1>6, ThreadTypes DEF Next, Step

(* Whatever the requests, the annotators, the updater and the archive do, every
   variable stays in its type. *)
THEOREM TypeCorrect == Spec => []TypeOK
<1>1. Spec => []TInv
  BY TypeInit, TypeStep, PTL DEF Spec
<1>2. TInv => TypeOK
  BY DEF TInv
<1> QED
  BY <1>1, <1>2, PTL

-----------------------------------------------------------------------------
(* Steps of a thread, and the other steps. *)

ThreadActs(t) ==
  \/ \E v \in View, force \in Forcing : Provide(t, v, force)
  \/ GetRecord(t)
  \/ GetRecordById(t)
  \/ ThreadStep(t)

LEMMA OtherThreads ==
  ASSUME TInv, NEW t \in Thread, ThreadActs(t)
  PROVE  OnlyOf(t)
<1>1. \A v, force : Provide(t, v, force) => OnlyOf(t)
  BY BeginDoes DEF Provide
<1>2. GetRecord(t) \/ GetRecordById(t) => OnlyOf(t)
  BY BeginDoes DEF GetRecord, GetRecordById
<1>3. ThreadStep(t) => OnlyOf(t)
  BY AskArchiveDoes, AskArchiveByIdDoes, CleanDoes, CleanByIdDoes, RequireDoes, DecideDoes,
     AnnotateDoes, StoreDoes, ArchiveThrowsDoes, ReplyDoes DEF ThreadStep
<1> QED
  BY <1>1, <1>2, <1>3 DEF ThreadActs

(* What thread t does leaves every other thread as it is. *)
LEMMA OnlyOfOthers ==
  ASSUME TInv, NEW t \in Thread, OnlyOf(t), NEW u \in Thread, u # t
  PROVE  /\ pc'[u] = pc[u] /\ stack'[u] = stack[u] /\ record'[u] = record[u]
         /\ outcome'[u] = outcome[u] /\ known'[u] = known[u]
BY DEF OnlyOf, TInv, TypeOK

-----------------------------------------------------------------------------
(* removeStaleFields "Removes any field that depends on the view_dependency field":
   with lists that name what is required indirectly, that one pass over the four maps
   leaves no view whose requirement it removed, in any order of the maps and whatever
   is out of date; and no step of anything else comes in between. *)
THEOREM RemovedViewsLeaveNothing ==
  ListsAreClosed /\ TokensFirst => (Spec => NothingLeftOnRemovedViews)
<1> SUFFICES ASSUME ListsAreClosed /\ TokensFirst
             PROVE  Spec => NothingLeftOnRemovedViews
  OBVIOUS
<1> DEFINE Leaves ==
      \A t \in Thread : pc[t] \in {"clean", "clean by id"} /\ pc'[t] # pc[t] =>
        \A v \in DOMAIN record'[t] :
          RequiredBy(v) \cap DOMAIN record[t] \subseteq DOMAIN record'[t]
<1>1. ASSUME TInv, [Next]_vars
      PROVE  Leaves
  <2> SUFFICES ASSUME NEW t \in Thread,
                      pc[t] \in {"clean", "clean by id"}, pc'[t] # pc[t],
                      NEW v \in DOMAIN record'[t], NEW r \in RequiredBy(v), r \in DOMAIN record[t]
               PROVE  r \in DOMAIN record'[t]
    OBVIOUS
  <2> DEFINE rec == RemoveStale(record[t])
  <2>1. RecordType(record[t])
    BY <1>1 DEF TInv, TypeOK, RecordType
  <2>2. /\ RecordType(rec) /\ DOMAIN rec \subseteq DOMAIN record[t]
        /\ v \in DOMAIN rec => r \in DOMAIN rec
    BY <2>1, RemoveStaleFacts
  <2>3. CASE Clean(t)
    <3>1. record'[t] = Whitespace(rec, OfWhitespacer \ DOMAIN rec)
      BY <1>1, <2>3, CleanDoes DEF Complete
    <3>2. DOMAIN record'[t] = DOMAIN rec \cup OfWhitespacer
      BY <2>2, <3>1, CompleteFacts DEF Complete
    <3>3. v \in OfWhitespacer => RequiredBy(v) = {}
      BY OfWhitespacerFacts DEF TokensFirst
    <3> QED
      BY <2>2, <3>2, <3>3
  <2>4. CASE CleanById(t)
    <3>1. record'[t] = rec
      BY <1>1, <2>4, CleanByIdDoes
    <3> QED
      BY <2>2, <3>1
  <2>5. ASSUME NEW u \in Thread, ThreadActs(u)
        PROVE  Clean(t) \/ CleanById(t)
    <3>1. u = t
      BY <1>1, <2>5, OtherThreads, OnlyOfOthers
    <3>2. ~(\E w \in View, force \in Forcing : Provide(t, w, force))
      BY DEF Provide, Begin
    <3>3. ~GetRecord(t) /\ ~GetRecordById(t)
      BY DEF GetRecord, GetRecordById, Begin
    <3>4. ThreadStep(t)
      BY <2>5, <3>1, <3>2, <3>3 DEF ThreadActs
    <3> QED
      BY <3>4 DEF ThreadStep, AskArchive, AskArchiveById, Require, Decide, Annotate, Store,
         ArchiveThrows, Reply
  <2>6. CASE Restart
    <3>1. record'[t] = EmptyRecord
      BY <2>6 DEF Restart
    <3> QED
      BY <3>1, EmptyRecordFacts
  <2>7. /\ \A w \in View : ~UpdaterAsks(w) /\ ~Upgrade(w)
        /\ ~UpdaterPuts /\ ~Expire /\ ~UNCHANGED vars
    BY DEF UpdaterAsks, Upgrade, UpdaterPuts, Expire, vars
  <2>8. Restart \/ \E u \in Thread : ThreadActs(u)
    BY <1>1, <2>7 DEF Next, Step, ThreadActs
  <2> QED
    BY <2>3, <2>4, <2>5, <2>6, <2>8
<1>2. Spec => []TInv
  BY TypeInit, TypeStep, PTL DEF Spec
<1>3. TInv /\ [Next]_vars => [Leaves]_vars
  BY <1>1
<1> QED
  BY <1>2, <1>3, PTL DEF Spec, NothingLeftOnRemovedViews

-----------------------------------------------------------------------------
(* What is known of the annotators, and what is not older than that. *)

(* The fields of one annotator are always of one release. *)
OneAnnotator == \A v \in View : \A u \in Range(Fields[v]) : server[u] = server[v]

(* What the Curator knows of an annotator, what the updater is about to put, and what a
   request knew when it came in, was true once. *)
KnowsThePast ==
  /\ \A v \in View : clientSource[v] <= server[v]
  /\ updater # Resting =>
       clientSource[updater[1]] <= updater[2] /\ updater[2] <= server[updater[1]]
  /\ \A t \in Thread : \A v \in View : known[t][v] <= clientSource[v]

(* A record that has been cleaned has no view older than what its request knew. *)
Cleaned(t) == pc[t] \in {"require", "annotate", "store"} \/ Given(t)

NoOlderThan(rec, k) == \A v \in DOMAIN rec : rec[v].by >= k[v]

CleanedIsFresh == \A t \in Thread : Cleaned(t) => NoOlderThan(record[t], known[t])

FreshInv == TInv /\ OneAnnotator /\ KnowsThePast /\ CleanedIsFresh

LEMMA KnownFacts ==
  ASSUME FreshInv
  PROVE  /\ \A v \in View : server[v] \in Release /\ server[v] \in Nat \ {0}
         /\ \A v \in View : clientSource[v] \in Release \cup {Unknown} /\ clientSource[v] \in Nat
         /\ \A t \in Thread : \A v \in View : known[t][v] \in Nat
         /\ \A t \in Thread : \A v \in View :
              known[t][v] <= clientSource[v] /\ known[t][v] <= server[v]
         /\ \A t \in Thread : \A v \in View : known[t][v] <= Whitespacer
<1>1. /\ \A v \in View : server[v] \in Release /\ clientSource[v] \in Release \cup {Unknown}
      /\ \A t \in Thread : \A v \in View : known[t][v] \in Release \cup {Unknown}
  BY DEF FreshInv, TInv, TypeOK
<1>2. /\ \A v \in View : server[v] \in Nat \ {0} /\ clientSource[v] \in Nat
      /\ \A t \in Thread : \A v \in View : known[t][v] \in Nat /\ known[t][v] <= Whitespacer
  <2>1. \A a \in Release : a \in Nat \ {0} /\ a <= Whitespacer
    BY ReleaseFacts
  <2>2. \A a \in Release \cup {Unknown} : a \in Nat /\ a <= Whitespacer
    BY <2>1, ReleaseFacts DEF Unknown
  <2> QED
    BY <1>1, <2>1, <2>2
<1>3. \A t \in Thread : \A v \in View :
        known[t][v] <= clientSource[v] /\ clientSource[v] <= server[v]
  BY DEF FreshInv, KnowsThePast
<1>4. \A t \in Thread : \A v \in View : known[t][v] <= server[v]
  BY <1>2, <1>3
<1> QED
  BY <1>1, <1>2, <1>3, <1>4

(* Cleaning a record: what is left is no older than what is known now. *)
LEMMA CleaningIsFresh ==
  ASSUME FreshInv, ReleasesTell, NEW t \in Thread, NEW rec, RecordType(rec)
  PROVE  /\ NoOlderThan(RemoveStale(rec), known[t])
         /\ NoOlderThan(Complete(RemoveStale(rec)), known[t])
<1> DEFINE left == RemoveStale(rec)
<1>1. /\ RecordType(left)
      /\ \A v \in DOMAIN left : left[v] = rec[v] /\ ~OutOfDate(v, rec[v])
  BY RemoveStaleFacts
<1> HIDE DEF left
<1>2. ASSUME NEW v \in DOMAIN left
      PROVE  left[v].by >= known[t][v]
  <2>1. v \in View /\ left[v].by \in Release \cup {Whitespacer} /\ ~OutOfDate(v, left[v])
    BY <1>1 DEF RecordType, Annotation, Source
  <2>2. CASE left[v].by = Whitespacer
    <3>1. known[t][v] \in Nat /\ known[t][v] <= Whitespacer
      BY <2>1, KnownFacts
    <3> QED
      BY <2>2, <3>1, ReleaseFacts
  <2>3. CASE left[v].by # Whitespacer
    <3>1. clientSource[v] # Unknown => ~Outdated(left[v].by, clientSource[v])
      BY <2>1, <2>3 DEF OutOfDate
    <3>2. left[v].by \in Release /\ left[v].by \in Nat
      BY <2>1, <2>3, ReleaseFacts
    <3>3. /\ clientSource[v] \in Release \cup {Unknown} /\ clientSource[v] \in Nat
          /\ known[t][v] \in Nat /\ known[t][v] <= clientSource[v]
      BY <2>1, KnownFacts
    <3>4. ~(left[v].by < clientSource[v])
      BY <3>1, <3>2, <3>3 DEF ReleasesTell, Unknown
    <3> QED
      BY <3>2, <3>3, <3>4
  <2> QED
    BY <2>2, <2>3
<1>3. ASSUME NEW v \in DOMAIN Complete(left)
      PROVE  Complete(left)[v].by >= known[t][v]
  <2> DEFINE views == OfWhitespacer \ DOMAIN left
  <2>1. /\ DOMAIN Complete(left) = DOMAIN left \cup views
        /\ IF v \in views THEN Complete(left)[v].by = Whitespacer
           ELSE Complete(left)[v] = left[v]
    BY <1>1, <1>3, CompleteFacts
  <2>2. CASE v \in views
    <3>1. v \in View
      BY <2>2, OfWhitespacerFacts
    <3>2. known[t][v] \in Nat /\ known[t][v] <= Whitespacer
      BY <3>1, KnownFacts
    <3> QED
      BY <2>1, <2>2, <3>2, ReleaseFacts
  <2>3. CASE v \notin views
    BY <1>2, <1>3, <2>1, <2>3
  <2> QED
    BY <2>2, <2>3
<1> QED
  BY <1>2, <1>3 DEF NoOlderThan, left

(* A step of thread t, as far as it is about t alone. *)
LEMMA OnlyOfFresh ==
  ASSUME FreshInv, NEW t \in Thread, OnlyOf(t), TInv',
         known'[t] \in {known[t], clientSource, [v \in View |-> Unknown]},
         Cleaned(t)' => NoOlderThan(record'[t], known'[t])
  PROVE  FreshInv'
<1>1. server' = server /\ clientSource' = clientSource /\ updater' = updater
  BY DEF OnlyOf
<1>2. OneAnnotator'
  BY <1>1 DEF FreshInv, OneAnnotator
<1>3. \A u \in Thread : u # t =>
        /\ pc'[u] = pc[u] /\ record'[u] = record[u]
        /\ outcome'[u] = outcome[u] /\ known'[u] = known[u]
  BY OnlyOfOthers DEF FreshInv
<1>4. ASSUME NEW v \in View
      PROVE  known'[t][v] <= clientSource[v]
  <2>1. known[t][v] <= clientSource[v] /\ clientSource[v] \in Nat
    BY KnownFacts
  <2> QED
    BY <2>1 DEF Unknown
<1>5. \A u \in Thread : \A v \in View : known'[u][v] <= clientSource[v]
  BY <1>3, <1>4 DEF FreshInv, KnowsThePast
<1>6. KnowsThePast'
  BY <1>1, <1>5 DEF FreshInv, KnowsThePast
<1>7. CleanedIsFresh'
  <2> SUFFICES ASSUME NEW u \in Thread, Cleaned(u)'
               PROVE  NoOlderThan(record[u], known[u])'
    BY DEF CleanedIsFresh
  <2>1. CASE u = t
    BY <2>1 DEF NoOlderThan
  <2>2. CASE u # t
    <3>1. Cleaned(u)
      BY <1>3, <2>2 DEF Cleaned, Given
    <3> QED
      BY <1>3, <2>2, <3>1 DEF FreshInv, CleanedIsFresh, NoOlderThan
  <2> QED
    BY <2>1, <2>2
<1> QED
  BY <1>2, <1>6, <1>7 DEF FreshInv

LEMMA FreshThreadStep ==
  ASSUME FreshInv, ReleasesTell, TInv', NEW t \in Thread, ThreadActs(t)
  PROVE  FreshInv'
<1>0. TInv /\ OnlyOf(t)
  BY OtherThreads DEF FreshInv
<1>1. RecordType(record[t]) /\ (Cleaned(t) => NoOlderThan(record[t], known[t]))
  BY <1>0 DEF TInv, TypeOK, RecordType, FreshInv, CleanedIsFresh
<1>2. ASSUME NEW v, NEW force, Provide(t, v, force)
      PROVE  FreshInv'
  <2>1. known'[t] = clientSource /\ pc'[t] = "get"
    BY <1>0, <1>2, BeginDoes DEF Provide
  <2> QED
    BY <1>0, <2>1, OnlyOfFresh DEF Cleaned, Given
<1>3. CASE GetRecord(t) \/ GetRecordById(t)
  <2>1. known'[t] = clientSource /\ pc'[t] \in {"get", "get by id"}
    BY <1>0, <1>3, BeginDoes DEF GetRecord, GetRecordById
  <2> QED
    BY <1>0, <2>1, OnlyOfFresh DEF Cleaned, Given
<1>4. CASE AskArchive(t)
  <2>1. known'[t] = known[t] /\ pc'[t] = "clean"
    BY <1>0, <1>4, AskArchiveDoes
  <2> QED
    BY <1>0, <2>1, OnlyOfFresh DEF Cleaned, Given
<1>5. CASE AskArchiveById(t)
  <2>1. known'[t] = known[t] /\ (pc'[t] = "clean by id" \/ (pc'[t] = "done" /\ outcome'[t] = "failed"))
    BY <1>0, <1>5, AskArchiveByIdDoes DEF Throws
  <2> QED
    BY <1>0, <2>1, OnlyOfFresh DEF Cleaned, Given
<1>6. CASE Clean(t)
  <2>1. known'[t] = known[t] /\ record'[t] = Complete(RemoveStale(record[t]))
    BY <1>0, <1>6, CleanDoes
  <2>2. NoOlderThan(record'[t], known'[t])
    BY <1>1, <2>1, CleaningIsFresh
  <2> QED
    BY <1>0, <2>1, <2>2, OnlyOfFresh
<1>7. CASE CleanById(t)
  <2>1. known'[t] = known[t] /\ record'[t] = RemoveStale(record[t])
    BY <1>0, <1>7, CleanByIdDoes
  <2>2. NoOlderThan(record'[t], known'[t])
    BY <1>1, <2>1, CleaningIsFresh
  <2> QED
    BY <1>0, <2>1, <2>2, OnlyOfFresh
<1>8. CASE Require(t)
  <2>1. known'[t] = known[t] /\ record'[t] = record[t] /\ pc[t] = "require"
    BY <1>0, <1>8, RequireDoes
  <2>2. NoOlderThan(record'[t], known'[t])
    BY <1>1, <2>1 DEF Cleaned
  <2> QED
    BY <1>0, <2>1, <2>2, OnlyOfFresh
<1>9. CASE Decide(t)
  <2>1. /\ known'[t] = known[t] /\ pc[t] = "require"
        /\ record'[t] \in {record[t], Whitespace(record[t], OfWhitespacer)}
    BY <1>0, <1>9, DecideDoes
  <2>2. NoOlderThan(record[t], known[t])
    BY <1>1, <2>1 DEF Cleaned
  <2>3. NoOlderThan(Whitespace(record[t], OfWhitespacer), known[t])
    <3>1. /\ DOMAIN Whitespace(record[t], OfWhitespacer) = DOMAIN record[t] \cup OfWhitespacer
          /\ \A v \in DOMAIN record[t] \cup OfWhitespacer :
               IF v \in OfWhitespacer THEN Whitespace(record[t], OfWhitespacer)[v].by = Whitespacer
               ELSE Whitespace(record[t], OfWhitespacer)[v] = record[t][v]
      BY <1>1, WhitespaceFacts
    <3>2. \A v \in OfWhitespacer : known[t][v] \in Nat /\ Whitespacer >= known[t][v]
      BY OfWhitespacerFacts, KnownFacts, ReleaseFacts
    <3> QED
      BY <2>2, <3>1, <3>2 DEF NoOlderThan
  <2>4. NoOlderThan(record'[t], known'[t])
    BY <2>1, <2>2, <2>3
  <2> QED
    BY <1>0, <2>1, <2>4, OnlyOfFresh
<1>10. CASE Annotate(t)
  <2> DEFINE v == Top(t).view
             all == Range(Fields[v])
             one == {Head(Fields[v])}
  <2>1. /\ known'[t] = known[t] /\ pc[t] = "annotate" /\ v \in View
        /\ record'[t] \in {EmptyRecord, record[t], With(record[t], all), With(record[t], one)}
    BY <1>0, <1>10, AnnotateDoes DEF Throws
  <2>2. NoOlderThan(record[t], known[t])
    BY <1>1, <2>1 DEF Cleaned
  <2>3. ASSUME NEW fs, fs \subseteq View
        PROVE  NoOlderThan(With(record[t], fs), known[t])
    <3>1. /\ DOMAIN With(record[t], fs) = DOMAIN record[t] \cup fs
          /\ \A u \in DOMAIN record[t] \cup fs :
               IF u \in fs THEN With(record[t], fs)[u].by = server[u]
               ELSE With(record[t], fs)[u] = record[t][u]
      BY <1>0, <1>1, <2>3, WithFacts DEF TInv
    <3>2. \A u \in fs : server[u] >= known[t][u]
      BY <2>3, KnownFacts
    <3> QED
      BY <2>2, <3>1, <3>2 DEF NoOlderThan
  <2>4. all \subseteq View /\ one \subseteq View
    BY <2>1, ListFacts
  <2> HIDE DEF all, one
  <2>5. NoOlderThan(With(record[t], all), known[t]) /\ NoOlderThan(With(record[t], one), known[t])
    BY <2>3, <2>4
  <2>6. NoOlderThan(EmptyRecord, known[t])
    BY DEF NoOlderThan, EmptyRecord
  <2>7. NoOlderThan(record'[t], known'[t])
    BY <2>1, <2>2, <2>5, <2>6
  <2> QED
    BY <1>0, <2>1, <2>7, OnlyOfFresh
<1>11. CASE Store(t)
  <2>1. known'[t] = known[t] /\ record'[t] = record[t] /\ pc[t] = "store"
    BY <1>0, <1>11, StoreDoes
  <2>2. NoOlderThan(record'[t], known'[t])
    BY <1>1, <2>1 DEF Cleaned
  <2> QED
    BY <1>0, <2>1, <2>2, OnlyOfFresh
<1>12. CASE Reply(t)
  <2>1. known'[t] = [v \in View |-> Unknown] /\ pc'[t] = "idle"
    BY <1>0, <1>12, ReplyDoes
  <2> QED
    BY <1>0, <2>1, OnlyOfFresh DEF Cleaned, Given
<1>13. CASE ArchiveThrows(t)
  <2>1. known'[t] = known[t] /\ pc'[t] = "done" /\ outcome'[t] = "closed"
    BY <1>0, <1>13, ArchiveThrowsDoes DEF Throws
  <2> QED
    BY <1>0, <2>1, OnlyOfFresh DEF Cleaned, Given
<1> QED
  BY <1>2, <1>3, <1>4, <1>5, <1>6, <1>7, <1>8, <1>9, <1>10, <1>11, <1>12, <1>13
  DEF ThreadActs, ThreadStep

(* Steps of the updater and of the annotators' operators: knowledge and releases only grow. *)
LEMMA FreshOtherStep ==
  ASSUME FreshInv, TInv', UNCHANGED whitespaced,
         \/ \E v \in View : UpdaterAsks(v) \/ Upgrade(v)
         \/ UpdaterPuts \/ Expire \/ Restart \/ UNCHANGED vars
  PROVE  FreshInv'
<1>0. /\ OneAnnotator /\ KnowsThePast /\ CleanedIsFresh /\ TInv
      /\ \A v \in View : server[v] \in Nat \ {0}
      /\ \A v \in View : clientSource[v] \in Nat
      /\ \A t \in Thread : \A v \in View : known[t][v] \in Nat
  BY KnownFacts DEF FreshInv
<1>1. ASSUME UNCHANGED <<pc, record, outcome, known>>
      PROVE  CleanedIsFresh'
  BY <1>0, <1>1 DEF CleanedIsFresh, Cleaned, Given, NoOlderThan
<1>2. ASSUME NEW v \in View, UpdaterAsks(v)
      PROVE  FreshInv'
  <2>1. /\ updater' = <<v, server[v]>>
        /\ UNCHANGED <<server, clientSource, pc, record, outcome, known>>
    BY <1>2 DEF UpdaterAsks
  <2>2. clientSource'[updater'[1]] <= updater'[2] /\ updater'[2] <= server'[updater'[1]]
    BY <1>0, <2>1 DEF KnowsThePast
  <2> QED
    BY <1>0, <1>1, <2>1, <2>2 DEF FreshInv, OneAnnotator, KnowsThePast
<1>3. ASSUME NEW v \in View, Upgrade(v)
      PROVE  FreshInv'
  <2> DEFINE fs == Range(Fields[v])
             next == server[v] + 1
  <2>1. /\ server' = [u \in View |-> IF u \in fs THEN next ELSE server[u]]
        /\ UNCHANGED <<updater, pc, record, outcome, known>>
        /\ \/ clientSource' = clientSource
           \/ /\ updater = Resting
              /\ clientSource' = [u \in View |-> IF u \in fs THEN next ELSE clientSource[u]]
    BY <1>3 DEF Upgrade, Quiet
  <2>2. \A u \in View : u \in fs <=> Range(Fields[u]) = fs
    BY ListFacts, HandlerAssumption
  <2>3. \A u \in fs : u \in View /\ server[u] = server[v]
    BY <1>0, ListFacts DEF OneAnnotator
  <2>4. fs \subseteq View /\ \A u \in View : Range(Fields[u]) \subseteq View
    BY ListFacts
  <2> HIDE DEF fs
  <2>5. \A u \in View : \A w \in Range(Fields[u]) : w \in fs <=> u \in fs
    BY <2>2, <2>4, HandlerAssumption
  <2>6. OneAnnotator'
    BY <1>0, <2>1, <2>4, <2>5 DEF OneAnnotator
  <2>7. \A u \in View : server[u] <= server'[u]
    BY <1>0, <2>1, <2>3
  <2>8. \A u \in View : clientSource[u] <= clientSource'[u] /\ clientSource'[u] <= server'[u]
    <3> SUFFICES ASSUME NEW u \in View
                 PROVE  clientSource[u] <= clientSource'[u] /\ clientSource'[u] <= server'[u]
      OBVIOUS
    <3>1. clientSource[u] \in Nat /\ server[u] \in Nat /\ server'[u] \in Nat
          /\ clientSource[u] <= server[u] /\ server[u] <= server'[u]
      BY <1>0, <2>1, <2>3, <2>7 DEF KnowsThePast
    <3>2. CASE clientSource' = clientSource
      BY <3>1, <3>2
    <3>3. CASE clientSource' = [w \in View |-> IF w \in fs THEN next ELSE clientSource[w]]
      <4>1. u \in fs => clientSource'[u] = next /\ server'[u] = next
        BY <2>1, <3>3
      <4>2. u \notin fs => clientSource'[u] = clientSource[u]
        BY <3>3
      <4> QED
        BY <3>1, <4>1, <4>2
    <3> QED
      BY <2>1, <3>2, <3>3
  <2>9. ASSUME NEW t \in Thread, NEW u \in View
        PROVE  known'[t][u] <= clientSource'[u]
    <3>1. known[t][u] \in Nat /\ clientSource[u] \in Nat /\ clientSource'[u] \in Nat
      BY <1>0, <2>1, <2>3
    <3>2. known[t][u] <= clientSource[u] /\ known'[t][u] = known[t][u]
      BY <1>0, <2>1 DEF KnowsThePast
    <3> QED
      BY <2>8, <3>1, <3>2
  <2>10. ASSUME updater' # Resting
         PROVE  clientSource'[updater'[1]] <= updater'[2] /\ updater'[2] <= server'[updater'[1]]
    <3>1. updater' = updater /\ clientSource' = clientSource
      BY <2>1, <2>10
    <3>2. updater \in View \X Release
      BY <1>0, <2>10, <3>1 DEF TInv, TypeOK
    <3>3. updater[1] \in View /\ updater[2] \in Nat
      BY <3>2, ReleaseFacts
    <3>4. /\ clientSource[updater[1]] <= updater[2] /\ updater[2] <= server[updater[1]]
          /\ server[updater[1]] \in Nat /\ server'[updater[1]] \in Nat
      BY <1>0, <2>1, <2>3, <2>10, <3>1, <3>3 DEF KnowsThePast
    <3> QED
      BY <2>7, <3>1, <3>3, <3>4
  <2>11. KnowsThePast'
    BY <2>8, <2>9, <2>10 DEF KnowsThePast
  <2> QED
    BY <1>1, <2>1, <2>6, <2>11 DEF FreshInv
<1>4. CASE UpdaterPuts
  <2>1. /\ updater # Resting /\ updater' = Resting
        /\ clientSource' = [clientSource EXCEPT ![updater[1]] = updater[2]]
        /\ UNCHANGED <<server, pc, record, outcome, known>>
    BY <1>4 DEF UpdaterPuts
  <2>2. updater \in View \X Release
    BY <1>0, <2>1 DEF TInv, TypeOK
  <2>3. updater[1] \in View /\ updater[2] \in Nat
    BY <2>2, ReleaseFacts
  <2>4. clientSource[updater[1]] <= updater[2] /\ updater[2] <= server[updater[1]]
    BY <1>0, <2>1 DEF KnowsThePast
  <2>5. \A u \in View : clientSource'[u] = IF u = updater[1] THEN updater[2] ELSE clientSource[u]
    BY <1>0, <2>1, <2>3 DEF TInv, TypeOK
  <2>6. \A u \in View : clientSource'[u] <= server[u] /\ clientSource[u] <= clientSource'[u]
    BY <1>0, <2>3, <2>4, <2>5 DEF KnowsThePast
  <2>7. ASSUME NEW t \in Thread, NEW u \in View
        PROVE  known[t][u] <= clientSource'[u]
    <3>1. known[t][u] \in Nat /\ clientSource[u] \in Nat /\ clientSource'[u] \in Nat
      BY <1>0, <2>3, <2>5
    <3>2. known[t][u] <= clientSource[u]
      BY <1>0 DEF KnowsThePast
    <3> QED
      BY <2>6, <3>1, <3>2
  <2>8. KnowsThePast'
    BY <2>1, <2>6, <2>7 DEF KnowsThePast
  <2> QED
    BY <1>0, <1>1, <2>1, <2>8 DEF FreshInv, OneAnnotator
<1>5. CASE Expire \/ UNCHANGED vars
  <2>1. UNCHANGED <<server, clientSource, updater, pc, record, outcome, known>>
    BY <1>5 DEF Expire, vars
  <2> QED
    BY <1>0, <1>1, <2>1 DEF FreshInv, OneAnnotator, KnowsThePast
<1>6. CASE Restart
  <2>1. /\ updater' = Resting /\ server' = server
        /\ \A v \in View : clientSource'[v] = 0
        /\ \A t \in Thread : pc'[t] = "idle" /\ \A v \in View : known'[t][v] = 0
    BY <1>6 DEF Restart, Unknown
  <2>2. KnowsThePast'
    <3>1. \A v \in View : clientSource'[v] <= server'[v]
      BY <1>0, <2>1
    <3>2. \A t \in Thread : \A v \in View : known'[t][v] <= clientSource'[v]
      BY <2>1
    <3> QED
      BY <2>1, <3>1, <3>2 DEF KnowsThePast
  <2>3. CleanedIsFresh'
    BY <2>1 DEF CleanedIsFresh, Cleaned, Given
  <2> QED
    BY <1>0, <2>1, <2>2, <2>3 DEF FreshInv, OneAnnotator
<1> QED
  BY <1>2, <1>3, <1>4, <1>5, <1>6

LEMMA FreshAtFirst == Init => FreshInv
<1> SUFFICES ASSUME Init PROVE FreshInv
  OBVIOUS
<1>1. /\ updater = Resting
      /\ \A v \in View : clientSource[v] = 0 /\ server[v] = 1
      /\ \A t \in Thread : pc[t] = "idle" /\ \A v \in View : known[t][v] = 0
  BY DEF Init, Unknown
<1>2. \A v \in View : Range(Fields[v]) \subseteq View
  BY ListFacts
<1>3. OneAnnotator /\ KnowsThePast
  BY <1>1, <1>2 DEF OneAnnotator, KnowsThePast, Init
<1>4. CleanedIsFresh
  BY <1>1 DEF CleanedIsFresh, Cleaned, Given
<1> QED
  BY <1>3, <1>4, TypeInit DEF FreshInv

LEMMA FreshNext == ReleasesTell /\ FreshInv /\ [Next]_vars => FreshInv'
<1> SUFFICES ASSUME ReleasesTell, FreshInv, [Next]_vars PROVE FreshInv'
  OBVIOUS
<1>1. TInv'
  BY TypeStep DEF FreshInv
<1>2. \/ \E t \in Thread : ThreadActs(t)
      \/ /\ UNCHANGED whitespaced
         /\ \/ \E v \in View : UpdaterAsks(v) \/ Upgrade(v)
            \/ UpdaterPuts \/ Expire \/ Restart \/ UNCHANGED vars
  BY DEF Next, Step, ThreadActs, vars
<1> QED
  BY <1>1, <1>2, FreshThreadStep, FreshOtherStep

(* Whatever other requests store in the record meanwhile, whatever is removed or lost by
   a restart, and whenever the updater comes by or annotators are replaced: a record that
   is handed out has no view of a release the Curator knew to be outdated when the
   request came in.  It needs only that a later release can be told from an earlier one. *)
THEOREM NothingStale == ReleasesTell => (Spec => []NothingStaleServed)
<1> SUFFICES ASSUME ReleasesTell PROVE Spec => []NothingStaleServed
  OBVIOUS
<1>1. FreshInv => NothingStaleServed
  BY DEF FreshInv, CleanedIsFresh, Cleaned, NoOlderThan, NothingStaleServed
<1> QED
  BY <1>1, FreshAtFirst, FreshNext, PTL DEF Spec

-----------------------------------------------------------------------------
(* One request at a time, an archive and annotators that do what they are asked for or
   say so, and annotators that are replaced only between requests.  (With two requests
   at a time these properties do not hold: a requirement that was there is gone when
   the other request stores the record without it.) *)
Alone ==
  /\ \A t, u \in Thread : t = u
  /\ ~ArchiveFails /\ ~Expires /\ ~Restarts
  /\ Replies \subseteq {"all", "failed", "unavailable"}
  /\ Upgrades # "anytime"
  /\ ReleasesTell /\ ListsAreClosed /\ TokensFirst

(* The Curator knows the present release of an annotator, or none while it is the first. *)
KnowsThePresent ==
  /\ \A v \in View : clientSource[v] = server[v] \/ (clientSource[v] = Unknown /\ server[v] = 1)
  /\ updater # Resting => updater[2] = server[updater[1]]

(* The source a view would have if it were made now. *)
Current(v) == IF v \in OfWhitespacer THEN Whitespacer ELSE server[v]

UpToDate(rec) == \A v \in DOMAIN rec : rec[v].by = Current(v)

(* A view is there with all it requires, and was made from that. *)
Whole(rec) ==
  /\ \A v \in DOMAIN rec : RequiredBy(v) \subseteq DOMAIN rec
  /\ MadeFromWhatIsThere(rec)

ArchiveIsWhole ==
  /\ Whole(archive)
  /\ \A v \in DOMAIN archive :
       IF v \in OfWhitespacer THEN archive[v].by = Whitespacer ELSE archive[v].by <= server[v]

(* The views getRecord would return now. *)
Usable ==
  OfWhitespacer \cup
  {v \in DOMAIN archive : /\ archive[v].by = Current(v)
                          /\ \A r \in RequiredBy(v) : archive[r].by = Current(r)}

RecordFits(t) ==
  /\ pc[t] \in {"clean", "clean by id"} => record[t] = archive
  /\ Cleaned(t) => UpToDate(record[t]) /\ Whole(record[t])
  /\ pc[t] \in {"require", "annotate"} => DOMAIN record[t] = Usable
  /\ pc[t] = "store" => DOMAIN record[t] = Usable \cup Range(Fields[Top(t).view])
  /\ Given(t) /\ Asked(t) => Top(t).view \in DOMAIN record[t]

(* Every call of provide() on the stack has got its first requirements, up to the one
   that the next call on the stack is providing. *)
FramesFit(s, there) ==
  \A i \in 1 .. Len(s) :
    /\ \A j \in 1 .. Len(Requires[s[i].view]) :
         (j < s[i].next /\ (i > 1 => j # s[i].next - 1)) => Requires[s[i].view][j] \in there
    /\ i > 1 => /\ s[i].next - 1 \in 1 .. Len(Requires[s[i].view])
               /\ Requires[s[i].view][s[i].next - 1] = s[i - 1].view

Serving == {"get", "clean", "require", "annotate", "store"}

ThreadInv(t) ==
  /\ RecordFits(t)
  /\ pc[t] \in Serving => FramesFit(stack[t], Usable)
  /\ pc[t] \in {"annotate", "store"} => ~MoreRequirements(t) /\ Top(t).view \notin OfWhitespacer

AloneInv ==
  FreshInv /\ KnowsThePresent /\ ArchiveIsWhole /\ \A t \in Thread : ThreadInv(t)

(* Being out of date is not being of the present release: no more and no less. *)
LEMMA OutOfDateMeans ==
  ASSUME Alone, AloneInv, NEW v \in DOMAIN archive
  PROVE  v \in View /\ (~OutOfDate(v, archive[v]) <=> archive[v].by = Current(v))
<1>1. v \in View /\ archive[v].by \in Release \cup {Whitespacer}
  BY DEF AloneInv, FreshInv, TInv, TypeOK, Annotation, Source
<1>2. CASE v \in OfWhitespacer
  BY <1>1, <1>2 DEF OutOfDate, Current
<1>3. CASE v \notin OfWhitespacer
  <2> DEFINE by == archive[v].by
  <2>1. /\ server[v] \in Release /\ server[v] \in Nat \ {0}
        /\ by <= server[v]
        /\ clientSource[v] = server[v] \/ (clientSource[v] = Unknown /\ server[v] = 1)
    BY <1>1, <1>3, KnownFacts DEF AloneInv, KnowsThePresent, ArchiveIsWhole
  <2> HIDE DEF by
  <2>2. by \in Release /\ by \in Nat \ {0} /\ by # Whitespacer
    <3>1. server[v] < Whitespacer /\ Whitespacer \in Nat
      BY <2>1, ReleaseFacts
    <3>2. ~(Whitespacer <= server[v])
      BY <2>1, <3>1
    <3>3. by # Whitespacer
      BY <2>1, <3>2
    <3>4. by \in Release
      BY <1>1, <3>3 DEF by
    <3> QED
      BY <3>3, <3>4, ReleaseFacts
  <2>3. ~OutOfDate(v, archive[v]) <=>
          clientSource[v] = Unknown \/ ~Outdated(by, clientSource[v])
    BY <1>3 DEF OutOfDate, by
  <2>4. CASE clientSource[v] = Unknown /\ server[v] = 1
    BY <1>1, <1>3, <2>1, <2>2, <2>3, <2>4 DEF Current, by
  <2>5. CASE clientSource[v] = server[v]
    <3>1. clientSource[v] # Unknown
      BY <2>1, <2>5 DEF Unknown
    <3>2. by < server[v] => Outdated(by, server[v])
      BY <2>1, <2>2 DEF Alone, ReleasesTell
    <3>3. by = server[v] => ~Outdated(by, server[v])
      BY <2>2 DEF Outdated
    <3>4. by < server[v] \/ by = server[v]
      BY <2>1, <2>2
    <3>5. by < server[v] => by # server[v]
      BY <2>1, <2>2
    <3> QED
      BY <1>1, <1>3, <2>3, <2>5, <3>1, <3>2, <3>3, <3>4, <3>5 DEF Current, by
  <2> QED
    BY <2>1, <2>4, <2>5
<1> QED
  BY <1>2, <1>3

(* What getRecord and getRecordById make of what is stored. *)
LEMMA CleaningTheArchive ==
  ASSUME Alone, AloneInv
  PROVE  LET left == RemoveStale(archive) IN
         /\ UpToDate(left) /\ Whole(left)
         /\ DOMAIN Complete(left) = Usable
         /\ UpToDate(Complete(left)) /\ Whole(Complete(left))
<1> DEFINE left == RemoveStale(archive)
<1>1. RecordType(archive) /\ Whole(archive)
  BY DEF AloneInv, FreshInv, TInv, TypeOK, RecordType, ArchiveIsWhole
<1>2. /\ RecordType(left) /\ DOMAIN left \subseteq DOMAIN archive
      /\ \A v \in DOMAIN left : left[v] = archive[v] /\ ~OutOfDate(v, archive[v])
      /\ \A v \in DOMAIN archive :
           /\ ~OutOfDate(v, archive[v])
           /\ \A r \in RequiredBy(v) : r \in DOMAIN archive => ~OutOfDate(r, archive[r])
           => v \in DOMAIN left
      /\ \A v \in DOMAIN left : \A r \in RequiredBy(v) : r \in DOMAIN archive => r \in DOMAIN left
  BY <1>1, RemoveStaleFacts DEF Alone
<1> HIDE DEF left
<1>3. UpToDate(left)
  BY <1>2, OutOfDateMeans DEF UpToDate
<1>4. \A v \in DOMAIN left : RequiredBy(v) \subseteq DOMAIN left
  BY <1>1, <1>2 DEF Whole
<1>5. MadeFromWhatIsThere(left)
  BY <1>1, <1>2 DEF Whole, MadeFromWhatIsThere
<1>6. Whole(left)
  BY <1>4, <1>5 DEF Whole
<1>7. Usable = DOMAIN left \cup OfWhitespacer
  <2>1. ASSUME NEW v \in DOMAIN left
        PROVE  v \in Usable
    <3>1. v \in DOMAIN archive /\ archive[v].by = Current(v)
      BY <1>2, OutOfDateMeans
    <3>2. \A r \in RequiredBy(v) : archive[r].by = Current(r)
      BY <1>2, <1>4, OutOfDateMeans
    <3> QED
      BY <3>1, <3>2 DEF Usable
  <2>2. ASSUME NEW v \in DOMAIN archive, archive[v].by = Current(v),
               \A r \in RequiredBy(v) : archive[r].by = Current(r)
        PROVE  v \in DOMAIN left
    BY <1>2, <2>2, OutOfDateMeans
  <2> QED
    BY <2>1, <2>2 DEF Usable
<1>8. /\ DOMAIN Complete(left) = DOMAIN left \cup OfWhitespacer
      /\ \A v \in DOMAIN left \cup OfWhitespacer :
              IF v \in DOMAIN left THEN Complete(left)[v] = left[v]
              ELSE Complete(left)[v].by = Whitespacer
  BY <1>2, CompleteFacts
<1>9. UpToDate(Complete(left))
  BY <1>3, <1>8 DEF UpToDate, Current
<1>10. \A v \in OfWhitespacer : RequiredBy(v) = {}
  BY OfWhitespacerFacts DEF Alone, TokensFirst
<1>11. Whole(Complete(left))
  <2>1. \A v \in DOMAIN left \cup OfWhitespacer : RequiredBy(v) \subseteq DOMAIN left
    BY <1>4, <1>10
  <2>2. ASSUME NEW v \in DOMAIN left \cup OfWhitespacer, NEW r \in RequiredBy(v)
        PROVE  Complete(left)[v].from[r] = Complete(left)[r].by
    <3>1. v \in DOMAIN left /\ r \in DOMAIN left
      BY <1>10, <2>1, <2>2
    <3> QED
      BY <1>5, <1>8, <3>1 DEF MadeFromWhatIsThere
  <2> QED
    BY <1>8, <2>1, <2>2 DEF Whole, MadeFromWhatIsThere
<1> QED
  BY <1>3, <1>6, <1>7, <1>8, <1>9, <1>11 DEF left

(* What the Whitespacer makes of a record that has its views already. *)
LEMMA WhitespacingAgain ==
  ASSUME Alone, NEW rec, RecordType(rec), UpToDate(rec), Whole(rec), OfWhitespacer \subseteq DOMAIN rec
  PROVE  LET new == Whitespace(rec, OfWhitespacer) IN
         DOMAIN new = DOMAIN rec /\ UpToDate(new) /\ Whole(new)
<1> DEFINE new == Whitespace(rec, OfWhitespacer)
<1>1. /\ DOMAIN new = DOMAIN rec \cup OfWhitespacer
      /\ \A v \in DOMAIN rec \cup OfWhitespacer :
           IF v \in OfWhitespacer THEN new[v].by = Whitespacer ELSE new[v] = rec[v]
  BY WhitespaceFacts
<1> HIDE DEF new
<1>2. DOMAIN new = DOMAIN rec
  BY <1>1
<1>3. \A v \in DOMAIN rec : new[v].by = rec[v].by /\ new[v].by = Current(v)
  BY <1>1 DEF UpToDate, Current
<1>4. \A v \in OfWhitespacer : RequiredBy(v) = {}
  BY OfWhitespacerFacts DEF Alone, TokensFirst
<1>5. ASSUME NEW v \in DOMAIN new, NEW r \in RequiredBy(v)
      PROVE  r \in DOMAIN new /\ new[v].from[r] = new[r].by
  <2>1. v \in DOMAIN rec /\ new[v] = rec[v]
    BY <1>1, <1>2, <1>4, <1>5
  <2>2. r \in DOMAIN rec /\ rec[v].from[r] = rec[r].by
    BY <1>5, <2>1 DEF Whole, MadeFromWhatIsThere
  <2> QED
    BY <1>2, <1>3, <2>1, <2>2
<1> QED
  BY <1>2, <1>3, <1>5 DEF new, UpToDate, Whole, MadeFromWhatIsThere

(* What an annotator makes of a record that has all it requires. *)
LEMMA AnnotatingWhole ==
  ASSUME Alone, AloneInv, NEW rec, RecordType(rec), UpToDate(rec), Whole(rec),
         NEW v \in View, v \notin OfWhitespacer, RequiredBy(v) \subseteq DOMAIN rec
  PROVE  LET new == With(rec, Range(Fields[v])) IN
         DOMAIN new = DOMAIN rec \cup Range(Fields[v]) /\ UpToDate(new) /\ Whole(new)
<1> DEFINE fs == Range(Fields[v])
           new == With(rec, fs)
<1>1. /\ fs \subseteq View /\ v \in fs
      /\ \A u \in fs : RequiredBy(u) = RequiredBy(v)
  BY ListFacts, HandlerAssumption DEF RequiredBy
<1>2. RequiredBy(v) \cap fs = {} /\ fs \cap OfWhitespacer = {}
  <2>1. RequiredBy(v) \cap fs = {}
    BY DEF Alone, ListsAreClosed
  <2>2. v \in {"sentences", "tokens"} => OfWhitespacer = {}
    BY DEF OfWhitespacer
  <2>3. v \notin {"sentences", "tokens"} => fs \cap {"sentences", "tokens"} = {}
    BY DEF Alone, TokensFirst
  <2> QED
    BY <2>1, <2>2, <2>3, OfWhitespacerFacts
<1> HIDE DEF fs
<1>3. /\ DOMAIN new = DOMAIN rec \cup fs
      /\ \A u \in DOMAIN rec \cup fs :
           IF u \in fs
           THEN /\ new[u].by = server[u]
                /\ \A r \in RequiredBy(u) : new[u].from[r] =
                     IF r \in DOMAIN rec THEN rec[r].by ELSE Missing
           ELSE new[u] = rec[u]
  BY <1>1, WithFacts DEF AloneInv, FreshInv, TInv
<1> HIDE DEF new
<1>4. \A u \in DOMAIN new : new[u].by = Current(u)
  BY <1>2, <1>3 DEF UpToDate, Current
<1>5. \A u \in DOMAIN rec : new[u].by = rec[u].by
  BY <1>3, <1>4 DEF UpToDate
<1>6. ASSUME NEW u \in DOMAIN new, NEW r \in RequiredBy(u)
      PROVE  r \in DOMAIN rec /\ new[u].from[r] = rec[r].by
  <2>1. CASE u \in fs
    <3>1. r \in DOMAIN rec
      BY <1>1, <1>6, <2>1
    <3> QED
      BY <1>3, <1>6, <2>1, <3>1
  <2>2. CASE u \notin fs
    <3>1. u \in DOMAIN rec /\ new[u] = rec[u]
      BY <1>3, <1>6, <2>2
    <3> QED
      BY <1>6, <3>1 DEF Whole, MadeFromWhatIsThere
  <2> QED
    BY <2>1, <2>2
<1>7. UpToDate(new)
  BY <1>4 DEF UpToDate
<1>8. Whole(new)
  BY <1>3, <1>5, <1>6 DEF Whole, MadeFromWhatIsThere
<1> QED
  BY <1>3, <1>7, <1>8 DEF new, fs

(* The stack of calls. *)
LEMMA FramesFitTail ==
  ASSUME NEW s \in Seq(FrameType), s # << >>, NEW there,
         FramesFit(s, there), s[1].view \in there
  PROVE  FramesFit(Tail(s), there)
<1>1. /\ Len(s) \in Nat \ {0} /\ Tail(s) \in Seq(FrameType) /\ Len(Tail(s)) = Len(s) - 1
      /\ \A i \in 1 .. Len(s) - 1 : Tail(s)[i] = s[i + 1]
  BY StackFacts
<1> DEFINE tail == Tail(s)
<1> HIDE DEF tail
<1>2. ASSUME NEW i \in 1 .. Len(tail)
      PROVE  /\ \A j \in 1 .. Len(Requires[tail[i].view]) :
                   (j < tail[i].next /\ (i > 1 => j # tail[i].next - 1)) => Requires[tail[i].view][j] \in there
             /\ i > 1 => /\ tail[i].next - 1 \in 1 .. Len(Requires[tail[i].view])
                         /\ Requires[tail[i].view][tail[i].next - 1] = tail[i - 1].view
  <2>1. i \in 1 .. Len(s) - 1 /\ i + 1 \in 1 .. Len(s) /\ i + 1 > 1 /\ (i + 1) - 1 = i
    BY <1>1 DEF tail
  <2>2. tail[i] = s[i + 1] /\ s[i + 1] \in FrameType
    BY <1>1, <2>1, StackFacts DEF tail
  <2>3. /\ \A j \in 1 .. Len(Requires[s[i + 1].view]) :
             (j < s[i + 1].next /\ j # s[i + 1].next - 1) => Requires[s[i + 1].view][j] \in there
        /\ s[i + 1].next - 1 \in 1 .. Len(Requires[s[i + 1].view])
        /\ Requires[s[i + 1].view][s[i + 1].next - 1] = s[i].view
    BY <2>1 DEF FramesFit
  <2>4. CASE i = 1
    <3>1. Requires[s[i + 1].view][s[i + 1].next - 1] \in there
      BY <2>3, <2>4
    <3>2. \A j \in 1 .. Len(Requires[s[i + 1].view]) :
             j < s[i + 1].next => Requires[s[i + 1].view][j] \in there
      BY <2>3, <3>1
    <3> QED
      BY <2>2, <2>4, <3>2
  <2>5. CASE i > 1
    <3>1. tail[i - 1] = s[i]
      BY <1>1, <2>1, <2>5 DEF tail
    <3> QED
      BY <2>2, <2>3, <2>5, <3>1
  <2> QED
    BY <2>4, <2>5
<1> QED
  BY <1>2 DEF FramesFit, tail

LEMMA FramesFitMore ==
  ASSUME NEW s, NEW there, NEW more, there \subseteq more, FramesFit(s, there)
  PROVE  FramesFit(s, more)
BY DEF FramesFit

(* A requirement is asked for: its call on top of the frame that is now waiting for it. *)
LEMMA FramesFitCall ==
  ASSUME NEW s \in Seq(FrameType), NEW new \in Seq(FrameType), s # << >>, NEW there,
         FramesFit(s, there),
         s[1].next \in 1 .. Len(Requires[s[1].view]),
         Len(new) = Len(s) + 1,
         new[1].view = Requires[s[1].view][s[1].next], new[1].next = 1,
         new[2].view = s[1].view, new[2].next = s[1].next + 1,
         \A i \in 3 .. Len(s) + 1 : new[i] = s[i - 1]
  PROVE  FramesFit(new, there)
<1>1. /\ Len(s) \in Nat \ {0} /\ s[1].view \in View /\ s[1].next \in Nat \ {0}
      /\ \A i \in 1 .. Len(s) : s[i] \in FrameType
  BY StackFacts DEF FrameType
<1>2. ASSUME NEW i \in 1 .. Len(new)
      PROVE  /\ \A j \in 1 .. Len(Requires[new[i].view]) :
                   (j < new[i].next /\ (i > 1 => j # new[i].next - 1)) => Requires[new[i].view][j] \in there
             /\ i > 1 => /\ new[i].next - 1 \in 1 .. Len(Requires[new[i].view])
                         /\ Requires[new[i].view][new[i].next - 1] = new[i - 1].view
  <2>1. CASE i = 1
    BY <2>1
  <2>2. CASE i = 2
    <3>0. 1 \in 1 .. Len(s) /\ ~(1 > 1)
      BY <1>1
    <3>1. \A j \in 1 .. Len(Requires[s[1].view]) :
             j < s[1].next => Requires[s[1].view][j] \in there
      BY <3>0 DEF FramesFit
    <3>2. new[2].next - 1 = s[1].next
      BY <1>1
    <3>3. \A j \in 1 .. Len(Requires[new[2].view]) :
             (j < new[2].next /\ j # new[2].next - 1) => Requires[new[2].view][j] \in there
      BY <1>1, <3>1, <3>2
    <3>4. /\ new[2].next - 1 \in 1 .. Len(Requires[new[2].view])
          /\ Requires[new[2].view][new[2].next - 1] = new[1].view
      BY <3>2
    <3>5. 2 - 1 = 1 /\ 2 > 1
      OBVIOUS
    <3> QED
      BY <2>2, <3>3, <3>4, <3>5
  <2>3. CASE i > 2
    <3>1. i \in 3 .. Len(s) + 1 /\ i - 1 \in 1 .. Len(s) /\ i - 1 > 1
      BY <1>1, <2>3
    <3>2. new[i] = s[i - 1]
      BY <3>1
    <3>3. /\ \A j \in 1 .. Len(Requires[s[i - 1].view]) :
                   (j < s[i - 1].next /\ j # s[i - 1].next - 1) => Requires[s[i - 1].view][j] \in there
          /\ s[i - 1].next - 1 \in 1 .. Len(Requires[s[i - 1].view])
          /\ Requires[s[i - 1].view][s[i - 1].next - 1] = s[(i - 1) - 1].view
      BY <3>1 DEF FramesFit
    <3>4. new[i - 1].view = s[(i - 1) - 1].view
      <4>1. CASE i = 3
        BY <4>1
      <4>2. CASE i > 3
        <5>1. i - 1 \in 3 .. Len(s) + 1
          BY <1>1, <3>1, <4>2
        <5> QED
          BY <5>1
      <4> QED
        BY <2>3, <4>1, <4>2
    <3> QED
      BY <2>3, <3>2, <3>3, <3>4
  <2> QED
    BY <2>1, <2>2, <2>3
<1> QED
  BY <1>2 DEF FramesFit

(* A requirement is there already: the loop goes on. *)
LEMMA FramesFitSkip ==
  ASSUME NEW s \in Seq(FrameType), NEW new \in Seq(FrameType), s # << >>, NEW there,
         FramesFit(s, there),
         s[1].next \in 1 .. Len(Requires[s[1].view]),
         Requires[s[1].view][s[1].next] \in there,
         Len(new) = Len(s),
         new[1].view = s[1].view, new[1].next = s[1].next + 1,
         \A i \in 2 .. Len(s) : new[i] = s[i]
  PROVE  FramesFit(new, there)
<1>1. Len(s) \in Nat \ {0} /\ s[1].view \in View /\ s[1].next \in Nat \ {0}
  BY StackFacts DEF FrameType
<1>2. ASSUME NEW i \in 1 .. Len(new)
      PROVE  /\ \A j \in 1 .. Len(Requires[new[i].view]) :
                   (j < new[i].next /\ (i > 1 => j # new[i].next - 1)) => Requires[new[i].view][j] \in there
             /\ i > 1 => /\ new[i].next - 1 \in 1 .. Len(Requires[new[i].view])
                         /\ Requires[new[i].view][new[i].next - 1] = new[i - 1].view
  <2>1. CASE i = 1
    <3>1. \A j \in 1 .. Len(Requires[s[1].view]) :
             j < s[1].next => Requires[s[1].view][j] \in there
      BY <1>1 DEF FramesFit
    <3>2. \A j \in 1 .. Len(Requires[s[1].view]) :
             j < s[1].next + 1 => Requires[s[1].view][j] \in there
      BY <1>1, <3>1
    <3> QED
      BY <2>1, <3>2
  <2>2. CASE i > 1
    <3>1. i \in 2 .. Len(s) /\ new[i] = s[i]
      BY <1>1, <2>2
    <3>2. new[i - 1].view = s[i - 1].view
      <4>1. CASE i = 2
        BY <4>1
      <4>2. CASE i > 2
        <5>1. i - 1 \in 2 .. Len(s)
          BY <1>1, <3>1, <4>2
        <5> QED
          BY <5>1
      <4> QED
        BY <2>2, <4>1, <4>2
    <3>3. /\ \A j \in 1 .. Len(Requires[s[i].view]) :
                   (j < s[i].next /\ j # s[i].next - 1) => Requires[s[i].view][j] \in there
          /\ s[i].next - 1 \in 1 .. Len(Requires[s[i].view])
          /\ Requires[s[i].view][s[i].next - 1] = s[i - 1].view
      BY <2>2, <3>1 DEF FramesFit
    <3> QED
      BY <2>2, <3>1, <3>2, <3>3
  <2> QED
    BY <2>1, <2>2
<1> QED
  BY <1>2 DEF FramesFit

(* A step of the one thread there is. *)
LEMMA AloneOnly ==
  ASSUME Alone, AloneInv, FreshInv', NEW t \in Thread, OnlyOf(t),
         ArchiveIsWhole', ThreadInv(t)'
  PROVE  AloneInv'
<1>1. \A u \in Thread : ThreadInv(u)'
  <2> SUFFICES ASSUME NEW u \in Thread PROVE ThreadInv(u)'
    OBVIOUS
  <2>1. u = t
    BY DEF Alone
  <2> QED
    BY <2>1
<1>2. KnowsThePresent'
  BY DEF OnlyOf, AloneInv, KnowsThePresent
<1> QED
  BY <1>1, <1>2 DEF AloneInv

(* ... that leaves the archive as it is. *)
LEMMA AloneStep ==
  ASSUME Alone, AloneInv, FreshInv', NEW t \in Thread, OnlyOf(t), UNCHANGED <<archive, whitespaced>>,
         pc'[t] \in {"clean", "clean by id"} => record'[t] = archive,
         pc'[t] \in {"require", "annotate", "store"} \/ (pc'[t] = "done" /\ outcome'[t] = "record")
           => UpToDate(record'[t]) /\ Whole(record'[t]),
         pc'[t] \in {"require", "annotate"} => DOMAIN record'[t] = Usable,
         pc'[t] = "store" =>
           DOMAIN record'[t] = Usable \cup Range(Fields[Head(stack'[t]).view]),
         pc'[t] = "done" /\ outcome'[t] = "record" /\ stack'[t] # << >> =>
           Head(stack'[t]).view \in DOMAIN record'[t],
         pc'[t] \in Serving => FramesFit(stack'[t], Usable),
         pc'[t] \in {"annotate", "store"} =>
           /\ ~(Head(stack'[t]).next <= Len(Requires[Head(stack'[t]).view]))
           /\ Head(stack'[t]).view \notin OfWhitespacer
  PROVE  AloneInv'
<1>1. server' = server /\ OfWhitespacer' = OfWhitespacer
  BY DEF OnlyOf, OfWhitespacer
<1>2. \A v : Current(v)' = Current(v)
  BY <1>1 DEF Current
<1>3. Usable' = Usable
  BY <1>1, <1>2 DEF Usable
<1>4. ArchiveIsWhole'
  BY <1>1 DEF AloneInv, ArchiveIsWhole
<1>5. UpToDate(record'[t]) => UpToDate(record[t])'
  BY <1>2 DEF UpToDate
<1>6. RecordFits(t)'
  BY <1>3, <1>5 DEF RecordFits, Cleaned, Given, Asked, Top
<1>7. ThreadInv(t)'
  BY <1>1, <1>3, <1>6 DEF ThreadInv, MoreRequirements, Top
<1> QED
  BY <1>4, <1>7, AloneOnly

LEMMA TypedInv ==
  ASSUME AloneInv, NEW t \in Thread
  PROVE  /\ TInv /\ RecordType(record[t]) /\ RecordType(archive)
         /\ OfWhitespacer \subseteq Usable
         /\ pc[t] \in {"require", "annotate", "store"} => stack[t] # << >>
         /\ pc[t] \in {"idle", "get by id", "clean by id"} => stack[t] = << >>
         /\ ThreadInv(t)
BY DEF AloneInv, FreshInv, TInv, StacksFit, TypeOK, RecordType, Usable

(* Back from a call whose view is there now. *)
LEMMA ReturnsFrames ==
  ASSUME TInv, NEW t \in Thread, stack[t] # << >>, Returns(t), NEW there,
         FramesFit(stack[t], there), Top(t).view \in there
  PROVE  /\ pc'[t] \in {"done", "require"}
         /\ pc'[t] = "require" => FramesFit(stack'[t], there)
         /\ pc'[t] = "done" => stack'[t] = stack[t]
<1>1. stack[t] \in Seq(FrameType) /\ Top(t) = stack[t][1]
  BY TopFacts
<1>2. FramesFit(Tail(stack[t]), there)
  BY <1>1, FramesFitTail
<1> QED
  BY <1>2 DEF Returns

(* At the end of its loop the innermost call has got all its requirements. *)
LEMMA TopHasAll ==
  ASSUME TInv, NEW t \in Thread, stack[t] # << >>, NEW there,
         FramesFit(stack[t], there), ~MoreRequirements(t)
  PROVE  RequiredBy(Top(t).view) \subseteq there
<1> DEFINE v == Top(t).view
<1>1. /\ stack[t][1] = Top(t) /\ Top(t) \in FrameType /\ 1 \in 1 .. Len(stack[t])
  BY TopFacts
<1>2. v \in View /\ Top(t).next \in Nat /\ Len(Requires[v]) \in Nat
  BY <1>1, ListFacts DEF FrameType
<1>3. \A j \in 1 .. Len(Requires[v]) : j < Top(t).next => Requires[v][j] \in there
  BY <1>1 DEF FramesFit
<1>4. \A j \in 1 .. Len(Requires[v]) : j < Top(t).next
  BY <1>2 DEF MoreRequirements
<1> QED
  BY <1>2, <1>3, <1>4, ListFacts

LEMMA AloneThreadStep ==
  ASSUME Alone, AloneInv, FreshInv', UNCHANGED whitespaced, NEW t \in Thread, ThreadActs(t)
  PROVE  AloneInv'
<1>0. /\ TInv /\ RecordType(record[t]) /\ RecordType(archive)
      /\ OfWhitespacer \subseteq Usable
      /\ pc[t] \in {"require", "annotate", "store"} => stack[t] # << >>
      /\ pc[t] \in {"idle", "get by id", "clean by id"} => stack[t] = << >>
      /\ RecordFits(t)
      /\ pc[t] \in Serving => FramesFit(stack[t], Usable)
      /\ pc[t] \in {"annotate", "store"} => ~MoreRequirements(t) /\ Top(t).view \notin OfWhitespacer
  BY TypedInv DEF ThreadInv
<1>1. ASSUME NEW v \in View, NEW force \in Forcing, Provide(t, v, force)
      PROVE  AloneInv'
  <2>1. OnlyOf(t) /\ UNCHANGED archive /\ pc'[t] = "get" /\ stack'[t] = <<Frame(v, force)>>
    BY <1>0, <1>1, BeginDoes DEF Provide
  <2>2. FramesFit(<<Frame(v, force)>>, Usable)
    <3> DEFINE f == Frame(v, force)
    <3>1. f.next = 1
      BY DEF Frame
    <3> HIDE DEF f
    <3>2. Len(<<f>>) = 1 /\ <<f>>[1] = f
      OBVIOUS
    <3>3. \A i \in 1 .. 1 : i = 1
      OBVIOUS
    <3>4. \A j \in 1 .. Len(Requires[f.view]) : ~(j < 1)
      OBVIOUS
    <3>5. FramesFit(<<f>>, Usable)
      BY <3>1, <3>2, <3>3, <3>4 DEF FramesFit
    <3> QED
      BY <3>5 DEF f
  <2> QED
    BY <2>1, <2>2, AloneStep
<1>2. CASE GetRecord(t)
  <2>1. OnlyOf(t) /\ UNCHANGED archive /\ pc'[t] = "get" /\ stack'[t] = << >>
    BY <1>0, <1>2, BeginDoes DEF GetRecord
  <2>2. FramesFit(<< >>, Usable)
    <3>1. Len(<< >>) = 0 /\ 1 .. 0 = {}
      BY EmptySeq
    <3> QED
      BY <3>1 DEF FramesFit
  <2> QED
    BY <2>1, <2>2, AloneStep
<1>3. CASE GetRecordById(t)
  <2>1. OnlyOf(t) /\ UNCHANGED archive /\ pc'[t] = "get by id"
    BY <1>0, <1>3, BeginDoes DEF GetRecordById
  <2> QED
    BY <2>1, AloneStep DEF Serving
<1>4. CASE AskArchive(t)
  <2>1. /\ OnlyOf(t) /\ UNCHANGED archive /\ pc[t] = "get" /\ pc'[t] = "clean"
        /\ stack'[t] = stack[t] /\ record'[t] = archive
    BY <1>0, <1>4, AskArchiveDoes DEF Alone
  <2>2. FramesFit(stack'[t], Usable)
    BY <1>0, <2>1 DEF Serving
  <2> QED
    BY <2>1, <2>2, AloneStep
<1>5. CASE AskArchiveById(t)
  <2>1. /\ OnlyOf(t) /\ UNCHANGED archive
        /\ \/ pc'[t] = "clean by id" /\ record'[t] = archive
           \/ pc'[t] = "done" /\ outcome'[t] = "failed"
    BY <1>0, <1>5, AskArchiveByIdDoes DEF Throws
  <2> QED
    BY <2>1, AloneStep DEF Serving
<1>6. CASE Clean(t)
  <2>1. /\ OnlyOf(t) /\ UNCHANGED archive /\ pc[t] = "clean" /\ stack'[t] = stack[t]
        /\ record'[t] = Complete(RemoveStale(record[t]))
        /\ pc'[t] = "require" \/ (pc'[t] = "done" /\ stack[t] = << >>)
    BY <1>0, <1>6, CleanDoes
  <2>2. record'[t] = Complete(RemoveStale(archive))
    BY <1>0, <2>1 DEF RecordFits
  <2>3. DOMAIN record'[t] = Usable /\ UpToDate(record'[t]) /\ Whole(record'[t])
    BY <2>2, CleaningTheArchive
  <2>4. FramesFit(stack'[t], Usable)
    BY <1>0, <2>1 DEF Serving
  <2> QED
    BY <2>1, <2>3, <2>4, AloneStep
<1>7. CASE CleanById(t)
  <2>1. /\ OnlyOf(t) /\ UNCHANGED archive /\ pc[t] = "clean by id" /\ stack'[t] = stack[t]
        /\ record'[t] = RemoveStale(record[t]) /\ pc'[t] = "done"
    BY <1>0, <1>7, CleanByIdDoes
  <2>2. record'[t] = RemoveStale(archive) /\ stack'[t] = << >>
    BY <1>0, <2>1 DEF RecordFits
  <2>3. UpToDate(record'[t]) /\ Whole(record'[t])
    BY <2>2, CleaningTheArchive
  <2> QED
    BY <2>1, <2>2, <2>3, AloneStep DEF Serving
<1>8. CASE Require(t)
  <2> DEFINE v == Top(t).view
             n == Top(t).next
             r == Requires[v][n]
  <2>1. /\ OnlyOf(t) /\ UNCHANGED archive /\ pc[t] = "require" /\ stack[t] # << >>
        /\ n \in 1 .. Len(Requires[v]) /\ record'[t] = record[t]
        /\ stack'[t] \in Seq(FrameType)
        /\ \/ /\ pc'[t] = "get" /\ Len(stack'[t]) = Len(stack[t]) + 1
               /\ stack'[t][1].view = r /\ stack'[t][1].next = 1
               /\ stack'[t][2].view = v /\ stack'[t][2].next = n + 1
               /\ \A i \in 3 .. Len(stack[t]) + 1 : stack'[t][i] = stack[t][i - 1]
           \/ /\ r \in DOMAIN record[t]
              /\ pc'[t] = "require" /\ Len(stack'[t]) = Len(stack[t])
              /\ stack'[t][1].view = v /\ stack'[t][1].next = n + 1
              /\ \A i \in 2 .. Len(stack[t]) : stack'[t][i] = stack[t][i]
    BY <1>0, <1>8, RequireDoes
  <2>2. /\ DOMAIN record[t] = Usable /\ UpToDate(record[t]) /\ Whole(record[t])
        /\ FramesFit(stack[t], Usable)
    BY <1>0, <2>1 DEF RecordFits, Cleaned, Serving
  <2>3. stack[t] \in Seq(FrameType) /\ Top(t) = stack[t][1]
    BY <1>0, <2>1, TopFacts
  <2>4. FramesFit(stack'[t], Usable)
    <3>1. CASE pc'[t] = "get"
      BY <2>1, <2>2, <2>3, <3>1, FramesFitCall
    <3>2. CASE pc'[t] = "require"
      BY <2>1, <2>2, <2>3, <3>2, FramesFitSkip
    <3> QED
      BY <2>1, <3>1, <3>2
  <2>5. pc'[t] \in {"get", "require"}
    BY <2>1
  <2> HIDE DEF v, n, r
  <2> QED
    BY <2>1, <2>2, <2>4, <2>5, AloneStep
<1>9. CASE Decide(t)
  <2> DEFINE v == Top(t).view
             new == Whitespace(record[t], OfWhitespacer)
  <2>1. /\ OnlyOf(t) /\ UNCHANGED archive /\ pc[t] = "require" /\ stack[t] # << >>
        /\ ~MoreRequirements(t)
        /\ \/ v \notin OfWhitespacer /\ pc'[t] = "annotate" /\ stack'[t] = stack[t] /\ record'[t] = record[t]
           \/ v \in OfWhitespacer /\ record'[t] = new /\ Returns(t)
           \/ v \in DOMAIN record[t] /\ record'[t] = record[t] /\ Returns(t)
    BY <1>0, <1>9, DecideDoes
  <2>2. /\ DOMAIN record[t] = Usable /\ UpToDate(record[t]) /\ Whole(record[t])
        /\ FramesFit(stack[t], Usable)
    BY <1>0, <2>1 DEF RecordFits, Cleaned, Serving
  <2>3. DOMAIN new = Usable /\ UpToDate(new) /\ Whole(new)
    BY <1>0, <2>2, WhitespacingAgain
  <2> HIDE DEF new
  <2>4. DOMAIN record'[t] = Usable /\ UpToDate(record'[t]) /\ Whole(record'[t])
    BY <2>1, <2>2, <2>3
  <2>5. CASE v \notin OfWhitespacer /\ pc'[t] = "annotate" /\ stack'[t] = stack[t]
    BY <2>1, <2>2, <2>4, <2>5, AloneStep DEF MoreRequirements, Top
  <2>6. CASE v \in Usable /\ Returns(t)
    <3>1. /\ pc'[t] \in {"done", "require"}
          /\ pc'[t] = "require" => FramesFit(stack'[t], Usable)
          /\ pc'[t] = "done" => stack'[t] = stack[t]
      BY <1>0, <2>1, <2>2, <2>6, ReturnsFrames
    <3>2. pc'[t] = "done" => Head(stack'[t]).view \in Usable
      BY <2>6, <3>1 DEF Top
    <3> QED
      BY <2>1, <2>4, <3>1, <3>2, AloneStep DEF Serving
  <2> QED
    BY <1>0, <2>1, <2>2, <2>5, <2>6
<1>10. CASE Annotate(t)
  <2> DEFINE v == Top(t).view
             new == With(record[t], Range(Fields[v]))
  <2>1. /\ OnlyOf(t) /\ UNCHANGED archive /\ pc[t] = "annotate" /\ stack[t] # << >>
        /\ v \in View
        /\ \/ pc'[t] = "done" /\ outcome'[t] \in {"failed", "unavailable"}
           \/ pc'[t] = "store" /\ stack'[t] = stack[t] /\ record'[t] = new
    BY <1>0, <1>10, AnnotateDoes DEF Alone, Throws
  <2>2. /\ DOMAIN record[t] = Usable /\ UpToDate(record[t]) /\ Whole(record[t])
        /\ FramesFit(stack[t], Usable) /\ ~MoreRequirements(t) /\ v \notin OfWhitespacer
    BY <1>0, <2>1 DEF RecordFits, Cleaned, Serving
  <2>3. RequiredBy(v) \subseteq DOMAIN record[t]
    BY <1>0, <2>1, <2>2, TopHasAll
  <2>4. DOMAIN new = Usable \cup Range(Fields[v]) /\ UpToDate(new) /\ Whole(new)
    BY <1>0, <2>1, <2>2, <2>3, AnnotatingWhole
  <2> HIDE DEF new
  <2>5. CASE pc'[t] = "done" /\ outcome'[t] \in {"failed", "unavailable"}
    BY <2>1, <2>5, AloneStep DEF Serving
  <2>6. CASE pc'[t] = "store" /\ stack'[t] = stack[t] /\ record'[t] = new
    BY <2>1, <2>2, <2>4, <2>6, AloneStep DEF MoreRequirements, Top
  <2> QED
    BY <2>1, <2>5, <2>6
<1>11. CASE Store(t)
  <2> DEFINE v == Top(t).view
  <2>1. /\ OnlyOf(t) /\ pc[t] = "store" /\ stack[t] # << >>
        /\ record'[t] = record[t] /\ archive' = record[t] /\ Returns(t)
    BY <1>0, <1>11, StoreDoes DEF Alone
  <2>2. /\ DOMAIN record[t] = Usable \cup Range(Fields[v]) /\ UpToDate(record[t]) /\ Whole(record[t])
        /\ FramesFit(stack[t], Usable)
    BY <1>0, <2>1 DEF RecordFits, Cleaned, Serving
  <2>3. server' = server /\ OfWhitespacer' = OfWhitespacer
    BY <2>1 DEF OnlyOf, OfWhitespacer
  <2>4. \A u : Current(u)' = Current(u)
    BY <2>3 DEF Current
  <2>5. \A u \in DOMAIN record[t] : record[t][u].by = Current(u)
    BY <2>2 DEF UpToDate
  <2>6. Usable' = DOMAIN record[t]
    <3>1. Usable' = OfWhitespacer \cup
            {u \in DOMAIN record[t] : /\ record[t][u].by = Current(u)
                                      /\ \A r \in RequiredBy(u) : record[t][r].by = Current(r)}
      BY <2>1, <2>3, <2>4 DEF Usable
    <3>2. \A u \in DOMAIN record[t] : \A r \in RequiredBy(u) : r \in DOMAIN record[t]
      BY <2>2 DEF Whole
    <3>3. OfWhitespacer \subseteq DOMAIN record[t]
      BY <1>0, <2>2
    <3> QED
      BY <2>5, <3>1, <3>2, <3>3
  <2>7. ArchiveIsWhole'
    <3>1. \A u \in DOMAIN record[t] :
            IF u \in OfWhitespacer THEN record[t][u].by = Whitespacer ELSE record[t][u].by <= server[u]
      <4>1. \A u \in View : server[u] \in Nat
        BY KnownFacts DEF AloneInv
      <4>2. \A u \in View : server[u] <= server[u]
        BY <4>1
      <4>3. DOMAIN record[t] \subseteq View
        BY <1>0 DEF RecordType
      <4> QED
        BY <2>5, <4>2, <4>3 DEF Current
    <3> QED
      BY <2>1, <2>2, <2>3, <3>1 DEF ArchiveIsWhole
  <2>8. v \in Usable' /\ FramesFit(stack[t], Usable')
    <3>1. v \in View
      BY <1>0, <2>1, TopFacts DEF FrameType
    <3>2. v \in Range(Fields[v])
      BY <3>1, ListFacts
    <3>3. Usable \subseteq DOMAIN record[t] /\ v \in DOMAIN record[t]
      BY <2>2, <3>2
    <3>4. FramesFit(stack[t], DOMAIN record[t])
      BY <2>2, <3>3, FramesFitMore
    <3> QED
      BY <2>6, <3>3, <3>4
  <2>9. /\ pc'[t] \in {"done", "require"}
        /\ pc'[t] = "require" => FramesFit(stack'[t], Usable')
        /\ pc'[t] = "done" => stack'[t] = stack[t]
    BY <1>0, <2>1, <2>8, ReturnsFrames
  <2>10. UpToDate(record[t])' /\ Whole(record[t])' /\ DOMAIN record'[t] = Usable'
    BY <2>1, <2>2, <2>4, <2>5, <2>6 DEF UpToDate, Whole, MadeFromWhatIsThere
  <2>11. pc'[t] = "done" => Top(t)'.view \in DOMAIN record'[t]
    BY <2>6, <2>8, <2>9, <2>10 DEF Top
  <2>12. RecordFits(t)'
    <3>1. Given(t)' => pc'[t] = "done"
      BY DEF Given
    <3> QED
      BY <2>9, <2>10, <2>11, <3>1 DEF RecordFits
  <2>13. ThreadInv(t)'
    BY <2>9, <2>12 DEF ThreadInv, Serving
  <2> QED
    BY <2>1, <2>7, <2>13, AloneOnly
<1>12. CASE Reply(t)
  <2>1. OnlyOf(t) /\ UNCHANGED archive /\ pc'[t] = "idle"
    BY <1>0, <1>12, ReplyDoes
  <2> QED
    BY <2>1, AloneStep DEF Serving
<1>13. ~ArchiveThrows(t)
  BY DEF ArchiveThrows, Alone
<1> QED
  BY <1>1, <1>2, <1>3, <1>4, <1>5, <1>6, <1>7, <1>8, <1>9, <1>10, <1>11, <1>12, <1>13
     DEF ThreadActs, ThreadStep

LEMMA AloneOtherStep ==
  ASSUME Alone, AloneInv, FreshInv', UNCHANGED whitespaced,
         \/ \E v \in View : UpdaterAsks(v) \/ Upgrade(v)
         \/ UpdaterPuts \/ Expire \/ Restart \/ UNCHANGED vars
  PROVE  AloneInv'
<1>0. /\ KnowsThePresent /\ ArchiveIsWhole /\ TInv /\ \A t \in Thread : ThreadInv(t)
      /\ OfWhitespacer' = OfWhitespacer
  BY DEF AloneInv, FreshInv, OfWhitespacer
<1>1. ASSUME UNCHANGED <<archive, server, pc, stack, record, outcome>>
      PROVE  ArchiveIsWhole' /\ \A t \in Thread : ThreadInv(t)'
  <2>1. \A v : Current(v)' = Current(v)
    BY <1>0, <1>1 DEF Current
  <2>2. Usable' = Usable
    BY <1>0, <1>1, <2>1 DEF Usable
  <2>3. ArchiveIsWhole'
    BY <1>0, <1>1 DEF ArchiveIsWhole
  <2>4. ASSUME NEW t \in Thread
        PROVE  ThreadInv(t)'
    <3>1. UpToDate(record[t]) => UpToDate(record[t])'
      BY <1>1, <2>1 DEF UpToDate
    <3>2. RecordFits(t)'
      BY <1>0, <1>1, <2>2, <3>1 DEF ThreadInv, RecordFits, Cleaned, Given, Asked, Top
    <3> QED
      BY <1>0, <1>1, <2>2, <3>2 DEF ThreadInv, MoreRequirements, Top
  <2> QED
    BY <2>3, <2>4
<1>2. ASSUME NEW v \in View, UpdaterAsks(v)
      PROVE  AloneInv'
  <2>1. /\ updater' = <<v, server[v]>>
        /\ UNCHANGED <<archive, server, clientSource, pc, stack, record, outcome>>
    BY <1>2 DEF UpdaterAsks
  <2>2. updater'[2] = server'[updater'[1]]
    BY <2>1
  <2> QED
    BY <1>0, <1>1, <2>1, <2>2 DEF AloneInv, KnowsThePresent
<1>3. ASSUME NEW v \in View, Upgrade(v)
      PROVE  AloneInv'
  <2> DEFINE fs == Range(Fields[v])
             next == server[v] + 1
  <2>1. /\ server' = [u \in View |-> IF u \in fs THEN next ELSE server[u]]
        /\ clientSource' = [u \in View |-> IF u \in fs THEN next ELSE clientSource[u]]
        /\ UNCHANGED <<archive, updater, pc, stack, record, outcome>>
        /\ updater = Resting /\ \A t \in Thread : pc[t] = "idle"
    BY <1>3 DEF Upgrade, Quiet, Alone
  <2>2. KnowsThePresent'
    BY <1>0, <2>1 DEF KnowsThePresent
  <2>3. \A u \in View : server[u] \in Nat /\ server'[u] \in Nat /\ server[u] <= server'[u]
    <3>1. \A u \in View : server[u] \in Nat
      BY KnownFacts DEF AloneInv
    <3>2. \A u \in fs : u \in View /\ server[u] = server[v]
      BY ListFacts DEF AloneInv, FreshInv, OneAnnotator
    <3> HIDE DEF fs
    <3> QED
      BY <2>1, <3>1, <3>2
  <2>4. ArchiveIsWhole'
    <3>1. ASSUME NEW u \in DOMAIN archive, u \notin OfWhitespacer
          PROVE  archive[u].by <= server'[u]
      <4>1. u \in View /\ archive[u].by \in Source /\ archive[u].by <= server[u]
        BY <1>0, <3>1 DEF TInv, TypeOK, Annotation, ArchiveIsWhole
      <4>2. archive[u].by \in Nat
        BY <4>1, ReleaseFacts DEF Source
      <4> QED
        BY <2>3, <4>1, <4>2
    <3> QED
      BY <1>0, <2>1, <3>1 DEF ArchiveIsWhole
  <2>5. \A t \in Thread : ThreadInv(t)'
    BY <2>1 DEF ThreadInv, RecordFits, Cleaned, Given, Serving
  <2> QED
    BY <2>2, <2>4, <2>5 DEF AloneInv
<1>4. CASE UpdaterPuts
  <2>1. /\ updater # Resting /\ updater' = Resting
        /\ clientSource' = [clientSource EXCEPT ![updater[1]] = updater[2]]
        /\ UNCHANGED <<archive, server, pc, stack, record, outcome>>
    BY <1>4 DEF UpdaterPuts
  <2>2. KnowsThePresent'
    BY <1>0, <2>1 DEF KnowsThePresent, TInv, TypeOK
  <2> QED
    BY <1>1, <2>1, <2>2 DEF AloneInv
<1>5. CASE Expire \/ Restart
  BY <1>5 DEF Alone, Expire, Restart
<1>6. CASE UNCHANGED vars
  BY <1>0, <1>1, <1>6 DEF AloneInv, KnowsThePresent, vars
<1> QED
  BY <1>2, <1>3, <1>4, <1>5, <1>6

LEMMA AloneInit == Alone /\ Init => AloneInv
<1> SUFFICES ASSUME Alone, Init PROVE AloneInv
  OBVIOUS
<1>1. /\ updater = Resting /\ archive = EmptyRecord
      /\ \A v \in View : clientSource[v] = Unknown /\ server[v] = 1
      /\ \A t \in Thread : pc[t] = "idle"
  BY DEF Init
<1>2. FreshInv
  BY FreshAtFirst
<1>3. KnowsThePresent
  BY <1>1 DEF KnowsThePresent
<1>4. ArchiveIsWhole
  BY <1>1, EmptyRecordFacts DEF ArchiveIsWhole, Whole, MadeFromWhatIsThere
<1>5. \A t \in Thread : ThreadInv(t)
  BY <1>1 DEF ThreadInv, RecordFits, Cleaned, Given, Serving
<1> QED
  BY <1>2, <1>3, <1>4, <1>5 DEF AloneInv

LEMMA AloneNext == Alone /\ AloneInv /\ [Next]_vars => AloneInv'
<1> SUFFICES ASSUME Alone, AloneInv, [Next]_vars PROVE AloneInv'
  OBVIOUS
<1>1. FreshInv'
  BY FreshNext DEF Alone, AloneInv
<1>2. \/ UNCHANGED whitespaced /\ \E t \in Thread : ThreadActs(t)
      \/ /\ UNCHANGED whitespaced
         /\ \/ \E v \in View : UpdaterAsks(v) \/ Upgrade(v)
            \/ UpdaterPuts \/ Expire \/ Restart \/ UNCHANGED vars
  BY DEF Next, Step, ThreadActs, vars
<1> QED
  BY <1>1, <1>2, AloneThreadStep, AloneOtherStep

LEMMA AloneInductive ==
  ASSUME Alone
  PROVE  Spec => []AloneInv
BY AloneInit, AloneNext, PTL DEF Spec

(* "Each requirement node specifies to an annotation name that must be performed before
   the current annotator can run": whatever the configuration, the depth of the recursion
   and what is found out of date at each return, a record is sent to an annotator with
   all that this requires. *)
THEOREM RequirementsComeFirst == Alone => (Spec => []RequirementsPerformed)
<1> SUFFICES ASSUME Alone PROVE Spec => []RequirementsPerformed
  OBVIOUS
<1>1. AloneInv => RequirementsPerformed
  <2> SUFFICES ASSUME AloneInv, NEW t \in Thread, pc[t] = "annotate"
               PROVE  RequiredBy(Top(t).view) \subseteq DOMAIN record[t]
    BY DEF RequirementsPerformed
  <2>1. /\ TInv /\ stack[t] # << >> /\ DOMAIN record[t] = Usable
        /\ FramesFit(stack[t], Usable) /\ ~MoreRequirements(t)
    BY TypedInv DEF ThreadInv, RecordFits, Serving
  <2> QED
    BY <2>1, TopHasAll
<1> QED
  BY <1>1, AloneInductive, PTL

(* A request for a view that is answered with a record has got that view, through all the
   returns from its requirements; and a whitespaced text keeps its own sentences and
   tokens, also when an annotator of the same views is there. *)
THEOREM TheViewIsProvided == Alone => (Spec => []ProvidesTheView)
<1> SUFFICES ASSUME Alone PROVE Spec => []ProvidesTheView
  OBVIOUS
<1>1. AloneInv => ProvidesTheView
  <2> SUFFICES ASSUME AloneInv, NEW t \in Thread, Given(t), Asked(t)
               PROVE  /\ Top(t).view \in DOMAIN record[t]
                      /\ \A v \in OfWhitespacer \cap DOMAIN record[t] : record[t][v].by = Whitespacer
    BY DEF ProvidesTheView
  <2>1. Top(t).view \in DOMAIN record[t] /\ UpToDate(record[t])
    BY TypedInv DEF ThreadInv, RecordFits, Cleaned
  <2> QED
    BY <2>1 DEF UpToDate, Current
<1> QED
  BY <1>1, AloneInductive, PTL

(* What is stored fits together: every view was made from the very releases of its
   requirements that are stored beside it, also after upgrades of any of them. *)
THEOREM TheArchiveFits == Alone => (Spec => []ArchiveFitsTogether)
<1> SUFFICES ASSUME Alone PROVE Spec => []ArchiveFitsTogether
  OBVIOUS
<1>1. AloneInv => ArchiveFitsTogether
  BY DEF AloneInv, ArchiveIsWhole, Whole, ArchiveFitsTogether
<1> QED
  BY <1>1, AloneInductive, PTL

(* An annotation that is up to date, and rests on nothing that is not, is not lost when
   the record is stored again: neither at the end of the request nor of a requirement. *)
THEOREM NothingIsLost == Alone => (Spec => NoAnnotationLost)
<1> SUFFICES ASSUME Alone PROVE Spec => NoAnnotationLost
  OBVIOUS
<1> DEFINE Keeps ==
      archive' # EmptyRecord =>
        \A v \in DOMAIN archive : Fresh(v) => v \in DOMAIN archive'
<1>1. ASSUME AloneInv, [Next]_vars
      PROVE  Keeps
  <2>1. CASE UNCHANGED archive
    BY <2>1
  <2>2. ASSUME NEW t \in Thread, Store(t)
        PROVE  Keeps
    <3>1. TInv /\ RecordFits(t) /\ RecordType(archive)
      BY <1>1, TypedInv DEF ThreadInv
    <3>2. archive' = record[t] /\ pc[t] = "store"
      BY <2>2, <3>1, StoreDoes DEF Alone
    <3>3. Usable \subseteq DOMAIN archive'
      BY <3>1, <3>2 DEF RecordFits
    <3>4. ASSUME NEW v \in DOMAIN archive, Fresh(v)
          PROVE  v \in Usable
      <4>1. RequiredBy(v) \subseteq DOMAIN archive
        BY <1>1 DEF AloneInv, ArchiveIsWhole, Whole
      <4>2. ~OutOfDate(v, archive[v]) /\ \A r \in RequiredBy(v) : ~OutOfDate(r, archive[r])
        BY <3>4, <4>1 DEF Fresh, UpdateRequired
      <4> QED
        BY <1>1, <4>1, <4>2, OutOfDateMeans DEF Usable
    <3> QED
      BY <3>3, <3>4
  <2>3. UNCHANGED archive \/ \E t \in Thread : Store(t)
    <3>1. ASSUME NEW t \in Thread, ThreadActs(t)
          PROVE  UNCHANGED archive \/ Store(t)
      BY <3>1 DEF Alone, ArchiveThrows, ThreadActs, ThreadStep, Provide, GetRecord, GetRecordById, Begin, AskArchive,
         AskArchiveById, Clean, CleanById, Require, Decide, Annotate, Reply
    <3>2. UNCHANGED vars => UNCHANGED archive
      BY DEF vars
    <3>3. /\ \A v \in View : UpdaterAsks(v) \/ Upgrade(v) => UNCHANGED archive
          /\ UpdaterPuts \/ Restart => UNCHANGED archive
          /\ ~Expire
      BY DEF UpdaterAsks, Upgrade, UpdaterPuts, Restart, Expire, Alone
    <3> QED
      BY <1>1, <3>1, <3>2, <3>3 DEF Next, Step, ThreadActs
  <2> QED
    BY <2>1, <2>2, <2>3
<1>2. AloneInv /\ [Next]_vars => [Keeps]_vars
  BY <1>1
<1> QED
  BY <1>2, AloneInductive, PTL DEF Spec, NoAnnotationLost
=============================================================================

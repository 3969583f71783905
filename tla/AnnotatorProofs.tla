-------------------------- MODULE AnnotatorProofs --------------------------
(***************************************************************************)
(* Two annotators for every value of their constants.                      *)
(*                                                                         *)
(* The Charniak server: for every number of threads that the code allows   *)
(* (1 to 4), any number of sentences and every SENTENCE_INCRE no sentence  *)
(* gets two trees, and the forest of a process's first record has a tree   *)
(* of every sentence.  The argument is one of ownership: from the          *)
(* moment SENTENCE_INDEX has passed a sentence, the sentence is either in  *)
(* the forest or in the hands of exactly one thread.                       *)
(*                                                                         *)
(* The taggers' handlers: for every text, every way to split it and every  *)
(* answer of the tagger, the lists of tokens that the handlers make by     *)
(* comparing offsets are the sentences' tokens, and the chunks are the     *)
(* runs of the types.  The argument for the lists is that what is taken    *)
(* so far is a prefix of the tokens, all of whose sentences but the last   *)
(* are complete; for the chunks, that the labels are those of the runs     *)
(* that are over, and that nothing that follows changes them.              *)
(***************************************************************************)
EXTENDS CharniakServer, Taggers, FiniteSetTheorems, SequenceTheorems, WellFoundedInduction, TLAPS

-----------------------------------------------------------------------------
(***************************************************************************)
(* The Charniak server.                                                    *)
(***************************************************************************)

Reading == {"grab", "advance"}
Writing == {"append", "write"}
Holding == {"push", "append", "write"}

(* The sentences a thread has taken and not yet appended. *)
Own(t) ==
  IF pc[t] = "parse" THEN grab[t].start .. grab[t].end - 1
  ELSE IF pc[t] \in Holding THEN Range(parsed[t]) ELSE {}

(* Between pthread_mutex_lock and pthread_mutex_unlock the mutex is the thread's. *)
Locks ==
  \A t \in Thread : /\ pc[t] \in Reading => readlock = t
                    /\ pc[t] \in Writing => writelock = t

(* Threads exist only while parseRecord is between creating and joining them. *)
Threads ==
  /\ main \in {"idle", "down"} => \A t \in Thread : pc[t] = "off"
  /\ main = "idle" => spawned = 0
  /\ main = "spawn" => /\ spawned < NumThreads
                       /\ \A t \in Thread : t > spawned => pc[t] = "off"
  /\ main = "answered" => \A t \in Thread : pc[t] = "ended"

(* A thread's interval is not empty, and begins at SENTENCE_INDEX until it has
   moved that on; the end of the vector it found is still the end. *)
Intervals ==
  \A t \in Thread :
    /\ pc[t] \in {"advance", "parse"} => grab[t].start < grab[t].end
    /\ pc[t] = "advance" => grab[t].start = sentenceIndex /\ grab[t].end <= sentenceNum
    /\ pc[t] \in Holding => IsInjective(parsed[t])
    /\ pc[t] = "write" => slot[t] = Len(trees) + 1 /\ parsed[t] # << >>
    /\ pc[t] = "ended" => sentenceNum <= sentenceIndex

(* SENTENCE_INDEX passes SENTENCE_NUM only if it was there when the record came in. *)
Counter ==
  /\ begun <= sentenceIndex
  /\ sentenceIndex = begun \/ sentenceIndex <= sentenceNum

(* Nobody owns what another owns, or what is in the forest. *)
Apart ==
  /\ \A t, u \in Thread : t # u => Own(t) \cap Own(u) = {}
  /\ \A t \in Thread : Own(t) \cap Range(trees) = {}

(* Only the sentences SENTENCE_INDEX has passed have an owner or a tree ... *)
Inside ==
  /\ Range(trees) \subseteq begun .. sentenceIndex - 1
  /\ \A t \in Thread : Own(t) \subseteq begun .. sentenceIndex - 1

(* ... and, unless a parse has ended the process, all of them do. *)
NoneLost ==
  main # "down" =>
    \A s \in begun .. sentenceIndex - 1 :
      s \in Range(trees) \/ \E t \in Thread : s \in Own(t)

Ownership == EachSentenceOnce /\ Apart /\ Inside /\ NoneLost

IInv == TypeOK /\ Locks /\ Threads /\ Intervals /\ Counter /\ Ownership

-----------------------------------------------------------------------------
(* Taking the first of a sequence without repetitions. *)
LEMMA FirstOf ==
  ASSUME NEW S, NEW s \in Seq(S), s # << >>, IsInjective(s)
  PROVE  /\ Head(s) \in S /\ Tail(s) \in Seq(S)
         /\ IsInjective(Tail(s))
         /\ Range(s) = {Head(s)} \cup Range(Tail(s))
         /\ Head(s) \notin Range(Tail(s))
<1>1. /\ Head(s) = s[1] /\ Head(s) \in S /\ Tail(s) \in Seq(S) /\ Len(s) \in Nat \ {0}
      /\ Len(Tail(s)) = Len(s) - 1 /\ DOMAIN s = 1 .. Len(s)
      /\ DOMAIN Tail(s) = 1 .. Len(s) - 1
      /\ \A i \in 1 .. Len(s) - 1 : Tail(s)[i] = s[i + 1]
  OBVIOUS
<1>2. IsInjective(Tail(s)) BY <1>1 DEF IsInjective
<1>3. Head(s) \notin Range(Tail(s))
  <2>1. SUFFICES ASSUME NEW i \in 1 .. Len(s) - 1, s[i + 1] = s[1] PROVE FALSE
    BY <1>1 DEF Range
  <2> QED BY <1>1, <2>1 DEF IsInjective
<1>4. Range(s) = {Head(s)} \cup Range(Tail(s))
  <2>1. ASSUME NEW i \in 1 .. Len(s) PROVE s[i] \in {Head(s)} \cup Range(Tail(s))
    <3>1. CASE i = 1 BY <1>1, <3>1
    <3>2. CASE i # 1
      <4>1. i - 1 \in 1 .. Len(s) - 1 /\ Tail(s)[i - 1] = s[i] BY <1>1, <3>2
      <4> QED BY <1>1, <4>1 DEF Range
    <3> QED BY <3>1, <3>2
  <2>2. ASSUME NEW i \in 1 .. Len(s) - 1 PROVE Tail(s)[i] \in Range(s)
    BY <1>1 DEF Range
  <2>3. Head(s) \in Range(s) BY <1>1 DEF Range
  <2> QED BY <1>1, <2>1, <2>2, <2>3 DEF Range
<1> QED BY <1>1, <1>2, <1>3, <1>4

(* push_back at the end that was found. *)
LEMMA PutLast ==
  ASSUME NEW S, NEW s \in Seq(S), NEW x \in S, x \notin Range(s), IsInjective(s),
         NEW r \in [1 .. Len(s) + 1 -> S],
         r[Len(s) + 1] = x, \A i \in 1 .. Len(s) : r[i] = s[i]
  PROVE  /\ r \in Seq(S) /\ Len(r) = Len(s) + 1
         /\ IsInjective(r)
         /\ Range(r) = Range(s) \cup {x}
<1>1. Len(s) \in Nat /\ DOMAIN s = 1 .. Len(s) /\ \A i \in 1 .. Len(s) : s[i] \in S
  OBVIOUS
<1>2. r \in Seq(S) /\ Len(r) = Len(s) + 1
  <2>1. Len(s) + 1 \in Nat /\ DOMAIN r = 1 .. Len(s) + 1 BY <1>1
  <2>2. r \in Seq(S) BY <2>1, SeqDef
  <2>3. Len(r) \in Nat /\ DOMAIN r = 1 .. Len(r) BY <2>2, LenProperties
  <2> QED BY <2>1, <2>2, <2>3
<1>3. \A i \in 1 .. Len(s) : r[i] = s[i] /\ s[i] # x BY <1>1 DEF Range
<1>4. IsInjective(r) BY <1>1, <1>3 DEF IsInjective
<1>5. Range(r) = Range(s) \cup {x} BY <1>1, <1>3 DEF Range
<1> QED BY <1>2, <1>4, <1>5

(* The vector with one more tree at its end, as a function. *)
LEMMA OneMore ==
  ASSUME NEW S, NEW s \in Seq(S), NEW x \in S, NEW n, n = Len(s) + 1
  PROVE  LET r == [i \in DOMAIN s \cup {n} |-> IF i = n THEN x ELSE s[i]]
         IN  /\ r \in [1 .. Len(s) + 1 -> S]
             /\ r[Len(s) + 1] = x
             /\ \A i \in 1 .. Len(s) : r[i] = s[i]
<1>1. Len(s) \in Nat /\ DOMAIN s = 1 .. Len(s) /\ \A i \in 1 .. Len(s) : s[i] \in S
  OBVIOUS
<1>2. DOMAIN s \cup {n} = 1 .. Len(s) + 1 BY <1>1
<1> QED BY <1>1, <1>2

(* A sequence without repetitions of numbers below n has no more than n of them. *)
LEMMA NoMoreThan ==
  ASSUME NEW n \in Nat, NEW s \in Seq(0 .. n - 1), IsInjective(s)
  PROVE  Len(s) <= n
<1>1. Len(s) \in Nat /\ s \in [1 .. Len(s) -> 0 .. n - 1] OBVIOUS
<1>2. s \in Injection(1 .. Len(s), 0 .. n - 1) BY <1>1 DEF Injection
<1>3. IsFiniteSet(0 .. n - 1) /\ Cardinality(0 .. n - 1) = n
  <2>1. /\ IsFiniteSet(0 .. n - 1)
        /\ Cardinality(0 .. n - 1) = IF 0 > n - 1 THEN 0 ELSE n - 1 - 0 + 1
    BY FS_Interval
  <2> QED BY <2>1
<1>4. Cardinality(1 .. Len(s)) = Len(s)
  <2>1. Cardinality(1 .. Len(s)) = IF 1 > Len(s) THEN 0 ELSE Len(s) - 1 + 1
    BY <1>1, FS_Interval
  <2> QED BY <1>1, <2>1
<1>5. Cardinality(1 .. Len(s)) <= Cardinality(0 .. n - 1) BY <1>2, <1>3, FS_Injection
<1> QED BY <1>3, <1>4, <1>5
-----------------------------------------------------------------------------
(* A step that neither moves SENTENCE_INDEX, nor touches the forest, nor changes
   what a thread owns leaves the ownership as it is. *)
LEMMA OwnershipKept ==
  ASSUME Ownership, UNCHANGED <<trees, begun, sentenceIndex>>,
         main' # "down" => main # "down",
         \A t \in Thread : Own(t)' = Own(t)
  PROVE  Ownership'
BY DEF Ownership, EachSentenceOnce, Apart, Inside, NoneLost

(* So does one after which nobody owns anything, of a process that goes down. *)
LEMMA OwnershipDropped ==
  ASSUME Ownership, UNCHANGED <<trees, begun, sentenceIndex>>, main' = "down",
         \A t \in Thread : Own(t)' = {}
  PROVE  Ownership'
BY DEF Ownership, EachSentenceOnce, Apart, Inside, NoneLost

(* An empty forest that nobody works on, at the beginning of a record. *)
LEMMA OwnershipOfNone ==
  ASSUME TypeOK, trees = << >>, begun = sentenceIndex, \A t \in Thread : Own(t) = {}
  PROVE  Ownership
<1>1. Range(trees) = {} /\ IsInjective(trees) BY DEF Range, IsInjective
<1>2. begun .. sentenceIndex - 1 = {} BY DEF TypeOK, Sentence
<1> QED BY <1>1, <1>2 DEF Ownership, EachSentenceOnce, Apart, Inside, NoneLost

LEMMA InitInv == Init => IInv
<1> SUFFICES ASSUME Init PROVE IInv OBVIOUS
<1> USE CharniakAssumption DEF Init, Fresh
<1>1. TypeOK BY DEF TypeOK, Thread, Sentence, Unlocked, Nothing
<1>2. Locks /\ Threads /\ Intervals
  BY DEF Locks, Threads, Intervals, Reading, Writing, Holding
<1>3. Counter BY DEF Counter
<1>4. Ownership
  <2>1. \A t \in Thread : Own(t) = {} BY DEF Own, Holding
  <2> QED BY <1>1, <2>1, OwnershipOfNone
<1> QED BY <1>1, <1>2, <1>3, <1>4 DEF IInv

LEMMA ParseRecordInv ==
  ASSUME IInv, NEW n \in 0 .. MaxSentences, ParseRecord(n)
  PROVE  IInv'
<1> USE CharniakAssumption DEF IInv, ParseRecord
<1>1. TypeOK' BY DEF TypeOK, Sentence
<1>2. \A t \in Thread : pc'[t] = "off" BY DEF Threads
<1>3. Locks' /\ Intervals'
  BY <1>2 DEF Locks, Intervals, Reading, Writing, Holding
<1>4. Threads' BY <1>2 DEF Threads, Thread
<1>5. Counter' BY DEF Counter, TypeOK, Sentence
<1>6. Ownership'
  <2>1. \A t \in Thread : Own(t)' = {} BY <1>2 DEF Own, Holding
  <2>2. trees' = << >> /\ begun' = sentenceIndex' OBVIOUS
  <2>3. Range(trees') = {} /\ IsInjective(trees') BY <2>2 DEF Range, IsInjective
  <2>4. begun' .. sentenceIndex' - 1 = {} BY <1>1, <2>2 DEF TypeOK, Sentence
  <2> QED BY <2>1, <2>3, <2>4 DEF Ownership, EachSentenceOnce, Apart, Inside, NoneLost
<1> QED BY <1>1, <1>3, <1>4, <1>5, <1>6

LEMMA SpawnInv == IInv /\ Spawn => IInv'
<1> SUFFICES ASSUME IInv, Spawn PROVE IInv' OBVIOUS
<1> USE CharniakAssumption DEF IInv, Spawn, Goto, service
<1>1. spawned' \in Thread /\ pc[spawned'] = "off" /\ spawned < NumThreads
  BY DEF Threads, Thread, TypeOK
<1>2. pc' = [pc EXCEPT ![spawned'] = "lock"] OBVIOUS
<1>3. TypeOK' BY <1>1, <1>2, SMTT(20) DEF TypeOK, Thread
<1>4. \A t \in Thread : pc'[t] = IF t = spawned' THEN "lock" ELSE pc[t]
  BY <1>1, <1>2 DEF TypeOK
<1>5. Locks' BY <1>4 DEF Locks, Reading, Writing
<1>6. Threads' BY <1>1, <1>4 DEF Threads, Thread, TypeOK
<1>7. Intervals' BY <1>4 DEF Intervals, Holding
<1>8. Counter' BY DEF Counter
<1>9. Ownership'
  <2>1. \A t \in Thread : Own(t)' = Own(t) BY <1>1, <1>4 DEF Own, Holding
  <2> QED BY <2>1, OwnershipKept
<1> QED BY <1>3, <1>5, <1>6, <1>7, <1>8, <1>9

LEMMA JoinInv == IInv /\ Join => IInv'
<1> SUFFICES ASSUME IInv, Join PROVE IInv' OBVIOUS
<1> USE CharniakAssumption DEF IInv, Join, service
<1>1. TypeOK' BY DEF TypeOK
<1>2. Locks' /\ Threads' /\ Intervals' /\ Counter'
  BY DEF Locks, Threads, Intervals, Counter
<1>3. Ownership'
  <2>1. \A t \in Thread : Own(t)' = Own(t) BY DEF Own
  <2> QED BY <2>1, OwnershipKept
<1> QED BY <1>1, <1>2, <1>3

LEMMA ReturnInv == IInv /\ Return => IInv'
<1> SUFFICES ASSUME IInv, Return PROVE IInv' OBVIOUS
<1> USE CharniakAssumption DEF IInv, Return, service, Fresh
<1>1. TypeOK' BY DEF TypeOK
<1>2. \A t \in Thread : pc[t] = "ended" /\ pc'[t] = "off" BY DEF Threads
<1>3. Locks' /\ Threads' /\ Intervals'
  BY <1>2 DEF Locks, Threads, Intervals, Reading, Writing, Holding
<1>4. Counter' BY DEF Counter
<1>5. Ownership'
  <2>1. \A t \in Thread : Own(t)' = Own(t) BY <1>2 DEF Own, Holding
  <2> QED BY <2>1, OwnershipKept
<1> QED BY <1>1, <1>3, <1>4, <1>5
-----------------------------------------------------------------------------
LEMMA LockReadInv ==
  ASSUME IInv, NEW t \in Thread, LockRead(t)
  PROVE  IInv'
<1> USE CharniakAssumption DEF IInv, LockRead, Goto, service
<1>1. TypeOK' BY DEF TypeOK
<1>2. \A u \in Thread : pc'[u] = IF u = t THEN "grab" ELSE pc[u] BY DEF TypeOK
<1>3. \A u \in Thread : pc[u] \notin Reading
  BY DEF Locks, Unlocked, Thread
<1>4. Locks' BY <1>2, <1>3 DEF Locks, Reading, Writing
<1>5. Threads' BY <1>2 DEF Threads, TypeOK, Thread
<1>6. Intervals' /\ Counter' BY <1>2 DEF Intervals, Counter, Holding
<1>7. Ownership'
  <2>1. \A u \in Thread : Own(u)' = Own(u) BY <1>2 DEF Own, Holding
  <2> QED BY <2>1, OwnershipKept
<1> QED BY <1>1, <1>4, <1>5, <1>6, <1>7

(* The interval a thread computes begins where SENTENCE_INDEX is, and nobody else
   is between the computation and the assignment to SENTENCE_INDEX. *)
LEMMA GrabInv ==
  ASSUME IInv, NEW t \in Thread, Grab(t)
  PROVE  IInv'
<1> USE CharniakAssumption DEF IInv
<1>0. /\ pc[t] = "grab"
      /\ UNCHANGED <<sentenceNum, sentenceIndex, trees, writelock, main, spawned, parsed,
                     slot, served, begun>>
  BY DEF Grab, service
<1>1. CASE sentenceIndex < sentenceNum
  <2>1. PICK e \in Sentence : /\ sentenceIndex < e /\ e <= sentenceNum
                              /\ grab' = [grab EXCEPT ![t] = [start |-> sentenceIndex,
                                                            end |-> e]]
    BY <1>1 DEF Grab, TypeOK, Sentence
  <2>2. pc' = [pc EXCEPT ![t] = "advance"] /\ readlock' = readlock
    BY <1>1 DEF Grab, Goto
  <2>3. TypeOK' BY <1>0, <2>1, <2>2 DEF TypeOK
  <2>4. \A u \in Thread : /\ pc'[u] = IF u = t THEN "advance" ELSE pc[u]
                          /\ u # t => grab'[u] = grab[u]
    BY <2>1, <2>2 DEF TypeOK
  <2>5. grab'[t].start = sentenceIndex /\ grab'[t].end = e BY <2>1 DEF TypeOK
  <2>6. Locks' BY <1>0, <2>2, <2>4 DEF Locks, Reading, Writing
  <2>7. Threads' BY <1>0, <2>4 DEF Threads, TypeOK, Thread
  <2>8. Intervals' BY <1>0, <2>1, <2>4, <2>5 DEF Intervals, Holding
  <2>9. Counter' BY <1>0 DEF Counter
  <2>10. Ownership'
    <3>1. \A u \in Thread : Own(u)' = Own(u) BY <1>0, <2>4 DEF Own, Holding
    <3> QED BY <1>0, <3>1, OwnershipKept
  <2> QED BY <2>3, <2>6, <2>7, <2>8, <2>9, <2>10
<1>2. CASE ~(sentenceIndex < sentenceNum)
  <2>1. /\ pc' = [pc EXCEPT ![t] = "ended"] /\ readlock' = Unlocked /\ grab' = grab
        /\ sentenceNum <= sentenceIndex
    BY <1>2 DEF Grab, Goto, TypeOK, Sentence
  <2>2. TypeOK' BY <1>0, <2>1 DEF TypeOK
  <2>3. \A u \in Thread : pc'[u] = IF u = t THEN "ended" ELSE pc[u]
    BY <2>1 DEF TypeOK
  <2>4. \A u \in Thread : u # t => pc[u] \notin Reading
    BY <1>0 DEF Locks, Reading
  <2>5. Locks' BY <1>0, <2>3, <2>4 DEF Locks, Reading, Writing
  <2>6. Threads' BY <1>0, <2>3 DEF Threads, TypeOK, Thread
  <2>7. Intervals' /\ Counter' BY <1>0, <2>1, <2>3 DEF Intervals, Counter, Holding
  <2>8. Ownership'
    <3>1. \A u \in Thread : Own(u)' = Own(u) BY <1>0, <2>1, <2>3 DEF Own, Holding
    <3> QED BY <1>0, <3>1, OwnershipKept
  <2> QED BY <2>2, <2>5, <2>6, <2>7, <2>8
<1> QED BY <1>1, <1>2

(* SENTENCE_INDEX passes the interval, and the thread owns what it passes. *)
LEMMA AdvanceInv ==
  ASSUME IInv, NEW t \in Thread, Advance(t)
  PROVE  IInv'
<1> USE CharniakAssumption DEF IInv, Advance, Goto, service
<1>1. TypeOK' BY DEF TypeOK
<1>2. \A u \in Thread : pc'[u] = IF u = t THEN "parse" ELSE pc[u] BY DEF TypeOK
<1>3. /\ sentenceIndex < sentenceIndex' /\ sentenceIndex' <= sentenceNum
      /\ grab[t].start = sentenceIndex /\ grab[t].end = sentenceIndex'
      /\ {begun, sentenceIndex, sentenceIndex', sentenceNum} \subseteq Nat
  BY <1>1 DEF Intervals, TypeOK, Sentence
<1>4. \A u \in Thread : u # t => pc[u] \notin Reading BY DEF Locks, Reading
<1>5. Locks' BY <1>2, <1>4 DEF Locks, Reading, Writing
<1>6. Threads' BY <1>2 DEF Threads, TypeOK, Thread
<1>7. Intervals' BY <1>2, <1>3, <1>4 DEF Intervals, Holding, Reading
<1>8. Counter' BY <1>3 DEF Counter
<1>9. Ownership'
  <2> DEFINE new == sentenceIndex .. sentenceIndex' - 1
  <2>1. Own(t)' = new /\ Own(t) = {} BY <1>2, <1>3 DEF Own, Holding
  <2>2. \A u \in Thread : u # t => Own(u)' = Own(u) BY <1>2 DEF Own, Holding
  <2>3. begun .. sentenceIndex' - 1 = (begun .. sentenceIndex - 1) \cup new
    BY <1>3 DEF Counter
  <2>4. (begun .. sentenceIndex - 1) \cap new = {} BY <1>3
  <2> HIDE DEF new
  <2>5. EachSentenceOnce' BY DEF Ownership, EachSentenceOnce
  <2>6. Apart' BY <2>1, <2>2, <2>4 DEF Ownership, Apart, Inside
  <2>7. Inside' BY <2>1, <2>2, <2>3 DEF Ownership, Inside
  <2>8. NoneLost' BY <2>1, <2>2, <2>3 DEF Ownership, NoneLost
  <2> QED BY <2>5, <2>6, <2>7, <2>8 DEF Ownership
<1> QED BY <1>1, <1>5, <1>6, <1>7, <1>8, <1>9
-----------------------------------------------------------------------------
(* The trees of the interval, each of one sentence. *)
LEMMA ParseInv ==
  ASSUME IInv, NEW t \in Thread, Parse(t)
  PROVE  IInv'
<1> USE CharniakAssumption DEF IInv
<1> DEFINE a == grab[t].start
           n == grab[t].end - a
           p == [k \in 1 .. n |-> a + k - 1]
<1>1. /\ pc[t] = "parse" /\ pc' = [pc EXCEPT ![t] = "push"]
      /\ parsed' = [parsed EXCEPT ![t] = p]
      /\ UNCHANGED <<sentenceNum, sentenceIndex, trees, readlock, writelock, main, spawned,
                     grab, slot, served, begun>>
  BY DEF Parse, Goto, service
<1>2. /\ a \in Nat /\ grab[t].end \in Nat /\ n \in Nat /\ grab[t].end <= MaxSentences
      /\ n = grab[t].end - a
  BY <1>1 DEF TypeOK, Intervals, Sentence
<1> HIDE DEF a, n
<1>3. p \in Seq(Sentence)
  <2>1. \A k \in 1 .. n : a + k - 1 \in Sentence BY <1>2 DEF Sentence
  <2>2. p \in [1 .. n -> Sentence] /\ n \in Nat BY <1>2, <2>1
  <2> HIDE DEF p
  <2> QED BY <2>2, SeqDef
<1>4. IsInjective(p) BY <1>2 DEF IsInjective
<1>5. Range(p) = a .. grab[t].end - 1
  <2>1. \A s \in a .. grab[t].end - 1 : s - a + 1 \in 1 .. n /\ p[s - a + 1] = s
    BY <1>2
  <2>2. \A k \in 1 .. n : p[k] \in a .. grab[t].end - 1 BY <1>2
  <2>3. DOMAIN p = 1 .. n OBVIOUS
  <2> HIDE DEF p
  <2> QED BY <2>1, <2>2, <2>3 DEF Range
<1> HIDE DEF p, n, a
<1>6. TypeOK' BY <1>1, <1>3 DEF TypeOK
<1>7. \A u \in Thread : /\ pc'[u] = IF u = t THEN "push" ELSE pc[u]
                        /\ parsed'[u] = IF u = t THEN p ELSE parsed[u]
  BY <1>1 DEF TypeOK
<1>8. Locks' BY <1>1, <1>7 DEF Locks, Reading, Writing
<1>9. Threads' BY <1>1, <1>7 DEF Threads, TypeOK, Thread
<1>10. Intervals' /\ Counter' BY <1>1, <1>4, <1>7 DEF Intervals, Counter, Holding
<1>11. Ownership'
  <2>1. Own(t)' = Own(t) BY <1>1, <1>5, <1>7 DEF Own, Holding, a
  <2>2. \A u \in Thread : u # t => Own(u)' = Own(u) BY <1>1, <1>7 DEF Own, Holding
  <2> QED BY <1>1, <2>1, <2>2, OwnershipKept
<1> QED BY <1>6, <1>8, <1>9, <1>10, <1>11

LEMMA ParseFailsInv ==
  ASSUME IInv, NEW t \in Thread, ParseFails(t)
  PROVE  IInv'
<1> USE CharniakAssumption DEF IInv, ParseFails, service, Fresh
<1>1. TypeOK' BY DEF TypeOK
<1>2. \A u \in Thread : pc'[u] = "off" OBVIOUS
<1>3. Locks' /\ Threads' /\ Intervals'
  BY <1>2 DEF Locks, Threads, Intervals, Reading, Writing, Holding
<1>4. Counter' BY DEF Counter
<1>5. Ownership'
  <2>1. \A u \in Thread : Own(u)' = {} BY <1>2 DEF Own, Holding
  <2> QED BY <2>1, OwnershipDropped
<1> QED BY <1>1, <1>3, <1>4, <1>5

LEMMA LockWriteInv ==
  ASSUME IInv, NEW t \in Thread, LockWrite(t)
  PROVE  IInv'
<1> USE CharniakAssumption DEF IInv, LockWrite, Goto, service
<1>1. TypeOK' BY DEF TypeOK
<1>2. \A u \in Thread : pc'[u] = IF u = t THEN "append" ELSE pc[u] BY DEF TypeOK
<1>3. \A u \in Thread : pc[u] \notin Writing
  BY DEF Locks, Unlocked, Thread
<1>4. Locks' BY <1>2, <1>3 DEF Locks, Reading, Writing
<1>5. Threads' BY <1>2 DEF Threads, TypeOK, Thread
<1>6. Intervals' /\ Counter' BY <1>2 DEF Intervals, Counter, Holding
<1>7. Ownership'
  <2>1. \A u \in Thread : Own(u)' = Own(u) BY <1>2 DEF Own, Holding
  <2> QED BY <2>1, OwnershipKept
<1> QED BY <1>1, <1>4, <1>5, <1>6, <1>7

(* There is room: the trees of the forest and the one in the thread's hands are of
   different sentences of the record. *)
LEMMA FindEndInv ==
  ASSUME IInv, NEW t \in Thread, FindEnd(t)
  PROVE  IInv'
<1> USE CharniakAssumption DEF IInv
<1>1. /\ pc[t] = "append" /\ parsed[t] # << >>
      /\ pc' = [pc EXCEPT ![t] = "write"] /\ slot' = [slot EXCEPT ![t] = Len(trees) + 1]
      /\ UNCHANGED <<sentenceNum, sentenceIndex, trees, readlock, writelock, main, spawned,
                     grab, parsed, served, begun>>
  BY DEF FindEnd, Goto, service
<1>2. Len(trees) \in Nat /\ Len(trees) + 1 <= MaxSentences
  <2> DEFINE S == 0 .. MaxSentences - 1
             x == Head(parsed[t])
  <2>1. parsed[t] \in Seq(Sentence) /\ trees \in Seq(Sentence) BY DEF TypeOK
  <2>2. Range(parsed[t]) = Own(t) BY <1>1 DEF Own, Holding
  <2>3. x \in Own(t)
    <3>1. IsInjective(parsed[t]) BY <1>1 DEF Intervals, Holding
    <3> QED BY <1>1, <2>1, <2>2, <3>1, FirstOf
  <2>4. begun .. sentenceIndex - 1 \subseteq S BY DEF TypeOK, Sentence
  <2>5. x \in S /\ x \notin Range(trees) /\ Range(trees) \subseteq S
    BY <2>3, <2>4 DEF Ownership, Apart, Inside
  <2>6. trees \in Seq(S)
    <3>1. Len(trees) \in Nat /\ trees \in [1 .. Len(trees) -> Sentence]
      BY <2>1, LenProperties
    <3>2. \A i \in 1 .. Len(trees) : trees[i] \in S BY <2>5, <3>1 DEF Range
    <3>3. trees \in [1 .. Len(trees) -> S] BY <3>1, <3>2
    <3> QED BY <3>1, <3>3, SeqDef
  <2>7. IsInjective(trees) BY DEF Ownership, EachSentenceOnce
  <2> HIDE DEF x, S
  <2>8. PICK r \in [1 .. Len(trees) + 1 -> S] :
          r[Len(trees) + 1] = x /\ \A i \in 1 .. Len(trees) : r[i] = trees[i]
    <3> DEFINE q == [i \in DOMAIN trees \cup {Len(trees) + 1} |->
                       IF i = Len(trees) + 1 THEN x ELSE trees[i]]
    <3>1. /\ q \in [1 .. Len(trees) + 1 -> S]
          /\ q[Len(trees) + 1] = x /\ \A i \in 1 .. Len(trees) : q[i] = trees[i]
      BY <2>5, <2>6, OneMore
    <3> QED BY <3>1
  <2>9. r \in Seq(S) /\ Len(r) = Len(trees) + 1 /\ IsInjective(r)
    BY <2>5, <2>6, <2>7, <2>8, PutLast
  <2>10. Len(r) <= MaxSentences BY <2>9, NoMoreThan DEF S
  <2> QED BY <2>1, <2>9, <2>10, LenProperties
<1>3. TypeOK' BY <1>1, <1>2 DEF TypeOK
<1>4. \A u \in Thread : /\ pc'[u] = IF u = t THEN "write" ELSE pc[u]
                        /\ slot'[u] = IF u = t THEN Len(trees) + 1 ELSE slot[u]
  BY <1>1 DEF TypeOK
<1>5. Locks' BY <1>1, <1>4 DEF Locks, Reading, Writing
<1>6. Threads' BY <1>1, <1>4 DEF Threads, TypeOK, Thread
<1>7. Intervals' /\ Counter' BY <1>1, <1>4 DEF Intervals, Counter, Holding
<1>8. Ownership'
  <2>1. \A u \in Thread : Own(u)' = Own(u) BY <1>1, <1>4 DEF Own, Holding
  <2> QED BY <1>1, <2>1, OwnershipKept
<1> QED BY <1>3, <1>5, <1>6, <1>7, <1>8
(* A tree goes from the thread's hands into the forest. *)
LEMMA PushBackInv ==
  ASSUME IInv, NEW t \in Thread, PushBack(t)
  PROVE  IInv'
<1> USE CharniakAssumption DEF IInv
<1> DEFINE x == Head(parsed[t])
<1>1. /\ pc[t] = "write" /\ pc' = [pc EXCEPT ![t] = "append"]
      /\ trees' = [i \in DOMAIN trees \cup {slot[t]} |->
                      IF i = slot[t] THEN x ELSE trees[i]]
      /\ parsed' = [parsed EXCEPT ![t] = Tail(parsed[t])]
      /\ slot' = [slot EXCEPT ![t] = 0]
      /\ UNCHANGED <<sentenceNum, sentenceIndex, readlock, writelock, main, spawned, grab,
                     served, begun>>
  BY DEF PushBack, Goto, service, TypeOK
<1>2. /\ slot[t] = Len(trees) + 1 /\ parsed[t] # << >> /\ IsInjective(parsed[t])
      /\ parsed[t] \in Seq(Sentence) /\ trees \in Seq(Sentence)
      /\ Own(t) = Range(parsed[t])
  BY <1>1 DEF Intervals, TypeOK, Holding, Own
<1>3. /\ x \in Sentence /\ Tail(parsed[t]) \in Seq(Sentence) /\ IsInjective(Tail(parsed[t]))
      /\ Own(t) = {x} \cup Range(Tail(parsed[t])) /\ x \notin Range(Tail(parsed[t]))
  BY <1>2, FirstOf
<1>4. x \notin Range(trees) BY <1>3 DEF Ownership, Apart
<1>5. /\ trees' \in Seq(Sentence) /\ IsInjective(trees')
      /\ Range(trees') = Range(trees) \cup {x}
  <2>1. IsInjective(trees) BY DEF Ownership, EachSentenceOnce
  <2> HIDE DEF x
  <2>2. /\ trees' \in [1 .. Len(trees) + 1 -> Sentence]
        /\ trees'[Len(trees) + 1] = x
        /\ \A i \in 1 .. Len(trees) : trees'[i] = trees[i]
    BY <1>1, <1>2, <1>3, OneMore
  <2> QED BY <1>2, <1>3, <1>4, <2>1, <2>2, PutLast
<1> HIDE DEF x
<1>6. TypeOK' BY <1>1, <1>3, <1>5 DEF TypeOK
<1>7. \A u \in Thread : /\ pc'[u] = IF u = t THEN "append" ELSE pc[u]
                        /\ parsed'[u] = IF u = t THEN Tail(parsed[t]) ELSE parsed[u]
  BY <1>1 DEF TypeOK
<1>8. Locks' BY <1>1, <1>7 DEF Locks, Reading, Writing
<1>9. Threads' BY <1>1, <1>7 DEF Threads, TypeOK, Thread
<1>10. \A u \in Thread : u # t => pc[u] # "write"
  BY <1>1 DEF Locks, Writing
<1>11. Intervals' BY <1>1, <1>3, <1>7, <1>10 DEF Intervals, Holding
<1>12. Counter' BY <1>1 DEF Counter
<1>13. Ownership'
  <2>1. Own(t)' = Range(Tail(parsed[t])) BY <1>7 DEF Own, Holding
  <2>2. \A u \in Thread : u # t => Own(u)' = Own(u) BY <1>1, <1>7 DEF Own, Holding
  <2>3. EachSentenceOnce' BY <1>5 DEF EachSentenceOnce
  <2>4. Apart' BY <1>3, <1>5, <2>1, <2>2 DEF Ownership, Apart
  <2>5. Inside' BY <1>1, <1>3, <1>5, <2>1, <2>2 DEF Ownership, Inside
  <2>6. NoneLost'
    <3> SUFFICES ASSUME main # "down", NEW s \in begun .. sentenceIndex - 1
                 PROVE  s \in Range(trees') \/ \E u \in Thread : s \in Own(u)'
      BY <1>1 DEF NoneLost
    <3>1. CASE s \in Range(trees) BY <1>5, <3>1
    <3>2. CASE s \in Own(t) BY <1>3, <1>5, <2>1, <3>2
    <3>3. ASSUME NEW u \in Thread, s \in Own(u), u # t PROVE s \in Own(u)'
      BY <2>2, <3>3
    <3> QED BY <3>1, <3>2, <3>3 DEF Ownership, NoneLost
  <2> QED BY <2>3, <2>4, <2>5, <2>6 DEF Ownership
<1> QED BY <1>6, <1>8, <1>9, <1>11, <1>12, <1>13

LEMMA UnlockWriteInv ==
  ASSUME IInv, NEW t \in Thread, UnlockWrite(t)
  PROVE  IInv'
<1> USE CharniakAssumption DEF IInv, UnlockWrite, Goto, service
<1>1. TypeOK' BY DEF TypeOK
<1>2. \A u \in Thread : pc'[u] = IF u = t THEN "lock" ELSE pc[u] BY DEF TypeOK
<1>3. \A u \in Thread : u # t => pc[u] \notin Writing BY DEF Locks, Writing
<1>4. Locks' BY <1>2, <1>3 DEF Locks, Reading, Writing
<1>5. Threads' BY <1>2 DEF Threads, TypeOK, Thread
<1>6. Intervals' /\ Counter' BY <1>2 DEF Intervals, Counter, Holding
<1>7. Ownership'
  <2>1. \A u \in Thread : u # t => Own(u)' = Own(u) BY <1>2 DEF Own, Holding
  <2>2. Own(t) = {} /\ Own(t)' = {} BY <1>2 DEF Own, Holding, Range
  <2> QED BY <2>1, <2>2, OwnershipKept
<1> QED BY <1>1, <1>4, <1>5, <1>6, <1>7

LEMMA RestartInv == IInv /\ Restart => IInv'
<1> SUFFICES ASSUME IInv, Restart PROVE IInv' OBVIOUS
<1> USE CharniakAssumption DEF Restart, Fresh
<1>1. TypeOK' BY DEF TypeOK, Thread, Sentence, Unlocked, Nothing
<1>2. \A t \in Thread : pc'[t] = "off" OBVIOUS
<1>3. Locks' /\ Threads' /\ Intervals'
  BY <1>2 DEF Locks, Threads, Intervals, Reading, Writing, Holding
<1>4. Counter' BY DEF Counter
<1>5. Ownership'
  <2>1. \A t \in Thread : Own(t)' = {} BY <1>2 DEF Own, Holding
  <2>2. Range(trees') = {} /\ IsInjective(trees') BY DEF Range, IsInjective
  <2>3. begun' .. sentenceIndex' - 1 = {} OBVIOUS
  <2> QED BY <2>1, <2>2, <2>3 DEF Ownership, EachSentenceOnce, Apart, Inside, NoneLost
<1> QED BY <1>1, <1>3, <1>4, <1>5 DEF IInv

LEMMA NextInv == IInv /\ [Next]_vars => IInv'
<1> SUFFICES ASSUME IInv, [Next]_vars PROVE IInv' OBVIOUS
<1>1. ASSUME NEW t \in Thread, ThreadStep(t) PROVE IInv'
  BY <1>1, LockReadInv, GrabInv, AdvanceInv, ParseInv, ParseFailsInv, LockWriteInv,
     FindEndInv, PushBackInv, UnlockWriteInv
  DEF ThreadStep
<1>2. CASE MainStep BY <1>2, SpawnInv, JoinInv, ReturnInv DEF MainStep
<1>3. CASE UNCHANGED vars
  <2> USE <1>3 DEF vars, IInv
  <2>1. TypeOK' BY DEF TypeOK
  <2>2. Locks' /\ Threads' /\ Intervals' /\ Counter'
    BY DEF Locks, Threads, Intervals, Counter
  <2>3. Ownership'
    <3>1. \A t \in Thread : Own(t)' = Own(t) BY DEF Own
    <3> QED BY <3>1, OwnershipKept
  <2> QED BY <2>1, <2>2, <2>3
<1> QED BY <1>1, <1>2, <1>3, ParseRecordInv, RestartInv DEF Next

-----------------------------------------------------------------------------
(* The lemma everything else follows from. *)
LEMMA Inductive == Spec => []IInv
BY InitInv, NextInv, PTL DEF Spec

(* The server's globals and its threads' locals stay what they are declared to be; in
   particular no thread finds the end of the forest beyond the number of sentences. *)
THEOREM TypeCorrect == Spec => []TypeOK
<1>1. IInv => TypeOK BY DEF IInv
<1> QED BY <1>1, Inductive, PTL

(* mainLoop: however many threads share SENTENCE_INDEX, and whatever SENTENCE_INCRE
   is, no sentence gets two trees. *)
THEOREM NoSentenceTwice == Spec => []EachSentenceOnce
<1>1. IInv => EachSentenceOnce BY DEF IInv, Ownership
<1> QED BY <1>1, Inductive, PTL

(* Nothing has moved SENTENCE_INDEX before the first record of a process. *)
FirstFromTheStart ==
  /\ served = 0 => main = "idle" /\ sentenceIndex = 0
  /\ served = 1 => begun = 0

LEMMA FirstFromTheStartKept == Spec => []FirstFromTheStart
<1>1. Init => FirstFromTheStart BY DEF Init, Fresh, FirstFromTheStart
<1>2. IInv /\ FirstFromTheStart /\ [Next]_vars => FirstFromTheStart'
  <2> SUFFICES ASSUME IInv, FirstFromTheStart, [Next]_vars PROVE FirstFromTheStart'
    OBVIOUS
  <2> USE CharniakAssumption DEF FirstFromTheStart, service
  <2>0. served \in Nat BY DEF IInv, TypeOK
  <2>1. ASSUME NEW n \in 0 .. MaxSentences, ParseRecord(n) PROVE FirstFromTheStart'
    BY <2>0, <2>1 DEF ParseRecord
  <2>2. CASE MainStep BY <2>2 DEF MainStep, Spawn, Join, Return
  <2>3. ASSUME NEW t \in Thread, ThreadStep(t) PROVE FirstFromTheStart'
    <3>1. /\ served' = served /\ begun' = begun
          /\ pc[t] # "off"
      BY <2>3 DEF ThreadStep, LockRead, Grab, Advance, Parse, ParseFails, LockWrite, FindEnd,
                  PushBack, UnlockWrite
    <3>2. main # "idle" BY <3>1 DEF IInv, Threads
    <3> QED BY <3>1, <3>2
  <2>4. CASE Restart BY <2>4 DEF Restart, Fresh
  <2>5. CASE UNCHANGED vars BY <2>5 DEF vars
  <2> QED BY <2>1, <2>2, <2>3, <2>4, <2>5 DEF Next
<1> QED BY <1>1, <1>2, Inductive, PTL DEF Spec

(* parseRecord: once all threads are joined, the forest of a process's first record has
   a tree of every sentence. *)
THEOREM ForestIsComplete == Spec => []ForestComplete
<1>1. IInv /\ FirstFromTheStart => ForestComplete
  <2> SUFFICES ASSUME IInv, begun = 0, main = "answered"
               PROVE  Range(trees) = 0 .. sentenceNum - 1
    BY DEF ForestComplete, FirstFromTheStart
  <2> USE CharniakAssumption DEF IInv
  <2>1. \A t \in Thread : pc[t] = "ended" /\ Own(t) = {}
    BY DEF Threads, Own, Holding
  <2>2. 1 \in Thread BY DEF Thread
  <2>3. sentenceNum <= sentenceIndex BY <2>1, <2>2 DEF Intervals
  <2>4. Range(trees) = 0 .. sentenceIndex - 1
    BY <2>1 DEF Ownership, Inside, NoneLost
  <2>5. 0 .. sentenceIndex - 1 = 0 .. sentenceNum - 1
    BY <2>3 DEF Counter, TypeOK, Sentence
  <2> QED BY <2>4, <2>5
<1> QED BY <1>1, Inductive, FirstFromTheStartKept, PTL

(* Only one thread at a time is between taking and releasing either mutex. *)
THEOREM MutexesExclude ==
  Spec => [](\A t, u \in Thread :
               t # u => /\ ~(pc[t] \in Reading /\ pc[u] \in Reading)
                        /\ ~(pc[t] \in Writing /\ pc[u] \in Writing))
<1>1. IInv => \A t, u \in Thread :
                t # u => /\ ~(pc[t] \in Reading /\ pc[u] \in Reading)
                         /\ ~(pc[t] \in Writing /\ pc[u] \in Writing)
  BY DEF IInv, Locks
<1> QED BY <1>1, Inductive, PTL

-----------------------------------------------------------------------------
(***************************************************************************)
(* The taggers' handlers: what holds of the record and of the lists.       *)
(***************************************************************************)
SpanSet == [start : Nat, ending : Nat]

Rising(spans, n) ==
  /\ spans \in Seq(SpanSet)
  /\ \A i \in DOMAIN spans : spans[i].start <= spans[i].ending /\ spans[i].ending <= n
  /\ \A i, j \in DOMAIN spans : i < j => spans[i].ending <= spans[j].start

(* A character is in a span. *)
Holds(span, p) == span.start < p /\ p <= span.ending

(* The words of a text, one by one, none left out. *)
AreWords(spans, t) ==
  /\ Rising(spans, Len(t))
  /\ \A w \in DOMAIN spans : /\ spans[w].start < spans[w].ending
                             /\ \A p \in DOMAIN t : Holds(spans[w], p) => t[p] # Blank
  /\ \A p \in DOMAIN t : t[p] # Blank => \E w \in DOMAIN spans : Holds(spans[w], p)

InSentences(spans, outer) ==
  \A w \in DOMAIN spans : \E i \in DOMAIN outer : IsIn(spans[w], outer[i])

-----------------------------------------------------------------------------
Early == {"whitespacer", "tokenizer", "splitting"}
Chars == Char \cup {Blank}

Unasked == Early \cup {"labelled"}
Taking == {"pos", "chunker"}

RecordTyped ==
  /\ given \in Seq(Seq(Char)) /\ text \in Seq(Chars) /\ offset \in Nat
  /\ split \in Seq(SpanSet) /\ sentences \in Seq(SpanSet) /\ tokens \in Seq(SpanSet)
  /\ place \in Unasked \cup {"asked", "pos", "chunker", "chunks", "answered", "failed"}
  /\ handler \in Taking \cup {"none"}

Joining ==
  place = "whitespacer" =>
    /\ offset = IF sentences = << >> THEN 0 ELSE Len(text) + 1
    /\ sentences = << >> => text = << >>

Fit ==
  AreWords(tokens, text) /\ Rising(sentences, Len(text)) /\ InSentences(tokens, sentences)

Labelled == place \notin {"tokenizer", "splitting", "failed"} => Fit

Tokenizing ==
  /\ place = "tokenizer" => sentences = << >> /\ tokens = << >>
  /\ place = "splitting" =>
       /\ AreWords(split, text)
       /\ Len(tokens) <= Len(split) /\ tokens = SubSeq(split, 1, Len(tokens))
       /\ Rising(sentences, Len(text)) /\ InSentences(tokens, sentences)
       /\ \A i \in DOMAIN sentences :
            tokens # << >> /\ sentences[i].ending <= tokens[Len(tokens)].ending

RecordInv == RecordTyped /\ Joining /\ Labelled /\ Tokenizing

-----------------------------------------------------------------------------
ChunkLabels == [label : Kind \cup {NoKind}, span : SpanSet]

TaggersTyped ==
  /\ lists \in Seq(Seq(SpanSet)) /\ types \in Seq(Type)
  /\ taken \in Nat /\ taken <= Len(tokens) /\ Len(types) <= taken
  /\ chunk \in [open : Nat, clabel : Kind \cup {NoKind}, labels : Seq(ChunkLabels)]
  /\ chunk.open <= Len(types)
  /\ place \in Unasked => handler = "none"
  /\ place = "pos" => handler = "pos" /\ lists # << >>
  /\ place \in {"chunker", "chunks"} => handler = "chunker"

Untouched ==
  /\ place \in Unasked \cup {"asked"} => lists = << >> /\ taken = 0
  /\ place \in Unasked \cup {"asked", "pos", "chunker"} =>
       types = << >> /\ chunk = NoChunk

In(i) == {w \in DOMAIN tokens : IsIn(tokens[w], sentences[i])}

(* Those of the first n tokens that are in a sentence. *)
Some(i, n) ==
  LET in == InOrder({w \in 1 .. n : IsIn(tokens[w], sentences[i])})
  IN [k \in DOMAIN in |-> tokens[in[k]]]

(* The lists ls have the first k tokens by their sentences, and of all but the last     *)
(* sentence none is missing.                                                            *)
Sorted(ls, k) ==
  /\ Len(ls) <= Len(sentences)
  /\ \A i \in DOMAIN ls : ls[i] = Some(i, k)
  /\ \A w \in 1 .. k : \E i \in DOMAIN ls : w \in In(i)
  /\ \A i \in DOMAIN ls : i # Len(ls) => In(i) \subseteq 1 .. k

NoSentenceEndsBlank ==
  \A i \in DOMAIN sentences : TokensIn(i)[Len(TokensIn(i))].ending = sentences[i].ending

PosReads == place = "pos" /\ EverySentenceHasTokens => Sorted(lists, taken)

ChunkerTakes ==
  place = "chunker" /\ EverySentenceHasTokens /\ NoSentenceEndsBlank =>
    Sorted(lists, taken) /\ (lists # << >> => taken \in In(Len(lists)))

Agreed ==
  /\ Answered({"pos"}) \/ place = "chunks" \/ Answered({"chunker"})
  /\ EverySentenceHasTokens
  /\ handler = "chunker" => NoSentenceEndsBlank
  => lists = [i \in DOMAIN sentences |-> TokensIn(i)]

-----------------------------------------------------------------------------
KindBefore(ts, i) ==
  LET inside == {j \in 1 .. i - 1 : ts[j].letter # "O"}
  IN IF inside = {} THEN NoKind ELSE ts[CHOOSE j \in inside : \A k \in inside : k <= j].kind

Begins(ts, i) ==
  \/ ts[i].letter = "B"
  \/ ts[i].letter = "I" /\ ts[i].kind # KindBefore(ts, i)

GoesTo(ts, i, j) == \A k \in i + 1 .. j : ts[k].letter = "I" /\ ~Begins(ts, k)
Breaks(ts, j) == Begins(ts, j) \/ ts[j].letter = "O"

Beginnings(ts) == {i \in DOMAIN ts : Begins(ts, i)}

EndOfRun(ts, i) ==
  CHOOSE j \in i .. Len(ts) : GoesTo(ts, i, j) /\ (j = Len(ts) \/ Breaks(ts, j + 1))

Runs(ts, S) ==
  LET s == InOrder(S)
  IN [c \in DOMAIN s |->
       [label |-> ts[s[c]].kind, span |-> Span(tokens[s[c]].start, tokens[EndOfRun(ts, s[c])].ending)]]

(* The run from i is over before the last type. *)
IsOver(ts, i) == \E j \in i .. Len(ts) - 1 : GoesTo(ts, i, j) /\ Breaks(ts, j + 1)

(* What the loop has made of the types ts. *)
ChunksOf(ch, ts) ==
  /\ ch.clabel = KindBefore(ts, Len(ts) + 1)
  /\ ch.open # 0 => /\ ch.open \in Beginnings(ts)
                    /\ GoesTo(ts, ch.open, Len(ts))
                    /\ ch.clabel = ts[ch.open].kind
  /\ \A i \in Beginnings(ts) \ {ch.open} : IsOver(ts, i) /\ (ch.open = 0 \/ i < ch.open)
  /\ ch.labels = Runs(ts, Beginnings(ts) \ {ch.open})

Chunking == place = "chunks" => ChunksOf(chunk, types)

Chunked == Answered({"chunker"}) => chunk.labels = Runs(types, Beginnings(types))

TaggersInv ==
  /\ RecordInv /\ TaggersTyped /\ Untouched
  /\ PosReads /\ ChunkerTakes /\ Agreed
  /\ Chunking /\ Chunked

-----------------------------------------------------------------------------
(* A set of numbers that is not empty has a least one. *)
LEMMA LeastOne ==
  ASSUME NEW T \in SUBSET Nat, T # {}
  PROVE  \E x \in T : \A y \in T : x <= y
<1> DEFINE R == OpToRel(<, Nat)
<1>1. IsWellFoundedOn(R, Nat)
  BY NatLessThanWellFounded
<1>2. R = {ss \in Nat \X Nat : ss[1] < ss[2]}
  BY DEF OpToRel
<1>3. \A y, x \in Nat : y < x => <<y, x>> \in R
  BY <1>2
<1> HIDE DEF R
<1>4. PICK x \in T : \A y \in T : ~ (<<y, x>> \in R)
  BY <1>1, WFMin
<1>5. \A y \in T : ~(y < x)
  BY <1>3, <1>4
<1> QED
  BY <1>5

(* A set of numbers with an upper bound has a greatest one, if it is not empty. *)
LEMMA GreatestOne ==
  ASSUME NEW T \in SUBSET Nat, T # {}, NEW n \in Nat, \A x \in T : x <= n
  PROVE  \E x \in T : \A y \in T : y <= x
<1> DEFINE D == {n - x : x \in T}
<1>1. D \in SUBSET Nat /\ D # {}
  <2>1. \A x \in T : n - x \in Nat
    OBVIOUS
  <2> QED
    BY <2>1
<1>2. PICK d \in D : \A e \in D : d <= e
  BY <1>1, LeastOne
<1>3. PICK x \in T : d = n - x
  OBVIOUS
<1>4. \A y \in T : n - y \in D
  OBVIOUS
<1> HIDE DEF D
<1>5. \A y \in T : y <= x
  BY <1>2, <1>3, <1>4
<1> QED
  BY <1>5

-----------------------------------------------------------------------------
(***************************************************************************)
(* A finite set of numbers in its order.                                   *)
(***************************************************************************)
Climbs(s, S) ==
  /\ s \in [1 .. Cardinality(S) -> S]
  /\ \A i, j \in DOMAIN s : i < j => s[i] < s[j]

(* Every set of numbers below a bound can be put in order: the last of it follows the  *)
(* others.                                                                             *)
LEMMA CanBeOrdered ==
  ASSUME NEW S \in SUBSET Nat, NEW m \in Nat, \A x \in S : x < m
  PROVE  \E s : Climbs(s, S)
<1> DEFINE Bad == {n \in Nat : \E T \in SUBSET Nat : (\A x \in T : x < n) /\ ~ \E s : Climbs(s, T)}
<1> SUFFICES ASSUME ~ \E s : Climbs(s, S) PROVE FALSE
  OBVIOUS
<1>1. m \in Bad
  OBVIOUS
<1>2. PICK n \in Bad : \A k \in Bad : n <= k
  <2>1. Bad \in SUBSET Nat /\ Bad # {}
    BY <1>1
  <2> HIDE DEF Bad
  <2> QED
    BY <2>1, LeastOne
<1>3. PICK T \in SUBSET Nat : (\A x \in T : x < n) /\ ~ \E s : Climbs(s, T)
  OBVIOUS
<1>4. n # 0
  <2> SUFFICES ASSUME n = 0 PROVE FALSE
    OBVIOUS
  <2>1. T = {}
    BY <1>3
  <2>2. Cardinality(T) = 0
    BY <2>1, FS_EmptySet
  <2>3. Climbs(<< >>, T)
    BY <2>1, <2>2 DEF Climbs
  <2> QED
    BY <1>3, <2>3
<1>5. n \in Nat /\ n - 1 \in Nat /\ n - 1 \notin Bad
  <2>1. n \in Nat
    OBVIOUS
  <2> HIDE DEF Bad
  <2> QED
    BY <1>2, <1>4, <2>1
<1> DEFINE U == T \ {n - 1}
<1>6. \A x \in U : x < n - 1
  BY <1>3, <1>5
<1>7. PICK s : Climbs(s, U)
  BY <1>5, <1>6
<1> HIDE DEF Bad
<1>8. IsFiniteSet(T) /\ IsFiniteSet(U)
  <2>1. \A x \in T : x <= n
    BY <1>3, <1>5
  <2>2. IsFiniteSet(T)
    BY <1>5, <2>1, FS_BoundedSetOfNaturals
  <2> QED
    BY <2>2, FS_Subset
<1>9. CASE n - 1 \notin T
  <2>1. U = T
    BY <1>9
  <2> QED
    BY <1>3, <1>7, <2>1
<1>10. CASE n - 1 \in T
  <2> DEFINE c == Cardinality(U)
             t == [i \in 1 .. c + 1 |-> IF i = c + 1 THEN n - 1 ELSE s[i]]
  <2>1. Cardinality(T) = c + 1 /\ c \in Nat
    <3>1. c \in Nat
      BY <1>8, FS_CardinalityType
    <3>2. T = U \cup {n - 1}
      BY <1>10
    <3>3. Cardinality(U \cup {n - 1}) = c + 1
      BY <1>8, FS_AddElement
    <3> QED
      BY <3>1, <3>2, <3>3
  <2>2. s \in [1 .. c -> U] /\ \A i, j \in 1 .. c : i < j => s[i] < s[j]
    BY <1>7 DEF Climbs
  <2> HIDE DEF c
  <2>3. t \in [1 .. c + 1 -> T]
    BY <2>1, <2>2, <1>10
  <2>4. \A i, j \in 1 .. c + 1 : i < j => t[i] < t[j]
    <3> SUFFICES ASSUME NEW i \in 1 .. c + 1, NEW j \in 1 .. c + 1, i < j
                 PROVE  t[i] < t[j]
      OBVIOUS
    <3>1. i \in 1 .. c /\ t[i] = s[i] /\ s[i] \in U
      BY <2>1, <2>2
    <3>2. CASE j = c + 1
      BY <3>1, <3>2, <1>6
    <3>3. CASE j # c + 1
      BY <3>1, <3>3, <2>1, <2>2
    <3> QED
      BY <3>2, <3>3
  <2> HIDE DEF t
  <2>5. Climbs(t, T)
    BY <2>1, <2>3, <2>4 DEF Climbs
  <2> QED
    BY <1>3, <2>5
<1> QED
  BY <1>9, <1>10

(* What has been put in order has every element once. *)
LEMMA ClimbsToAll ==
  ASSUME NEW S \in SUBSET Nat, IsFiniteSet(S), NEW s, Climbs(s, S)
  PROVE  /\ s \in Seq(S) /\ Len(s) = Cardinality(S) /\ DOMAIN s = 1 .. Len(s)
         /\ \A i \in DOMAIN s : s[i] \in S
         /\ \A x \in S : \E i \in DOMAIN s : s[i] = x
         /\ \A i, j \in DOMAIN s : i < j => s[i] < s[j]
<1> DEFINE n == Cardinality(S)
<1>1. n \in Nat
  BY FS_CardinalityType
<1>2. s \in [1 .. n -> S] /\ \A i, j \in 1 .. n : i < j => s[i] < s[j]
  BY DEF Climbs
<1>3. IsFiniteSet(1 .. n) /\ Cardinality(1 .. n) = n
  BY <1>1, FS_Interval
<1> HIDE DEF n
<1>4. \A i, j \in 1 .. n : s[i] = s[j] => i = j
  <2> SUFFICES ASSUME NEW i \in 1 .. n, NEW j \in 1 .. n, s[i] = s[j], i # j PROVE FALSE
    OBVIOUS
  <2>1. s[i] \in Nat /\ s[j] \in Nat
    BY <1>2
  <2>2. i < j \/ j < i
    BY <1>1
  <2> QED
    BY <1>2, <2>1, <2>2
<1>5. s \in Injection(1 .. n, S)
  BY <1>2, <1>4 DEF Injection, IsInjective
<1>6. s \in Surjection(1 .. n, S)
  <2>1. Cardinality(1 .. n) = Cardinality(S)
    BY <1>3 DEF n
  <2> QED
    BY <1>5, <2>1, FS_Injection
<1>7. \A x \in S : \E i \in 1 .. n : s[i] = x
  BY <1>6 DEF Surjection
<1>8. s \in Seq(S) /\ Len(s) = n
  BY <1>1, <1>2
<1> QED
  BY <1>1, <1>2, <1>7, <1>8 DEF n

(* s goes through S from the least to the greatest. *)
Enumerates(s, S) ==
  /\ s \in Seq(S)
  /\ \A x \in S : \E i \in DOMAIN s : s[i] = x
  /\ \A i, j \in DOMAIN s : i < j => s[i] < s[j]

(* InOrder goes through a bounded set of numbers from the least to the greatest. *)
LEMMA InOrderEnumerates ==
  ASSUME NEW S \in SUBSET Nat, NEW m \in Nat, \A x \in S : x <= m
  PROVE  IsFiniteSet(S) /\ Enumerates(InOrder(S), S)
<1>1. IsFiniteSet(S)
  BY FS_BoundedSetOfNaturals
<1>2. \E s : Climbs(s, S)
  <2>1. m + 1 \in Nat /\ \A x \in S : x < m + 1
    OBVIOUS
  <2> QED
    BY <2>1, CanBeOrdered
<1>3. \E s \in [1 .. Cardinality(S) -> S] : \A i, j \in DOMAIN s : i < j => s[i] < s[j]
  BY <1>2 DEF Climbs
<1> DEFINE o == CHOOSE s \in [1 .. Cardinality(S) -> S] :
                  \A i, j \in DOMAIN s : i < j => s[i] < s[j]
<1>4. o \in [1 .. Cardinality(S) -> S] /\ \A i, j \in DOMAIN o : i < j => o[i] < o[j]
  BY <1>3
<1>5. InOrder(S) = o
  BY DEF InOrder
<1> HIDE DEF o
<1>6. Climbs(o, S)
  BY <1>4 DEF Climbs
<1> QED
  BY <1>1, <1>5, <1>6, ClimbsToAll DEF Enumerates

(* Two enumerations of a set agree at every place of the first. *)
LEMMA SameUpTo ==
  ASSUME NEW S \in SUBSET Nat, NEW s, NEW t, Enumerates(s, S), Enumerates(t, S)
  PROVE  \A i \in DOMAIN s : i \in DOMAIN t /\ s[i] = t[i]
<1> DEFINE Bad == {i \in DOMAIN s : ~ (i \in DOMAIN t /\ s[i] = t[i])}
<1> SUFFICES ASSUME Bad # {} PROVE FALSE
  OBVIOUS
<1>1. /\ s \in Seq(S) /\ \A x \in S : \E i \in DOMAIN s : s[i] = x
      /\ \A i, j \in DOMAIN s : i < j => s[i] < s[j]
      /\ t \in Seq(S) /\ \A x \in S : \E i \in DOMAIN t : t[i] = x
      /\ \A i, j \in DOMAIN t : i < j => t[i] < t[j]
  BY DEF Enumerates
<1>2. DOMAIN s = 1 .. Len(s) /\ DOMAIN t = 1 .. Len(t) /\ Len(s) \in Nat /\ Len(t) \in Nat
  BY <1>1
<1>3. PICK i \in Bad : \A k \in Bad : i <= k
  <2>1. Bad \in SUBSET Nat
    BY <1>2
  <2> HIDE DEF Bad
  <2> QED
    BY <2>1, LeastOne
<1>4. \A k \in DOMAIN s : k < i => k \in DOMAIN t /\ s[k] = t[k]
  <2> SUFFICES ASSUME NEW k \in DOMAIN s, k < i, ~ (k \in DOMAIN t /\ s[k] = t[k]) PROVE FALSE
    OBVIOUS
  <2>1. k \in Bad
    OBVIOUS
  <2>2. i \in Nat /\ k \in Nat
    BY <1>2
  <2> HIDE DEF Bad
  <2> QED
    BY <1>3, <2>1, <2>2
<1>5. i \in DOMAIN s /\ ~ (i \in DOMAIN t /\ s[i] = t[i])
  OBVIOUS
<1> HIDE DEF Bad
<1>6. s[i] \in S /\ s[i] \in Nat
  BY <1>1, <1>2, <1>5, ElementOfSeq
<1>7. PICK j \in DOMAIN t : t[j] = s[i]
  BY <1>1, <1>6
<1>8. j >= i
  <2> SUFFICES ASSUME j < i PROVE FALSE
    BY <1>2, <1>5
  <2>1. j \in DOMAIN s
    BY <1>2, <1>5
  <2>2. s[j] = s[i] /\ s[j] < s[i]
    BY <2>1, <1>1, <1>4, <1>5, <1>7
  <2> QED
    BY <2>2, <1>6
<1>9. i \in DOMAIN t
  BY <1>2, <1>5, <1>8
<1>10. t[i] \in S /\ t[i] \in Nat
  BY <1>1, <1>2, <1>9, ElementOfSeq
<1>11. PICK k \in DOMAIN s : s[k] = t[i]
  BY <1>1, <1>10
<1>12. k >= i
  <2> SUFFICES ASSUME k < i PROVE FALSE
    BY <1>2, <1>5
  <2>1. k \in DOMAIN t /\ t[k] = t[i]
    BY <1>4, <1>11
  <2>2. t[k] < t[i]
    BY <2>1, <1>1, <1>9
  <2> QED
    BY <2>1, <2>2, <1>10
<1>13. s[i] <= t[i]
  <2>1. k = i \/ i < k
    BY <1>2, <1>5, <1>11, <1>12
  <2>2. i < k => s[i] < s[k]
    BY <1>1, <1>5, <1>11
  <2> QED
    BY <2>1, <2>2, <1>6, <1>10, <1>11
<1>14. t[i] <= s[i]
  <2>1. j = i \/ i < j
    BY <1>2, <1>5, <1>7, <1>8
  <2>2. i < j => t[i] < t[j]
    BY <1>1, <1>9, <1>7
  <2> QED
    BY <2>1, <2>2, <1>6, <1>10, <1>7
<1> QED
  BY <1>5, <1>9, <1>13, <1>14, <1>6, <1>10

(* There is one enumeration of a set. *)
LEMMA OneEnumeration ==
  ASSUME NEW S \in SUBSET Nat, NEW s, NEW t, Enumerates(s, S), Enumerates(t, S)
  PROVE  s = t
<1>1. s \in Seq(S) /\ t \in Seq(S)
  BY DEF Enumerates
<1>2. \A i \in DOMAIN s : i \in DOMAIN t /\ s[i] = t[i]
  BY SameUpTo
<1>3. \A i \in DOMAIN t : i \in DOMAIN s
  BY SameUpTo
<1>4. DOMAIN s = DOMAIN t
  BY <1>2, <1>3
<1> QED
  BY <1>1, <1>2, <1>4, SeqEqual

(* What enumerates a bounded set is its InOrder. *)
LEMMA EnumerationIsInOrder ==
  ASSUME NEW S \in SUBSET Nat, NEW m \in Nat, \A x \in S : x <= m, NEW s, Enumerates(s, S)
  PROVE  InOrder(S) = s
BY InOrderEnumerates, OneEnumeration

(* A number greater than all of a set comes last. *)
LEMMA InOrderGrows ==
  ASSUME NEW S \in SUBSET Nat, NEW x \in Nat, \A y \in S : y < x
  PROVE  InOrder(S \cup {x}) = Append(InOrder(S), x)
<1> DEFINE T == S \cup {x}
           s == InOrder(S)
           t == Append(s, x)
<1>1. Enumerates(s, S)
  <2>1. \A y \in S : y <= x
    OBVIOUS
  <2> QED
    BY <2>1, InOrderEnumerates
<1> HIDE DEF s
<1>2. /\ s \in Seq(S) /\ \A y \in S : \E i \in DOMAIN s : s[i] = y
      /\ \A i, j \in DOMAIN s : i < j => s[i] < s[j]
  BY <1>1 DEF Enumerates
<1>3. /\ t \in Seq(T) /\ Len(t) = Len(s) + 1 /\ Len(s) \in Nat
      /\ DOMAIN s = 1 .. Len(s) /\ DOMAIN t = 1 .. Len(s) + 1
      /\ t[Len(s) + 1] = x /\ \A i \in 1 .. Len(s) : t[i] = s[i] /\ s[i] \in S
  BY <1>2
<1> HIDE DEF t
<1>4. \A y \in T : \E i \in DOMAIN t : t[i] = y
  BY <1>2, <1>3
<1>5. \A i, j \in DOMAIN t : i < j => t[i] < t[j]
  <2> SUFFICES ASSUME NEW i \in 1 .. Len(s) + 1, NEW j \in 1 .. Len(s) + 1, i < j
               PROVE  t[i] < t[j]
    BY <1>3
  <2>1. i \in 1 .. Len(s)
    BY <1>3
  <2>2. CASE j = Len(s) + 1
    BY <1>3, <2>1, <2>2
  <2>3. CASE j # Len(s) + 1
    <3>1. j \in 1 .. Len(s)
      BY <1>3, <2>3
    <3> QED
      BY <1>2, <1>3, <2>1, <3>1
  <2> QED
    BY <2>2, <2>3
<1>6. T \in SUBSET Nat /\ \A y \in T : y <= x
  OBVIOUS
<1>7. Enumerates(t, T)
  BY <1>3, <1>4, <1>5 DEF Enumerates
<1> HIDE DEF T
<1>8. InOrder(T) = t
  BY <1>6, <1>7, EnumerationIsInOrder
<1> QED
  BY <1>8 DEF T, t, s

(* No numbers in order are no numbers. *)
LEMMA InOrderOfNone == InOrder({}) = << >>
<1>1. Enumerates(<< >>, {})
  BY DEF Enumerates
<1>2. {} \in SUBSET Nat /\ 0 \in Nat /\ \A x \in {} : x <= 0
  OBVIOUS
<1> QED
  BY <1>1, <1>2, EnumerationIsInOrder

-----------------------------------------------------------------------------
(***************************************************************************)
(* The words of a text.                                                    *)
(***************************************************************************)

(* Span makes a span of two numbers. *)
LEMMA SpanIsSpan ==
  ASSUME NEW a \in Nat, NEW b \in Nat
  PROVE  Span(a, b) \in SpanSet /\ Span(a, b).start = a /\ Span(a, b).ending = b
BY DEF Span, SpanSet

(* A word that begins before a blank, or before the end of the text, ends before it. *)
LEMMA WordEndsBefore ==
  ASSUME NEW X, NEW t \in Seq(X), NEW cuts, NEW p \in Starts(t, cuts), NEW c \in Nat,
         p < c, c <= Len(t) + 1, c = Len(t) + 1 \/ t[c] = Blank
  PROVE  \E e \in Ends(t, cuts) : p < e /\ e < c
<1> DEFINE D == {q \in p + 2 .. c : q = Len(t) + 1 \/ t[q] = Blank}
<1>1. Len(t) \in Nat /\ p \in 0 .. Len(t) - 1 /\ t[p + 1] # Blank
  BY DEF Starts
<1>2. c \in D
  <2>1. c # p + 1
    BY <1>1
  <2> QED
    BY <2>1, <1>1
<1>3. PICK q \in D : \A r \in D : q <= r
  <2>1. D \in SUBSET Nat
    BY <1>1
  <2> HIDE DEF D
  <2> QED
    BY <2>1, <1>2, LeastOne
<1>4. q \in p + 2 .. c /\ (q = Len(t) + 1 \/ t[q] = Blank)
  OBVIOUS
<1>5. t[q - 1] # Blank
  <2>1. CASE q = p + 2
    BY <2>1, <1>1
  <2>2. CASE q # p + 2
    <3>1. q - 1 \in p + 2 .. c
      BY <2>2, <1>1, <1>4
    <3>2. q - 1 \notin D
      <4> HIDE DEF D
      <4> QED
        BY <1>1, <1>3, <1>4
    <3> QED
      BY <3>1, <3>2
  <2> QED
    BY <2>1, <2>2
<1> HIDE DEF D
<1>6. q - 1 \in 1 .. Len(t) /\ p < q - 1 /\ q - 1 < c /\ (q - 1) + 1 = q
  BY <1>1, <1>4
<1>7. q - 1 \in Ends(t, cuts)
  BY <1>1, <1>4, <1>5, <1>6 DEF Ends
<1> QED
  BY <1>6, <1>7

(* EndOf finds where the word that starts at p ends: at the first end behind it. *)
LEMMA WordEnd ==
  ASSUME NEW X, NEW t \in Seq(X), NEW cuts, NEW p \in Starts(t, cuts), NEW e,
         e = EndOf(p, Ends(t, cuts))
  PROVE  /\ e \in Ends(t, cuts) /\ e \in 1 .. Len(t) /\ p < e
         /\ \A f \in Ends(t, cuts) : f > p => e <= f
         /\ \A q \in DOMAIN t : p < q /\ q <= e => t[q] # Blank
<1>1. Len(t) \in Nat /\ DOMAIN t = 1 .. Len(t) /\ p \in 0 .. Len(t) - 1
  BY DEF Starts
<1> DEFINE ends == Ends(t, cuts)
           After == {f \in ends : f > p}
<1>2. ends \in SUBSET (1 .. Len(t))
  BY DEF Ends
<1>3. After # {}
  <2>1. Len(t) + 1 \in Nat /\ p < Len(t) + 1
    BY <1>1
  <2>2. \E f \in ends : p < f /\ f < Len(t) + 1
    BY <2>1, WordEndsBefore
  <2>3. PICK f \in ends : p < f
    BY <2>2
  <2>4. f > p
    BY <1>1, <1>2, <2>3
  <2> QED
    BY <2>3, <2>4
<1>4. \E f \in ends : f > p /\ \A g \in ends : g > p => f <= g
  <2>1. After \in SUBSET Nat
    BY <1>2
  <2>2. PICK f \in After : \A g \in After : f <= g
    <3> HIDE DEF After
    <3> QED
      BY <2>1, <1>3, LeastOne
  <2> QED
    BY <2>2
<1>5. e \in ends /\ e > p /\ \A f \in ends : f > p => e <= f
  <2> HIDE DEF ends
  <2>1. e = CHOOSE f \in ends : f > p /\ \A g \in ends : g > p => f <= g
    BY DEF EndOf, ends
  <2> QED
    BY <1>4, <2>1
<1>6. \A q \in DOMAIN t : p < q /\ q <= e => t[q] # Blank
  <2> SUFFICES ASSUME NEW q \in DOMAIN t, p < q, q <= e, t[q] = Blank PROVE FALSE
    OBVIOUS
  <2>1. q \in Nat /\ q <= Len(t) + 1
    BY <1>1
  <2>2. PICK f \in ends : p < f /\ f < q
    BY <2>1, WordEndsBefore
  <2>3. f \in Nat /\ e \in Nat /\ p \in Nat
    BY <1>1, <1>2, <1>5
  <2>4. e <= f
    BY <1>5, <2>2, <2>3
  <2> QED
    BY <2>1, <2>2, <2>3, <2>4
<1> QED
  BY <1>1, <1>2, <1>5, <1>6

(* Words finds the words of a text: spans in their order, without blanks, none left *)
(* out.                                                                             *)
LEMMA WordsAreWords ==
  ASSUME NEW X, NEW t \in Seq(X), NEW cuts
  PROVE  AreWords(Words(t, cuts), t)
<1> DEFINE starts == Starts(t, cuts)
           ends == Ends(t, cuts)
           s == InOrder(starts)
           ws == Words(t, cuts)
<1>1. Len(t) \in Nat /\ DOMAIN t = 1 .. Len(t)
  OBVIOUS
<1>2. starts \in SUBSET (0 .. Len(t) - 1) /\ starts \in SUBSET Nat
  BY <1>1 DEF Starts
<1>3. Enumerates(s, starts)
  <2>1. \A x \in starts : x <= Len(t)
    BY <1>1, <1>2
  <2> HIDE DEF starts
  <2> QED
    BY <1>1, <1>2, <2>1, InOrderEnumerates
<1>4. /\ s \in Seq(starts) /\ \A x \in starts : \E i \in DOMAIN s : s[i] = x
      /\ \A i, j \in DOMAIN s : i < j => s[i] < s[j]
  BY <1>3 DEF Enumerates
<1>5. ws = [i \in DOMAIN s |-> Span(s[i], EndOf(s[i], ends))]
  BY DEF Words
<1> HIDE DEF s, ws
<1>6. Len(s) \in Nat /\ DOMAIN s = 1 .. Len(s) /\ \A i \in DOMAIN s : s[i] \in starts
  BY <1>4, ElementOfSeq
<1>7. \A i \in DOMAIN s : /\ ws[i].start = s[i] /\ ws[i].ending = EndOf(s[i], ends)
                          /\ ws[i] = Span(s[i], EndOf(s[i], ends))
  BY <1>5 DEF Span
<1>8. \A i \in DOMAIN s :
        /\ ws[i].start \in starts /\ ws[i].start \in Nat
        /\ ws[i].ending \in ends /\ ws[i].ending \in 1 .. Len(t)
        /\ ws[i].start < ws[i].ending
        /\ \A f \in ends : f > ws[i].start => ws[i].ending <= f
        /\ \A q \in DOMAIN t : ws[i].start < q /\ q <= ws[i].ending => t[q] # Blank
  <2> SUFFICES ASSUME NEW i \in DOMAIN s
               PROVE  /\ ws[i].start \in starts /\ ws[i].start \in Nat
                      /\ ws[i].ending \in ends /\ ws[i].ending \in 1 .. Len(t)
                      /\ ws[i].start < ws[i].ending
                      /\ \A f \in ends : f > ws[i].start => ws[i].ending <= f
                      /\ \A q \in DOMAIN t :
                           ws[i].start < q /\ q <= ws[i].ending => t[q] # Blank
    OBVIOUS
  <2>1. ws[i].start \in starts /\ ws[i].ending = EndOf(ws[i].start, ends)
    BY <1>6, <1>7
  <2> QED
    BY <2>1, <1>2, WordEnd
<1>9. ws \in Seq(SpanSet) /\ DOMAIN ws = DOMAIN s
  <2>1. \A i \in DOMAIN s : ws[i] \in SpanSet
    <3> SUFFICES ASSUME NEW i \in DOMAIN s PROVE ws[i] \in SpanSet
      OBVIOUS
    <3>1. s[i] \in Nat /\ EndOf(s[i], ends) \in Nat
      <4>1. ws[i].start \in Nat /\ ws[i].ending \in 1 .. Len(t)
        BY <1>8
      <4>2. ws[i].start = s[i] /\ ws[i].ending = EndOf(s[i], ends)
        BY <1>7
      <4> QED
        BY <1>1, <4>1, <4>2
    <3>2. ws[i] = Span(s[i], EndOf(s[i], ends))
      BY <1>7
    <3> QED
      BY <3>1, <3>2, SpanIsSpan
  <2>2. ws \in [1 .. Len(s) -> SpanSet]
    BY <1>5, <1>6, <2>1
  <2> QED
    BY <1>6, <2>2
<1>10. \A i, j \in DOMAIN ws : i < j => ws[i].ending <= ws[j].start
  <2> SUFFICES ASSUME NEW i \in DOMAIN s, NEW j \in DOMAIN s, i < j
               PROVE  ws[i].ending <= ws[j].start
    BY <1>9
  <2> DEFINE p == ws[i].start
             c == ws[j].start
  <2>1. p \in starts /\ c \in starts /\ p < c
    BY <1>4, <1>6, <1>7
  <2>2. p \in Nat /\ c \in 0 .. Len(t) - 1 /\ c \in DOMAIN t
    BY <1>1, <1>2, <2>1
  <2>3. \E e \in ends : p < e /\ e <= c
    <3>1. CASE t[c] = Blank
      <4>1. c <= Len(t) + 1 /\ c \in Nat
        BY <1>1, <2>2
      <4>2. PICK e \in ends : p < e /\ e < c
        BY <2>1, <4>1, <3>1, WordEndsBefore
      <4>3. e \in Nat
        BY <4>2 DEF Ends
      <4> QED
        BY <2>2, <4>2, <4>3
    <3>2. CASE t[c] # Blank
      <4>1. c \in cuts
        BY <2>1, <2>2, <3>2 DEF Starts
      <4>2. c \in ends
        BY <1>1, <2>2, <3>2, <4>1 DEF Ends
      <4> QED
        BY <2>1, <2>2, <4>2
    <3> QED
      BY <3>1, <3>2
  <2>4. PICK e \in ends : p < e /\ e <= c
    BY <2>3
  <2>5. e \in Nat /\ e > p
    BY <2>2, <2>4 DEF Ends
  <2>6. ws[i].ending <= e /\ ws[i].ending \in Nat
    BY <1>8, <2>4, <2>5
  <2> QED
    BY <2>2, <2>4, <2>5, <2>6
<1>11. \A c \in DOMAIN t : t[c] # Blank => \E w \in DOMAIN ws : Holds(ws[w], c)
  <2> SUFFICES ASSUME NEW c \in DOMAIN t, t[c] # Blank
               PROVE  \E w \in DOMAIN ws : Holds(ws[w], c)
    OBVIOUS
  <2>1. c \in Nat /\ c >= 1 /\ c <= Len(t)
    BY <1>1
  <2>2. \A b \in 0 .. c - 1 : b = 0 \/ t[b] = Blank => \E p \in starts : b <= p /\ p < c
    <3> SUFFICES ASSUME NEW b \in 0 .. c - 1, b = 0 \/ t[b] = Blank
                 PROVE  \E p \in starts : b <= p /\ p < c
      OBVIOUS
    <3> DEFINE D == {q \in b .. c - 1 : q = 0 \/ t[q] = Blank}
    <3>1. PICK q \in D : \A r \in D : r <= q
      <4>1. b \in D /\ D \in SUBSET Nat /\ \A x \in D : x <= c
        BY <2>1
      <4> HIDE DEF D
      <4> QED
        BY <2>1, <4>1, GreatestOne
    <3>2. q \in b .. c - 1 /\ q \in Nat /\ (q = 0 \/ t[q] = Blank)
      BY <2>1
    <3>3. t[q + 1] # Blank
      <4>1. CASE q + 1 = c
        BY <4>1
      <4>2. CASE q + 1 # c
        <5>1. q + 1 \in b .. c - 1
          BY <2>1, <3>2, <4>2
        <5>2. q + 1 \notin D
          <6> HIDE DEF D
          <6> QED
            BY <3>1, <3>2
        <5> QED
          BY <5>1, <5>2
      <4> QED
        BY <4>1, <4>2
    <3>4. q \in 0 .. Len(t) - 1
      BY <2>1, <3>2
    <3>5. q \in starts
      BY <3>2, <3>3, <3>4 DEF Starts
    <3> QED
      BY <2>1, <3>2, <3>5
  <2> DEFINE P == {p \in starts : p < c}
  <2>3. PICK p \in P : \A q \in P : q <= p
    <3>1. P # {}
      <4>1. 0 \in 0 .. c - 1
        BY <2>1
      <4>2. PICK p \in starts : p < c
        BY <2>2, <4>1
      <4> QED
        BY <4>2
    <3>2. P \in SUBSET Nat /\ \A x \in P : x <= c
      BY <1>2, <2>1
    <3> HIDE DEF P
    <3> QED
      BY <2>1, <3>1, <3>2, GreatestOne
  <2>4. PICK w \in DOMAIN s : s[w] = p
    BY <1>4
  <2> DEFINE e == ws[w].ending
  <2>5. ws[w].start = p /\ p < c /\ p \in Nat /\ e \in ends /\ e \in 1 .. Len(t) /\ p < e
    BY <1>7, <1>8, <2>4
  <2>6. c <= e
    <3> SUFFICES ASSUME e < c PROVE FALSE
      BY <2>1, <2>5
    <3>1. e \in 0 .. c - 1 /\ e # 0 /\ e # Len(t)
      BY <2>1, <2>5, <1>1
    <3>2. \E q \in starts : e <= q /\ q < c
      <4>1. CASE t[e + 1] = Blank
        <5>1. e + 1 # c /\ e + 1 \in 0 .. c - 1
          BY <4>1, <3>1, <2>1
        <5>2. PICK q \in starts : e + 1 <= q /\ q < c
          BY <2>2, <5>1, <4>1
        <5> QED
          BY <1>2, <2>5, <5>2
      <4>2. CASE t[e + 1] # Blank
        <5>1. e \in cuts
          BY <2>5, <3>1, <4>2 DEF Ends
        <5>2. e \in 0 .. Len(t) - 1
          BY <1>1, <2>5, <3>1
        <5>3. e \in starts
          BY <4>2, <5>1, <5>2 DEF Starts
        <5> QED
          BY <2>5, <5>3
      <4> QED
        BY <4>1, <4>2
    <3>3. PICK q \in starts : e <= q /\ q < c
      BY <3>2
    <3>4. q \in P
      BY <3>3
    <3> HIDE DEF P
    <3>5. q <= p /\ q \in Nat
      BY <2>3, <3>4, <1>2, <3>3
    <3> QED
      BY <2>5, <3>3, <3>5
  <2>7. Holds(ws[w], c)
    BY <2>5, <2>6 DEF Holds
  <2> QED
    BY <1>9, <2>4, <2>7
<1>12. Rising(ws, Len(t))
  BY <1>1, <1>8, <1>9, <1>10 DEF Rising
<1>13. \A w \in DOMAIN ws : /\ ws[w].start < ws[w].ending
                            /\ \A p \in DOMAIN t : Holds(ws[w], p) => t[p] # Blank
  BY <1>8, <1>9 DEF Holds
<1>14. AreWords(ws, t)
  BY <1>11, <1>12, <1>13 DEF AreWords
<1> QED
  BY <1>14 DEF ws

-----------------------------------------------------------------------------
(***************************************************************************)
(* Sentences and tokens fit the text.                                      *)
(***************************************************************************)
Shifted(spans, o) ==
  [w \in DOMAIN spans |-> Span(spans[w].start + o, spans[w].ending + o)]

(* The starts and endings of spans are numbers. *)
LEMMA SpansHaveNumbers ==
  ASSUME NEW spans \in Seq(SpanSet)
  PROVE  /\ Len(spans) \in Nat /\ DOMAIN spans = 1 .. Len(spans)
         /\ \A w \in DOMAIN spans : /\ spans[w] \in SpanSet
                                    /\ spans[w].start \in Nat /\ spans[w].ending \in Nat
<1>1. Len(spans) \in Nat /\ DOMAIN spans = 1 .. Len(spans)
  OBVIOUS
<1>2. \A w \in DOMAIN spans : spans[w] \in SpanSet
  BY <1>1, ElementOfSeq
<1>3. \A s \in SpanSet : s.start \in Nat /\ s.ending \in Nat
  BY DEF SpanSet
<1> QED
  BY <1>1, <1>2, <1>3

(* Spans moved by an offset are spans. *)
LEMMA ShiftedSpans ==
  ASSUME NEW spans \in Seq(SpanSet), NEW o \in Nat
  PROVE  /\ Shifted(spans, o) \in Seq(SpanSet) /\ Len(Shifted(spans, o)) = Len(spans)
         /\ \A w \in DOMAIN spans :
              /\ spans[w].start \in Nat /\ spans[w].ending \in Nat
              /\ Shifted(spans, o)[w].start = spans[w].start + o
              /\ Shifted(spans, o)[w].ending = spans[w].ending + o
<1> DEFINE m == Shifted(spans, o)
<1>1. Len(spans) \in Nat /\ DOMAIN spans = 1 .. Len(spans)
  OBVIOUS
<1>2. \A w \in DOMAIN spans : spans[w].start \in Nat /\ spans[w].ending \in Nat
  BY <1>1, SpansHaveNumbers
<1>3. m = [w \in 1 .. Len(spans) |-> Span(spans[w].start + o, spans[w].ending + o)]
  BY <1>1 DEF Shifted
<1> HIDE DEF m
<1>4. \A w \in DOMAIN spans : /\ m[w] \in SpanSet
                              /\ m[w].start = spans[w].start + o
                              /\ m[w].ending = spans[w].ending + o
  <2> SUFFICES ASSUME NEW w \in 1 .. Len(spans)
               PROVE  /\ m[w] \in SpanSet /\ m[w].start = spans[w].start + o
                      /\ m[w].ending = spans[w].ending + o
    BY <1>1
  <2>1. spans[w].start + o \in Nat /\ spans[w].ending + o \in Nat
    BY <1>1, <1>2
  <2>2. m[w] = Span(spans[w].start + o, spans[w].ending + o)
    BY <1>3
  <2> QED
    BY <2>1, <2>2, SpanIsSpan
<1>5. m \in [1 .. Len(spans) -> SpanSet]
  BY <1>1, <1>3, <1>4
<1>6. m \in Seq(SpanSet) /\ Len(m) = Len(spans)
  BY <1>1, <1>5
<1> QED
  BY <1>2, <1>4, <1>6 DEF m

(* The words of a text that another one follows, after blanks. *)
LEMMA WordsGoOn ==
  ASSUME NEW X, NEW t \in Seq(X), NEW s \in Seq(X), NEW u \in Seq(X), NEW o \in Nat,
         Len(t) <= o, Len(u) = o + Len(s),
         \A p \in 1 .. Len(t) : u[p] = t[p],
         \A p \in Len(t) + 1 .. o : u[p] = Blank,
         \A p \in 1 .. Len(s) : u[p + o] = s[p],
         NEW ts, AreWords(ts, t), NEW ws, AreWords(ws, s)
  PROVE  AreWords(ts \o Shifted(ws, o), u)
<1> DEFINE m == Shifted(ws, o)
           new == ts \o m
<1>1. /\ Len(t) \in Nat /\ Len(s) \in Nat /\ Len(u) \in Nat
      /\ DOMAIN t = 1 .. Len(t) /\ DOMAIN s = 1 .. Len(s) /\ DOMAIN u = 1 .. Len(u)
  OBVIOUS
<1>2. /\ ts \in Seq(SpanSet) /\ ws \in Seq(SpanSet)
      /\ Len(ts) \in Nat /\ DOMAIN ts = 1 .. Len(ts)
      /\ Len(ws) \in Nat /\ DOMAIN ws = 1 .. Len(ws)
  BY DEF AreWords, Rising
<1>3. /\ m \in Seq(SpanSet) /\ Len(m) = Len(ws)
      /\ \A w \in DOMAIN ws : /\ ws[w].start \in Nat /\ ws[w].ending \in Nat
                              /\ m[w].start = ws[w].start + o /\ m[w].ending = ws[w].ending + o
  BY <1>2, ShiftedSpans
<1>4. \A w \in DOMAIN ts : ts[w].start \in Nat /\ ts[w].ending \in Nat
  BY <1>2, SpansHaveNumbers
<1> HIDE DEF m
<1>5. /\ new \in Seq(SpanSet) /\ Len(new) = Len(ts) + Len(ws)
      /\ DOMAIN new = 1 .. Len(ts) + Len(ws)
      /\ \A w \in 1 .. Len(ts) : new[w] = ts[w]
      /\ \A w \in 1 .. Len(ws) : new[w + Len(ts)] = m[w]
  <2>1. /\ new \in Seq(SpanSet) /\ Len(new) = Len(ts) + Len(ws)
        /\ \A w \in 1 .. Len(ts) + Len(ws) :
             new[w] = IF w <= Len(ts) THEN ts[w] ELSE m[w - Len(ts)]
    <3>1. ts \in Seq(SpanSet) /\ m \in Seq(SpanSet)
      BY <1>2, <1>3
    <3>2. /\ new \in Seq(SpanSet) /\ Len(new) = Len(ts) + Len(m)
          /\ \A w \in 1 .. Len(ts) + Len(m) :
               new[w] = IF w <= Len(ts) THEN ts[w] ELSE m[w - Len(ts)]
      BY <3>1, ConcatProperties
    <3>3. Len(m) = Len(ws)
      BY <1>3
    <3> QED
      BY <3>2, <3>3
  <2> HIDE DEF new
  <2>2. \A w \in 1 .. Len(ts) : new[w] = ts[w]
    <3>1. \A w \in 1 .. Len(ts) : w \in 1 .. Len(ts) + Len(ws) /\ w <= Len(ts)
      BY <1>2
    <3> QED
      BY <2>1, <3>1
  <2>3. \A w \in 1 .. Len(ws) : new[w + Len(ts)] = m[w]
    <3> SUFFICES ASSUME NEW w \in 1 .. Len(ws) PROVE new[w + Len(ts)] = m[w]
      OBVIOUS
    <3>1. /\ w + Len(ts) \in 1 .. Len(ts) + Len(ws) /\ ~ (w + Len(ts) <= Len(ts))
          /\ (w + Len(ts)) - Len(ts) = w
      BY <1>2
    <3> QED
      BY <2>1, <3>1
  <2>4. DOMAIN new = 1 .. Len(ts) + Len(ws)
    BY <1>2, <2>1
  <2> QED
    BY <2>1, <2>2, <2>3, <2>4
<1> HIDE DEF new
<1>6. \A w \in DOMAIN new : \/ w \in 1 .. Len(ts)
                            \/ w - Len(ts) \in 1 .. Len(ws) /\ new[w] = m[w - Len(ts)]
  <2> SUFFICES ASSUME NEW w \in 1 .. Len(ts) + Len(ws), w \notin 1 .. Len(ts)
               PROVE  w - Len(ts) \in 1 .. Len(ws) /\ new[w] = m[w - Len(ts)]
    BY <1>5
  <2>1. w - Len(ts) \in 1 .. Len(ws) /\ (w - Len(ts)) + Len(ts) = w
    BY <1>2
  <2> QED
    BY <2>1, <1>5
<1>7. \A w \in 1 .. Len(ts) :
        /\ ts[w].start < ts[w].ending /\ ts[w].ending <= Len(t)
        /\ \A p \in DOMAIN t : Holds(ts[w], p) => t[p] # Blank
  BY <1>2 DEF AreWords, Rising
<1>8. \A w \in 1 .. Len(ws) :
        /\ ws[w].start < ws[w].ending /\ ws[w].ending <= Len(s)
        /\ \A p \in DOMAIN s : Holds(ws[w], p) => s[p] # Blank
  BY <1>2 DEF AreWords, Rising
<1>9. \A w \in DOMAIN new : /\ new[w].start < new[w].ending /\ new[w].ending <= Len(u)
                            /\ \A p \in DOMAIN u : Holds(new[w], p) => u[p] # Blank
  <2> SUFFICES ASSUME NEW w \in DOMAIN new
               PROVE  /\ new[w].start < new[w].ending /\ new[w].ending <= Len(u)
                      /\ \A p \in DOMAIN u : Holds(new[w], p) => u[p] # Blank
    OBVIOUS
  <2>1. CASE w \in 1 .. Len(ts)
    <3>1. /\ new[w] = ts[w] /\ new[w].start \in Nat /\ new[w].ending \in Nat
          /\ new[w].start < new[w].ending /\ new[w].ending <= Len(t)
      BY <2>1, <1>2, <1>4, <1>5, <1>7
    <3>2. \A p \in DOMAIN u : Holds(new[w], p) => p \in 1 .. Len(t)
      BY <1>1, <3>1 DEF Holds
    <3>3. \A p \in DOMAIN u : Holds(new[w], p) => u[p] # Blank
      BY <1>1, <1>7, <2>1, <3>1, <3>2
    <3> QED
      BY <1>1, <3>1, <3>3
  <2>2. CASE w - Len(ts) \in 1 .. Len(ws) /\ new[w] = m[w - Len(ts)]
    <3> DEFINE v == w - Len(ts)
    <3>1. /\ v \in 1 .. Len(ws) /\ ws[v].start \in Nat /\ ws[v].ending \in Nat
          /\ new[w].start = ws[v].start + o /\ new[w].ending = ws[v].ending + o
          /\ ws[v].start < ws[v].ending /\ ws[v].ending <= Len(s)
      BY <2>2, <1>2, <1>3, <1>8
    <3>2. \A p \in DOMAIN u : Holds(new[w], p) => u[p] # Blank
      <4> SUFFICES ASSUME NEW p \in 1 .. Len(u), Holds(new[w], p) PROVE u[p] # Blank
        BY <1>1
      <4>0. ws[v].start + o < p /\ p <= ws[v].ending + o
        BY <3>1 DEF Holds
      <4>1. p - o \in 1 .. Len(s) /\ (p - o) + o = p /\ Holds(ws[v], p - o)
        <5> HIDE DEF v
        <5>1. p \in Nat /\ Len(s) \in Nat
          BY <1>1
        <5>2. ws[v].start < p - o /\ p - o <= ws[v].ending
          BY <3>1, <4>0, <5>1
        <5> QED
          BY <3>1, <5>1, <5>2 DEF Holds
      <4>2. u[p] = s[p - o]
        BY <4>1
      <4> QED
        BY <1>1, <1>8, <3>1, <4>1, <4>2
    <3> QED
      BY <1>1, <3>1, <3>2
  <2> QED
    BY <1>6, <2>1, <2>2
<1>10. \A i, j \in DOMAIN new : i < j => new[i].ending <= new[j].start
  <2> SUFFICES ASSUME NEW i \in DOMAIN new, NEW j \in DOMAIN new, i < j
               PROVE  new[i].ending <= new[j].start
    OBVIOUS
  <2>1. \A v, w \in DOMAIN ts : v < w => ts[v].ending <= ts[w].start
    BY DEF AreWords, Rising
  <2>2. \A v, w \in DOMAIN ws : v < w => ws[v].ending <= ws[w].start
    BY DEF AreWords, Rising
  <2>3. i \in Nat /\ j \in Nat
    BY <1>2, <1>5
  <2>4. CASE i \in 1 .. Len(ts) /\ j \in 1 .. Len(ts)
    BY <1>2, <1>5, <2>1, <2>4
  <2>5. CASE i \in 1 .. Len(ts) /\ j - Len(ts) \in 1 .. Len(ws) /\ new[j] = m[j - Len(ts)]
    <3>1. new[i].ending <= Len(t) /\ new[i].ending \in Nat
      BY <1>2, <1>4, <1>5, <1>7, <2>5
    <3>2. new[j].start >= o /\ new[j].start \in Nat
      <4>1. /\ ws[j - Len(ts)].start \in Nat
            /\ m[j - Len(ts)].start = ws[j - Len(ts)].start + o
        BY <1>2, <1>3, <2>5
      <4> QED
        BY <2>5, <4>1
    <3> QED
      BY <1>1, <3>1, <3>2
  <2>6. CASE i \notin 1 .. Len(ts)
    <3>1. /\ i - Len(ts) \in 1 .. Len(ws) /\ new[i] = m[i - Len(ts)]
          /\ j - Len(ts) \in 1 .. Len(ws) /\ new[j] = m[j - Len(ts)]
          /\ i - Len(ts) < j - Len(ts)
      BY <1>2, <1>6, <2>3, <2>6
    <3>2. ws[i - Len(ts)].ending <= ws[j - Len(ts)].start
      BY <1>2, <2>2, <3>1
    <3> QED
      BY <1>2, <1>3, <3>1, <3>2
  <2> QED
    BY <1>6, <2>4, <2>5, <2>6
<1>11. \A p \in DOMAIN u : u[p] # Blank => \E w \in DOMAIN new : Holds(new[w], p)
  <2> SUFFICES ASSUME NEW p \in 1 .. Len(u), u[p] # Blank
               PROVE  \E w \in DOMAIN new : Holds(new[w], p)
    BY <1>1
  <2>1. CASE p <= Len(t)
    <3>1. p \in 1 .. Len(t) /\ t[p] # Blank
      BY <1>1, <2>1
    <3>2. PICK w \in DOMAIN ts : Holds(ts[w], p)
      BY <1>1, <3>1 DEF AreWords
    <3>3. w \in DOMAIN new /\ new[w] = ts[w]
      BY <1>2, <1>5
    <3> QED
      BY <3>2, <3>3
  <2>2. CASE ~ (p <= Len(t))
    <3>1. p > o
      BY <1>1, <2>2
    <3>2. p - o \in 1 .. Len(s) /\ (p - o) + o = p
      BY <1>1, <3>1
    <3>3. s[p - o] # Blank
      BY <3>2
    <3>4. PICK w \in DOMAIN ws : Holds(ws[w], p - o)
      BY <1>1, <3>2, <3>3 DEF AreWords
    <3>5. w + Len(ts) \in DOMAIN new /\ new[w + Len(ts)] = m[w]
      BY <1>2, <1>5
    <3>6. Holds(m[w], p)
      BY <1>1, <1>3, <3>4 DEF Holds
    <3> QED
      BY <3>5, <3>6
  <2> QED
    BY <2>1, <2>2
<1>12. Rising(new, Len(u))
  <2>1. \A w \in DOMAIN new : new[w].start <= new[w].ending
    <3>1. \A w \in DOMAIN new : new[w].start \in Nat /\ new[w].ending \in Nat
      BY <1>5, SpansHaveNumbers
    <3> QED
      BY <1>9, <3>1
  <2> QED
    BY <2>1, <1>5, <1>9, <1>10 DEF Rising
<1>13. AreWords(new, u)
  BY <1>9, <1>11, <1>12 DEF AreWords
<1> QED
  BY <1>13 DEF new, m

(* One more sentence, with the tokens that are in it. *)
LEMMA SentencesGoOn ==
  ASSUME NEW ss, NEW n \in Nat, NEW k \in Nat, Rising(ss, n), NEW from \in Nat, NEW to \in Nat,
         \A i \in DOMAIN ss : ss[i].ending <= from,
         from <= to, to <= k, n <= k
  PROVE  Rising(Append(ss, Span(from, to)), k)
<1> DEFINE new == Append(ss, Span(from, to))
<1>1. /\ ss \in Seq(SpanSet) /\ Len(ss) \in Nat /\ DOMAIN ss = 1 .. Len(ss)
      /\ \A i \in DOMAIN ss : ss[i].start <= ss[i].ending /\ ss[i].ending <= n
      /\ \A i, j \in DOMAIN ss : i < j => ss[i].ending <= ss[j].start
  BY DEF Rising
<1>2. \A i \in DOMAIN ss : ss[i].start \in Nat /\ ss[i].ending \in Nat
  BY <1>1, SpansHaveNumbers
<1>3. Span(from, to) \in SpanSet /\ Span(from, to).start = from /\ Span(from, to).ending = to
  BY SpanIsSpan
<1>4. /\ new \in Seq(SpanSet) /\ DOMAIN new = 1 .. Len(ss) + 1
      /\ new[Len(ss) + 1].start = from /\ new[Len(ss) + 1].ending = to
      /\ \A i \in DOMAIN ss : new[i] = ss[i]
  <2> HIDE DEF Span
  <2> QED
    BY <1>1, <1>3, AppendProperties
<1> HIDE DEF new
<1>5. \A i \in DOMAIN new : i \in DOMAIN ss \/ i = Len(ss) + 1
  BY <1>1, <1>4
<1>6. \A i \in DOMAIN new : new[i].start <= new[i].ending /\ new[i].ending <= k
  <2> SUFFICES ASSUME NEW i \in DOMAIN new
               PROVE  new[i].start <= new[i].ending /\ new[i].ending <= k
    OBVIOUS
  <2>1. CASE i \in DOMAIN ss
    BY <1>1, <1>2, <1>4, <2>1
  <2>2. CASE i = Len(ss) + 1
    BY <1>4, <2>2
  <2> QED
    BY <1>5, <2>1, <2>2
<1>7. \A i, j \in DOMAIN new : i < j => new[i].ending <= new[j].start
  <2> SUFFICES ASSUME NEW i \in DOMAIN new, NEW j \in DOMAIN new, i < j
               PROVE  new[i].ending <= new[j].start
    OBVIOUS
  <2>1. i \in DOMAIN ss
    BY <1>1, <1>4
  <2>2. CASE j \in DOMAIN ss
    BY <1>1, <1>4, <2>1, <2>2
  <2>3. CASE j = Len(ss) + 1
    BY <1>4, <2>1, <2>3
  <2> QED
    BY <1>5, <2>2, <2>3
<1> QED
  BY <1>4, <1>6, <1>7 DEF Rising, new

(* An empty text has no words, and no words fit every text. *)
LEMMA NothingYet ==
  /\ << >> \in Seq(SpanSet) /\ << >> \in Seq(Chars)
  /\ \A n \in Nat : Rising(<< >>, n)
  /\ AreWords(<< >>, << >>)
  /\ \A ss : InSentences(<< >>, ss)
<1>1. << >> \in Seq(SpanSet) /\ DOMAIN << >> = {} /\ Len(<< >>) = 0 /\ << >> \in Seq(Chars)
  OBVIOUS
<1>2. \A n \in Nat : Rising(<< >>, n)
  BY <1>1 DEF Rising
<1>3. AreWords(<< >>, << >>)
  BY <1>1, <1>2 DEF AreWords
<1> QED
  BY <1>1, <1>2, <1>3 DEF InSentences

(* A record that came fits the text from the beginning. *)
LEMMA RecordBegins == RecordInit => RecordInv
<1> SUFFICES ASSUME RecordInit PROVE RecordInv
  OBVIOUS
<1>1. /\ given \in Seq(Seq(Char)) /\ text \in Seq(Chars)
      /\ (place = "whitespacer" /\ text = << >>) \/ place = "tokenizer"
  <2>1. << >> \in Seq(Seq(Char)) /\ << >> \in Seq(Chars)
    OBVIOUS
  <2>2. \A t \in RawTexts : t \in Seq(Chars)
    <3>1. RawTexts \subseteq Seq(Char) /\ Char \subseteq Chars
      BY RecordAssumption DEF Chars
    <3> QED
      BY <3>1, SeqMonotonic
  <2>3. \A g \in Texts : g \in Seq(Seq(Char))
    BY RecordAssumption
  <2> QED
    BY <2>1, <2>2, <2>3 DEF RecordInit
<1>2. /\ offset = 0 /\ split = << >> /\ sentences = << >> /\ tokens = << >>
      /\ handler = "none"
  BY DEF RecordInit
<1>3. RecordTyped
  BY <1>1, <1>2, NothingYet DEF RecordTyped, Unasked, Early, Taking
<1>4. Joining
  BY <1>1, <1>2 DEF Joining
<1>5. Labelled
  <2>1. Len(text) \in Nat
    BY <1>1
  <2> QED
    BY <1>1, <1>2, <2>1, NothingYet DEF Labelled, Fit
<1>6. Tokenizing
  BY <1>1, <1>2 DEF Tokenizing
<1> QED
  BY <1>3, <1>4, <1>5, <1>6 DEF RecordInv

(* The Whitespacer labels one more of the sentences that came. *)
LEMMA WhitespacerGoesOn ==
  ASSUME RecordInv, WhitespaceSentence
  PROVE  RecordInv'
<1> DEFINE n == Len(sentences)
           s == given[n + 1]
           ws == Words(s, {})
           new == Span(offset, Len(s) + offset)
<1>1. /\ given \in Seq(Seq(Char)) /\ text \in Seq(Chars) /\ offset \in Nat
      /\ split \in Seq(SpanSet) /\ sentences \in Seq(SpanSet) /\ tokens \in Seq(SpanSet)
      /\ handler \in Taking \cup {"none"}
  BY DEF RecordInv, RecordTyped
<1>2. /\ place = "whitespacer" /\ n < Len(given)
      /\ text' = IF n = 0 THEN s ELSE Append(text, Blank) \o s
      /\ sentences' = Append(sentences, new)
      /\ tokens' = tokens \o Shifted(ws, offset)
      /\ offset' = offset + Len(s) + 1
      /\ given' = given /\ split' = split /\ place' = place /\ handler' = handler
  BY DEF WhitespaceSentence, Shifted
<1>3. /\ offset = IF sentences = << >> THEN 0 ELSE Len(text) + 1
      /\ sentences = << >> => text = << >>
  BY <1>2 DEF RecordInv, Joining
<1>4. AreWords(tokens, text) /\ Rising(sentences, Len(text)) /\ InSentences(tokens, sentences)
  BY <1>2 DEF RecordInv, Labelled, Fit
<1>5. /\ s \in Seq(Char) /\ Len(s) \in Nat /\ Len(text) \in Nat /\ n \in Nat
      /\ (n = 0 <=> sentences = << >>)
  <2>1. n \in Nat /\ n + 1 \in 1 .. Len(given)
    BY <1>1, <1>2
  <2>2. s \in Seq(Char)
    BY <1>1, <2>1, ElementOfSeq
  <2>3. Len(s) \in Nat
    BY <2>2
  <2>4. Len(text) \in Nat
    BY <1>1
  <2>5. n = 0 <=> sentences = << >>
    BY <1>1, EmptySeq
  <2> QED
    BY <2>1, <2>2, <2>3, <2>4, <2>5
<1>6. AreWords(ws, s)
  BY <1>5, WordsAreWords
<1> HIDE DEF s, ws, n
<1>7. /\ text' \in Seq(Chars) /\ text \in Seq(Chars)
      /\ s \in Seq(Chars)
      /\ Len(text') = offset + Len(s) /\ Len(text) <= offset
      /\ \A p \in 1 .. Len(text) : text'[p] = text[p]
      /\ \A p \in Len(text) + 1 .. offset : text'[p] = Blank
      /\ \A p \in 1 .. Len(s) : text'[p + offset] = s[p]
  <2>1. text \in Seq(Chars) /\ s \in Seq(Chars) /\ Blank \in Chars
    <3>1. Char \subseteq Chars /\ Blank \in Chars
      BY DEF Chars
    <3> QED
      BY <1>1, <1>5, <3>1, SeqMonotonic
  <2>2. CASE n = 0
    <3>1. text' = s /\ offset = 0 /\ Len(text) = 0
      BY <1>2, <1>3, <1>5, <2>2
    <3> QED
      BY <2>1, <3>1, <1>5
  <2>3. CASE n # 0
    <3> DEFINE t == Append(text, Blank)
    <3>1. text' = t \o s /\ offset = Len(text) + 1
      BY <1>2, <1>3, <1>5, <2>3
    <3>2. /\ t \in Seq(Chars) /\ Len(t) = offset /\ t[offset] = Blank
          /\ \A p \in 1 .. Len(text) : t[p] = text[p]
      BY <2>1, <3>1, <1>5, AppendProperties
    <3> HIDE DEF t
    <3>3. /\ text' \in Seq(Chars) /\ Len(text') = offset + Len(s)
          /\ \A p \in 1 .. offset + Len(s) :
               text'[p] = IF p <= offset THEN t[p] ELSE s[p - offset]
      <4>1. /\ t \o s \in Seq(Chars) /\ Len(t \o s) = Len(t) + Len(s)
            /\ \A p \in 1 .. Len(t) + Len(s) :
                 (t \o s)[p] = IF p <= Len(t) THEN t[p] ELSE s[p - Len(t)]
        <5>1. t \in Seq(Chars) /\ s \in Seq(Chars)
          BY <2>1, <3>2
        <5> QED
          BY <5>1, ConcatProperties
      <4> QED
        BY <3>1, <3>2, <4>1
    <3>4. \A p \in 1 .. Len(text) : text'[p] = text[p]
      <4>1. \A p \in 1 .. Len(text) : p \in 1 .. offset + Len(s) /\ p <= offset
        BY <1>1, <1>5, <3>1
      <4> QED
        BY <3>2, <3>3, <4>1
    <3>5. \A p \in Len(text) + 1 .. offset : text'[p] = Blank
      <4>1. \A p \in Len(text) + 1 .. offset :
              p = offset /\ p \in 1 .. offset + Len(s) /\ p <= offset
        BY <1>1, <1>5, <3>1
      <4> QED
        BY <3>2, <3>3, <4>1
    <3>6. \A p \in 1 .. Len(s) : text'[p + offset] = s[p]
      <4>1. \A p \in 1 .. Len(s) : /\ p + offset \in 1 .. offset + Len(s)
                                   /\ ~ (p + offset <= offset) /\ (p + offset) - offset = p
        BY <1>1, <1>5
      <4> QED
        BY <3>3, <4>1
    <3> QED
      BY <2>1, <3>1, <3>3, <3>4, <3>5, <3>6, <1>5
  <2> QED
    BY <2>2, <2>3
<1>8. AreWords(tokens', text')
  BY <1>1, <1>2, <1>4, <1>6, <1>7, WordsGoOn
<1>9. Rising(sentences', Len(text'))
  <2>1. \A i \in DOMAIN sentences : sentences[i].ending <= offset
    <3>1. \A i \in DOMAIN sentences : sentences[i].ending <= Len(text) /\ sentences[i].ending \in Nat
      BY <1>1, <1>4, SpansHaveNumbers DEF Rising
    <3> QED
      BY <1>1, <1>5, <1>7, <3>1
  <2>2. /\ Len(s) + offset \in Nat /\ Len(text') \in Nat /\ offset <= Len(s) + offset
        /\ Len(s) + offset <= Len(text') /\ Len(text) <= Len(text')
    BY <1>1, <1>5, <1>7
  <2> QED
    BY <1>1, <1>2, <1>4, <1>5, <2>1, <2>2, SentencesGoOn
<1>10. InSentences(tokens', sentences')
  <2>1. /\ new \in SpanSet /\ new.start = offset /\ new.ending = Len(s) + offset
    <3>1. Len(s) + offset \in Nat
      BY <1>1, <1>5
    <3> QED
      BY <1>1, <3>1, SpanIsSpan
  <2> HIDE DEF new
  <2>2. /\ \A i \in DOMAIN sentences : i \in DOMAIN sentences' /\ sentences'[i] = sentences[i]
        /\ n + 1 \in DOMAIN sentences' /\ sentences'[n + 1] = new
    <3>1. /\ DOMAIN sentences = 1 .. n /\ sentences' = Append(sentences, new)
          /\ sentences \in Seq(SpanSet) /\ n \in Nat
      BY <1>1, <1>2, <1>5 DEF n
    <3>2. /\ DOMAIN sentences' = 1 .. n + 1
          /\ \A i \in 1 .. n : sentences'[i] = sentences[i]
          /\ sentences'[n + 1] = new
      BY <2>1, <3>1, AppendProperties DEF n
    <3> QED
      BY <3>1, <3>2
  <2>3. ws \in Seq(SpanSet) /\ \A w \in DOMAIN ws : ws[w].ending <= Len(s)
    BY <1>6 DEF AreWords, Rising
  <2> DEFINE m == Shifted(ws, offset)
  <2>4. /\ m \in Seq(SpanSet) /\ Len(m) = Len(ws) /\ DOMAIN ws = 1 .. Len(ws) /\ Len(ws) \in Nat
        /\ DOMAIN tokens = 1 .. Len(tokens) /\ Len(tokens) \in Nat
        /\ \A w \in DOMAIN ws : /\ ws[w].start \in Nat /\ ws[w].ending \in Nat
                                /\ m[w].start = ws[w].start + offset
                                /\ m[w].ending = ws[w].ending + offset
    BY <1>1, <2>3, ShiftedSpans
  <2>5. tokens' = tokens \o m
    BY <1>2
  <2> HIDE DEF m
  <2>6. /\ Len(tokens') = Len(tokens) + Len(m) /\ tokens' \in Seq(SpanSet)
        /\ \A w \in 1 .. Len(tokens) + Len(m) :
             tokens'[w] = IF w <= Len(tokens) THEN tokens[w] ELSE m[w - Len(tokens)]
    <3>1. tokens \in Seq(SpanSet) /\ m \in Seq(SpanSet)
      BY <1>1, <2>4
    <3>2. /\ Len(tokens \o m) = Len(tokens) + Len(m) /\ tokens \o m \in Seq(SpanSet)
          /\ \A w \in 1 .. Len(tokens) + Len(m) :
               (tokens \o m)[w] = IF w <= Len(tokens) THEN tokens[w] ELSE m[w - Len(tokens)]
      BY <3>1, ConcatProperties
    <3> QED
      BY <2>5, <3>2
  <2> SUFFICES ASSUME NEW w \in 1 .. Len(tokens) + Len(ws)
               PROVE  \E i \in DOMAIN sentences' : IsIn(tokens'[w], sentences'[i])
    BY <2>4, <2>6 DEF InSentences
  <2>7. CASE w <= Len(tokens)
    <3>1. w \in DOMAIN tokens /\ tokens'[w] = tokens[w]
      BY <2>4, <2>6, <2>7
    <3>2. PICK i \in DOMAIN sentences : IsIn(tokens[w], sentences[i])
      BY <1>4, <3>1 DEF InSentences
    <3> QED
      BY <2>2, <3>1, <3>2
  <2>8. CASE ~ (w <= Len(tokens))
    <3> DEFINE v == w - Len(tokens)
    <3>1. v \in DOMAIN ws /\ tokens'[w] = m[v]
      BY <2>4, <2>6, <2>8
    <3>2. /\ m[v].start = ws[v].start + offset /\ m[v].ending = ws[v].ending + offset
          /\ ws[v].start \in Nat /\ ws[v].ending \in Nat /\ ws[v].ending <= Len(s)
      BY <2>3, <2>4, <3>1
    <3>3. IsIn(m[v], new)
      <4> HIDE DEF v, s
      <4>1. m[v].start >= offset /\ m[v].ending <= Len(s) + offset
        <5>1. offset \in Nat /\ Len(s) \in Nat
          BY <1>1, <1>5
        <5> QED
          BY <3>2, <5>1
      <4>2. new.start = offset /\ new.ending = Len(s) + offset
        BY <2>1
      <4> QED
        BY <4>1, <4>2 DEF IsIn
    <3> QED
      BY <2>2, <3>1, <3>3
  <2> QED
    BY <2>7, <2>8
<1>11. RecordTyped'
  <2>1. offset + Len(s) + 1 \in Nat
    BY <1>1, <1>5
  <2>2. sentences' \in Seq(SpanSet) /\ tokens' \in Seq(SpanSet)
    BY <1>8, <1>9 DEF AreWords, Rising
  <2> QED
    BY <1>1, <1>2, <1>7, <2>1, <2>2 DEF RecordTyped, Unasked, Early
<1>12. Joining'
  <2>1. sentences' # << >>
    <3>1. new \in SpanSet
      <4>1. Len(s) + offset \in Nat
        BY <1>1, <1>5
      <4> QED
        BY <1>1, <4>1, SpanIsSpan
    <3>2. sentences \in Seq(SpanSet) /\ sentences' = Append(sentences, new)
      BY <1>1, <1>2
    <3> HIDE DEF new
    <3> QED
      BY <3>1, <3>2, AppendProperties
  <2>2. offset' = Len(text') + 1
    BY <1>2, <1>7
  <2> QED
    BY <2>1, <2>2 DEF Joining
<1>13. Labelled'
  BY <1>8, <1>9, <1>10 DEF Labelled, Fit
<1>14. Tokenizing'
  BY <1>2 DEF Tokenizing
<1> QED
  BY <1>11, <1>12, <1>13, <1>14 DEF RecordInv

(* What the splitter takes for words are the words of the text. *)
LEMMA SplitterGoesOn ==
  ASSUME RecordInv, SplitAll
  PROVE  RecordInv'
<1>1. /\ given \in Seq(Seq(Char)) /\ text \in Seq(Chars) /\ offset \in Nat
      /\ sentences \in Seq(SpanSet) /\ tokens \in Seq(SpanSet)
      /\ handler \in Taking \cup {"none"}
  BY DEF RecordInv, RecordTyped
<1>2. /\ place = "tokenizer" /\ place' = "splitting" /\ handler' = handler
      /\ given' = given /\ text' = text /\ offset' = offset
      /\ sentences' = sentences /\ tokens' = tokens
  BY DEF SplitAll
<1>3. PICK cuts : split' = Words(text, cuts)
  BY DEF SplitAll
<1>4. AreWords(split', text)
  BY <1>1, <1>3, WordsAreWords
<1>5. sentences = << >> /\ tokens = << >>
  BY <1>2 DEF RecordInv, Tokenizing
<1>6. RecordTyped'
  <2>1. split' \in Seq(SpanSet)
    BY <1>4 DEF AreWords, Rising
  <2> QED
    BY <1>1, <1>2, <2>1 DEF RecordTyped, Unasked, Early
<1>7. Joining' /\ Labelled'
  BY <1>2 DEF Joining, Labelled, Fit
<1>8. Tokenizing'
  <2>1. Len(split') \in Nat /\ split' \in Seq(SpanSet) /\ Len(text) \in Nat
    BY <1>1, <1>4 DEF AreWords, Rising
  <2>2. Len(tokens) <= Len(split') /\ tokens = SubSeq(split', 1, Len(tokens))
    <3>1. Len(tokens) = 0
      BY <1>5
    <3>2. SubSeq(split', 1, 0) = << >>
      BY <2>1, SubSeqEmpty
    <3> QED
      BY <1>5, <2>1, <3>1, <3>2
  <2>3. Rising(sentences, Len(text)) /\ InSentences(tokens, sentences)
    BY <1>5, <2>1, NothingYet
  <2>4. DOMAIN sentences = {}
    BY <1>5
  <2> QED
    BY <1>2, <1>4, <2>2, <2>3, <2>4 DEF Tokenizing
<1> QED
  BY <1>6, <1>7, <1>8 DEF RecordInv

(* The tokenizer labels one more sentence, with the words up to its last. *)
LEMMA TokenizerGoesOn ==
  ASSUME RecordInv, TokenizerSentence
  PROVE  RecordInv'
<1> DEFINE n == Len(tokens)
<1>1. /\ given \in Seq(Seq(Char)) /\ text \in Seq(Chars) /\ offset \in Nat
      /\ split \in Seq(SpanSet) /\ sentences \in Seq(SpanSet) /\ tokens \in Seq(SpanSet)
      /\ handler \in Taking \cup {"none"}
  BY DEF RecordInv, RecordTyped
<1>2. /\ place = "splitting" /\ n < Len(split) /\ handler' = handler
      /\ given' = given /\ text' = text /\ offset' = offset /\ split' = split
  BY DEF TokenizerSentence
<1>3. /\ AreWords(split, text)
      /\ n <= Len(split) /\ tokens = SubSeq(split, 1, n)
      /\ Rising(sentences, Len(text)) /\ InSentences(tokens, sentences)
      /\ \A i \in DOMAIN sentences : tokens # << >> /\ sentences[i].ending <= tokens[n].ending
  BY <1>2 DEF RecordInv, Tokenizing
<1>4. n \in Nat /\ Len(split) \in Nat /\ Len(text) \in Nat
  BY <1>1
<1> HIDE DEF n
<1>5. CASE place' = "failed" /\ UNCHANGED <<sentences, tokens>>
  <2>1. RecordTyped'
    BY <1>1, <1>2, <1>5 DEF RecordTyped
  <2>2. Joining' /\ Labelled' /\ Tokenizing'
    BY <1>5 DEF Joining, Labelled, Fit, Tokenizing
  <2> QED
    BY <2>1, <2>2 DEF RecordInv
<1>6. ASSUME NEW last \in n + 1 .. Len(split),
             sentences' = Append(sentences, Span(split[n + 1].start, split[last].ending)),
             tokens' = SubSeq(split, 1, last), place' = place
      PROVE  RecordInv'
  <2> DEFINE from == split[n + 1].start
             to == split[last].ending
  <2>1. /\ last \in Nat /\ last \in 1 .. Len(split) /\ n + 1 \in 1 .. Len(split)
        /\ DOMAIN split = 1 .. Len(split)
        /\ \A w \in 1 .. Len(split) : /\ split[w].start \in Nat /\ split[w].ending \in Nat
                                      /\ split[w].start < split[w].ending
                                      /\ split[w].ending <= Len(text)
        /\ \A v, w \in 1 .. Len(split) : v < w => split[v].ending <= split[w].start
    <3>1. /\ DOMAIN split = 1 .. Len(split)
          /\ \A w \in DOMAIN split : split[w].start \in Nat /\ split[w].ending \in Nat
      BY <1>1, SpansHaveNumbers
    <3>2. last \in Nat /\ last \in 1 .. Len(split) /\ n + 1 \in 1 .. Len(split)
      BY <1>2, <1>4
    <3>3. /\ \A w \in DOMAIN split : split[w].start < split[w].ending
          /\ \A w \in DOMAIN split : split[w].ending <= Len(text)
          /\ \A v, w \in DOMAIN split : v < w => split[v].ending <= split[w].start
      BY <1>3 DEF AreWords, Rising
    <3> QED
      BY <3>1, <3>2, <3>3
  <2>2. from \in Nat /\ to \in Nat /\ from <= to /\ to <= Len(text)
    <3>1. last = n + 1 \/ n + 1 < last
      BY <1>4
    <3>2. n + 1 < last => split[n + 1].ending <= split[last].start
      BY <2>1
    <3> QED
      BY <2>1, <3>1, <3>2, <1>4
  <2>3. /\ tokens' \in Seq(SpanSet) /\ Len(tokens') = last /\ DOMAIN tokens' = 1 .. last
        /\ \A w \in 1 .. last : tokens'[w] = split[w]
    <3>1. /\ SubSeq(split, 1, last) \in Seq(SpanSet) /\ Len(SubSeq(split, 1, last)) = last
          /\ \A w \in 1 .. last : SubSeq(split, 1, last)[w] = split[w]
      BY <1>1, <2>1
    <3> QED
      BY <2>1, <3>1, <1>6
  <2>4. DOMAIN tokens = 1 .. n /\ \A w \in 1 .. n : tokens[w] = split[w]
    <3>1. \A w \in 1 .. n : SubSeq(split, 1, n)[w] = split[w]
      BY <1>1, <1>3, <1>4
    <3> QED
      BY <1>1, <1>3, <3>1 DEF n
  <2>5. \A i \in DOMAIN sentences : sentences[i].ending <= from
    <3> SUFFICES ASSUME NEW i \in DOMAIN sentences PROVE sentences[i].ending <= from
      OBVIOUS
    <3>1. n # 0
      BY <1>1, <1>3 DEF n
    <3>2. n \in 1 .. Len(split) /\ tokens[n] = split[n]
      BY <1>4, <2>1, <2>4, <3>1
    <3>3. split[n].ending <= from
      BY <1>4, <2>1, <3>2
    <3>4. sentences[i].ending \in Nat
      BY <1>1, SpansHaveNumbers
    <3> QED
      BY <1>3, <2>1, <2>2, <3>2, <3>3, <3>4
  <2> DEFINE new == Span(from, to)
  <2>6. new \in SpanSet /\ new.start = from /\ new.ending = to
    BY <2>2, SpanIsSpan
  <2> HIDE DEF from, to
  <2>7. Rising(sentences', Len(text'))
    <3>1. Len(text) <= Len(text)
      BY <1>4
    <3>2. Rising(Append(sentences, Span(from, to)), Len(text))
      BY <1>3, <1>4, <2>2, <2>5, <3>1, SentencesGoOn
    <3> QED
      BY <1>2, <1>6, <3>2 DEF from, to
  <2> HIDE DEF new
  <2>8. /\ \A i \in DOMAIN sentences : i \in DOMAIN sentences' /\ sentences'[i] = sentences[i]
        /\ Len(sentences) + 1 \in DOMAIN sentences' /\ sentences'[Len(sentences) + 1] = new
        /\ \A i \in DOMAIN sentences' : i \in DOMAIN sentences \/ i = Len(sentences) + 1
    BY <1>1, <1>6, <2>6, AppendProperties DEF new, from, to
  <2>9. InSentences(tokens', sentences')
    <3> SUFFICES ASSUME NEW w \in 1 .. last
                 PROVE  \E i \in DOMAIN sentences' : IsIn(tokens'[w], sentences'[i])
      BY <2>3 DEF InSentences
    <3>1. CASE w <= n
      <4>1. w \in DOMAIN tokens /\ tokens'[w] = tokens[w]
        BY <1>4, <2>3, <2>4, <3>1
      <4> QED
        BY <1>3, <2>8, <4>1 DEF InSentences
    <3>2. CASE ~ (w <= n)
      <4>1. w \in 1 .. Len(split) /\ w >= n + 1 /\ w <= last /\ tokens'[w] = split[w]
        BY <1>4, <2>1, <2>3, <3>2
      <4>2. from <= split[w].start
        <5>1. w = n + 1 \/ n + 1 < w
          BY <1>4, <4>1
        <5>2. n + 1 < w => split[n + 1].ending <= split[w].start
          BY <2>1, <4>1
        <5> QED
          BY <2>1, <4>1, <5>1, <5>2 DEF from
      <4>3. split[w].ending <= to
        <5>1. w = last \/ w < last
          BY <2>1, <4>1
        <5>2. w < last => split[w].ending <= split[last].start
          BY <2>1, <4>1
        <5> QED
          BY <2>1, <4>1, <5>1, <5>2 DEF to
      <4>4. IsIn(tokens'[w], new)
        BY <2>1, <2>2, <2>6, <4>1, <4>2, <4>3 DEF IsIn
      <4> QED
        BY <2>8, <4>4
    <3> QED
      BY <3>1, <3>2
  <2>10. \A i \in DOMAIN sentences' :
           tokens' # << >> /\ sentences'[i].ending <= tokens'[Len(tokens')].ending
    <3>1. tokens' # << >> /\ tokens'[Len(tokens')].ending = to
      BY <2>1, <2>3 DEF to
    <3>2. \A i \in DOMAIN sentences : sentences[i].ending \in Nat
      BY <1>1, SpansHaveNumbers
    <3> QED
      BY <2>2, <2>5, <2>6, <2>8, <3>1, <3>2
  <2>11. Tokenizing'
    <3>1. Len(tokens') <= Len(split') /\ tokens' = SubSeq(split', 1, Len(tokens'))
      BY <1>2, <1>6, <2>1, <2>3
    <3> QED
      BY <1>2, <1>3, <1>6, <2>7, <2>9, <2>10, <3>1 DEF Tokenizing
  <2>12. RecordTyped'
    <3>1. sentences' \in Seq(SpanSet)
      BY <2>7 DEF Rising
    <3> QED
      BY <1>1, <1>2, <1>6, <2>3, <3>1 DEF RecordTyped, Unasked, Early
  <2>13. Joining' /\ Labelled'
    BY <1>2, <1>6 DEF Joining, Labelled, Fit
  <2> QED
    BY <2>11, <2>12, <2>13 DEF RecordInv
<1> QED
  BY <1>5, <1>6 DEF TokenizerSentence, n

(* The tokenizer leaves all the words labelled. *)
LEMMA TokenizerIsDone ==
  ASSUME RecordInv, TokenizerEnds
  PROVE  RecordInv'
<1>1. /\ place = "splitting" /\ Len(tokens) = Len(split) /\ place' = "labelled"
      /\ handler' = handler /\ UNCHANGED labelling
  BY DEF TokenizerEnds
<1>2. /\ AreWords(split, text) /\ tokens = SubSeq(split, 1, Len(tokens))
      /\ Rising(sentences, Len(text)) /\ InSentences(tokens, sentences)
      /\ split \in Seq(SpanSet) /\ tokens \in Seq(SpanSet)
  BY <1>1 DEF RecordInv, Tokenizing, RecordTyped
<1>3. tokens = split
  <2>1. SubSeq(split, 1, Len(split)) = split
    BY <1>2, SubSeqFull
  <2> QED
    BY <1>1, <1>2, <2>1
<1>4. RecordTyped'
  BY <1>1 DEF RecordInv, RecordTyped, labelling, Unasked
<1>5. Joining' /\ Tokenizing'
  BY <1>1 DEF Joining, Tokenizing
<1>6. Labelled'
  BY <1>1, <1>2, <1>3 DEF Labelled, Fit, labelling
<1> QED
  BY <1>4, <1>5, <1>6 DEF RecordInv

(* After that nothing of the record changes any more. *)
LEMMA RecordStays ==
  ASSUME RecordInv, UNCHANGED labelling,
         place \notin {"tokenizer", "splitting", "failed"},
         place' \in {"labelled", "asked", "pos", "chunker", "chunks", "answered", "failed"},
         handler' \in Taking \cup {"none"}
  PROVE  RecordInv'
<1>1. RecordTyped'
  BY DEF RecordInv, RecordTyped, labelling, Unasked
<1>2. Joining' /\ Tokenizing'
  BY DEF Joining, Tokenizing
<1>3. Labelled'
  BY DEF RecordInv, Labelled, Fit, labelling
<1> QED
  BY <1>1, <1>2, <1>3 DEF RecordInv

-----------------------------------------------------------------------------
(***************************************************************************)
(* The lists the taggers are given.                                        *)
(***************************************************************************)
(* What fits, taken apart. *)
LEMMA FitFacts ==
  ASSUME Fit
  PROVE  /\ tokens \in Seq(SpanSet) /\ sentences \in Seq(SpanSet)
         /\ DOMAIN tokens = 1 .. Len(tokens) /\ Len(tokens) \in Nat
         /\ DOMAIN sentences = 1 .. Len(sentences) /\ Len(sentences) \in Nat
         /\ \A w \in DOMAIN tokens : /\ tokens[w] \in SpanSet
                                     /\ tokens[w].start \in Nat /\ tokens[w].ending \in Nat
                                     /\ tokens[w].start < tokens[w].ending
         /\ \A v, w \in DOMAIN tokens : v < w => tokens[v].ending <= tokens[w].start
         /\ \A i \in DOMAIN sentences :
              /\ sentences[i].start \in Nat /\ sentences[i].ending \in Nat
              /\ sentences[i].start <= sentences[i].ending
         /\ \A i, j \in DOMAIN sentences : i < j => sentences[i].ending <= sentences[j].start
         /\ \A w \in DOMAIN tokens : \E i \in DOMAIN sentences : w \in In(i)
         /\ \A i : \A w \in In(i) : /\ w \in DOMAIN tokens
                                    /\ tokens[w].start >= sentences[i].start
                                    /\ tokens[w].ending <= sentences[i].ending
<1>1. tokens \in Seq(SpanSet) /\ sentences \in Seq(SpanSet)
  BY DEF Fit, AreWords, Rising
<1>2. /\ DOMAIN tokens = 1 .. Len(tokens) /\ Len(tokens) \in Nat
      /\ DOMAIN sentences = 1 .. Len(sentences) /\ Len(sentences) \in Nat
      /\ \A w \in DOMAIN tokens : /\ tokens[w] \in SpanSet
                                  /\ tokens[w].start \in Nat /\ tokens[w].ending \in Nat
      /\ \A i \in DOMAIN sentences : sentences[i].start \in Nat /\ sentences[i].ending \in Nat
  BY <1>1, SpansHaveNumbers
<1>3. /\ \A w \in DOMAIN tokens : tokens[w].start < tokens[w].ending
      /\ \A v, w \in DOMAIN tokens : v < w => tokens[v].ending <= tokens[w].start
      /\ \A i \in DOMAIN sentences : sentences[i].start <= sentences[i].ending
      /\ \A i, j \in DOMAIN sentences : i < j => sentences[i].ending <= sentences[j].start
  BY DEF Fit, AreWords, Rising
<1>4. \A w \in DOMAIN tokens : \E i \in DOMAIN sentences : w \in In(i)
  BY DEF Fit, InSentences, In
<1>5. \A i : \A w \in In(i) : /\ w \in DOMAIN tokens
                              /\ tokens[w].start >= sentences[i].start
                              /\ tokens[w].ending <= sentences[i].ending
  BY DEF In, IsIn
<1> QED
  BY <1>1, <1>2, <1>3, <1>4, <1>5

(* A token is in one sentence only, as it has a character. *)
LEMMA OneSentence ==
  ASSUME Fit, NEW i \in DOMAIN sentences, NEW j \in DOMAIN sentences,
         NEW w \in In(i), w \in In(j)
  PROVE  i = j
<1> SUFFICES ASSUME i # j PROVE FALSE
  OBVIOUS
<1>1. /\ tokens[w].start \in Nat /\ tokens[w].ending \in Nat
      /\ tokens[w].start < tokens[w].ending
      /\ sentences[i].start \in Nat /\ sentences[i].ending \in Nat
      /\ sentences[j].start \in Nat /\ sentences[j].ending \in Nat
      /\ tokens[w].start >= sentences[i].start /\ tokens[w].ending <= sentences[i].ending
      /\ tokens[w].start >= sentences[j].start /\ tokens[w].ending <= sentences[j].ending
  BY FitFacts
<1>2. i < j \/ j < i
  BY FitFacts
<1>3. CASE i < j
  <2>1. sentences[i].ending <= sentences[j].start
    BY <1>3, FitFacts
  <2> QED
    BY <1>1, <2>1
<1>4. CASE j < i
  <2>1. sentences[j].ending <= sentences[i].start
    BY <1>4, FitFacts
  <2> QED
    BY <1>1, <2>1
<1> QED
  BY <1>2, <1>3, <1>4

(* Tokens in their order. *)
LEMMA SomeTokens ==
  ASSUME Fit, NEW S \in SUBSET DOMAIN tokens
  PROVE  LET in == InOrder(S) IN
         /\ [k \in DOMAIN in |-> tokens[in[k]]] \in Seq(SpanSet)
         /\ Len([k \in DOMAIN in |-> tokens[in[k]]]) = Len(in)
         /\ \A k \in DOMAIN in : in[k] \in S
         /\ Enumerates(in, S) /\ Len(in) \in Nat /\ DOMAIN in = 1 .. Len(in)
<1> DEFINE in == InOrder(S)
           ts == [k \in DOMAIN in |-> tokens[in[k]]]
<1>1. /\ DOMAIN tokens = 1 .. Len(tokens) /\ Len(tokens) \in Nat
      /\ \A w \in DOMAIN tokens : tokens[w] \in SpanSet
  BY FitFacts
<1>2. Enumerates(in, S)
  <2>1. S \in SUBSET Nat /\ \A x \in S : x <= Len(tokens)
    BY <1>1
  <2> QED
    BY <1>1, <2>1, InOrderEnumerates
<1> HIDE DEF in
<1>3. in \in Seq(S) /\ Len(in) \in Nat /\ DOMAIN in = 1 .. Len(in)
  BY <1>2 DEF Enumerates
<1>4. \A k \in DOMAIN in : in[k] \in S
  BY <1>3, ElementOfSeq
<1>5. ts \in [1 .. Len(in) -> SpanSet]
  BY <1>1, <1>3, <1>4
<1>6. ts \in Seq(SpanSet) /\ Len(ts) = Len(in)
  BY <1>3, <1>5
<1> QED
  BY <1>2, <1>3, <1>4, <1>6 DEF in

(* All tokens that are in a sentence are the sentence's tokens. *)
LEMMA AllOfThem ==
  ASSUME Fit, NEW i
  PROVE  TokensIn(i) = Some(i, Len(tokens))
<1>1. DOMAIN tokens = 1 .. Len(tokens)
  BY FitFacts
<1> QED
  BY <1>1 DEF TokensIn, Within, Some

(* The last of the tokens of a sentence that has any is one that is in it. *)
LEMMA SomeOrNone ==
  ASSUME Fit, NEW i, TokensIn(i) # << >>
  PROVE  \E w \in In(i) : TokensIn(i)[Len(TokensIn(i))] = tokens[w]
<1> DEFINE in == InOrder(In(i))
           ts == [k \in DOMAIN in |-> tokens[in[k]]]
<1>1. TokensIn(i) = ts
  BY DEF TokensIn, Within, In
<1>2. In(i) \in SUBSET DOMAIN tokens
  BY DEF In
<1>3. /\ ts \in Seq(SpanSet) /\ Len(ts) = Len(in) /\ \A k \in DOMAIN in : in[k] \in In(i)
      /\ Len(in) \in Nat /\ DOMAIN in = 1 .. Len(in)
  BY <1>2, SomeTokens
<1> HIDE DEF in
<1>4. ts # << >> /\ ts \in Seq(SpanSet)
  BY <1>1, <1>3
<1>5. Len(ts) # 0
  <2> HIDE DEF ts
  <2> QED
    BY <1>4, EmptySeq
<1>6. Len(in) \in DOMAIN in
  BY <1>3, <1>5
<1>7. ts[Len(ts)] = tokens[in[Len(in)]] /\ in[Len(in)] \in In(i)
  BY <1>3, <1>6
<1> QED
  BY <1>1, <1>7

(* The first tokens, one more. *)
LEMMA SomeMore ==
  ASSUME Fit, NEW i, NEW n \in Nat, n < Len(tokens)
  PROVE  /\ n + 1 \in In(i) => Some(i, n + 1) = Append(Some(i, n), tokens[n + 1])
         /\ n + 1 \notin In(i) => Some(i, n + 1) = Some(i, n)
<1> DEFINE S(m) == {w \in 1 .. m : IsIn(tokens[w], sentences[i])}
<1>1. DOMAIN tokens = 1 .. Len(tokens) /\ Len(tokens) \in Nat
  BY FitFacts
<1>2. n + 1 \in DOMAIN tokens /\ 1 .. n + 1 = (1 .. n) \cup {n + 1} /\ n + 1 \in Nat
  BY <1>1
<1>3. CASE n + 1 \notin In(i)
  <2>1. S(n + 1) = S(n)
    BY <1>2, <1>3 DEF In
  <2> QED
    BY <1>3, <2>1 DEF Some
<1>4. CASE n + 1 \in In(i)
  <2>1. S(n + 1) = S(n) \cup {n + 1}
    BY <1>2, <1>4 DEF In
  <2>2. S(n) \in SUBSET Nat /\ \A y \in S(n) : y < n + 1
    OBVIOUS
  <2>3. S(n) \in SUBSET DOMAIN tokens
    BY <1>1
  <2> DEFINE in == InOrder(S(n))
             more == InOrder(S(n + 1))
             ts == [k \in DOMAIN in |-> tokens[in[k]]]
             us == [k \in DOMAIN more |-> tokens[more[k]]]
  <2>4. /\ ts \in Seq(SpanSet) /\ Len(ts) = Len(in) /\ Len(in) \in Nat
        /\ DOMAIN in = 1 .. Len(in) /\ in \in Seq(S(n))
    BY <2>3, SomeTokens DEF Enumerates
  <2>5. more = Append(in, n + 1)
    <3> HIDE DEF S
    <3>1. InOrder(S(n) \cup {n + 1}) = Append(InOrder(S(n)), n + 1)
      BY <1>2, <2>2, InOrderGrows
    <3> QED
      BY <2>1, <3>1
  <2>6. Some(i, n) = ts /\ Some(i, n + 1) = us
    BY DEF Some
  <2> HIDE DEF in
  <2>7. /\ Len(more) = Len(in) + 1 /\ DOMAIN more = 1 .. Len(in) + 1
        /\ \A k \in 1 .. Len(in) : more[k] = in[k]
        /\ more[Len(in) + 1] = n + 1
    <3> HIDE DEF S
    <3>1. in \in Seq(Nat)
      BY <2>2, <2>4, SeqMonotonic
    <3> HIDE DEF more
    <3> QED
      BY <1>2, <2>4, <2>5, <3>1, AppendProperties
  <2> HIDE DEF more, S
  <2>8. us = Append(ts, tokens[n + 1])
    <3>1. tokens[n + 1] \in SpanSet
      BY <1>2, FitFacts
    <3>2. /\ Append(ts, tokens[n + 1]) \in Seq(SpanSet)
          /\ Len(Append(ts, tokens[n + 1])) = Len(in) + 1
          /\ \A k \in 1 .. Len(in) : Append(ts, tokens[n + 1])[k] = ts[k]
          /\ Append(ts, tokens[n + 1])[Len(in) + 1] = tokens[n + 1]
      <4> HIDE DEF ts
      <4> QED
        BY <2>4, <3>1, AppendProperties
    <3>3. \A k \in 1 .. Len(in) : ts[k] = tokens[in[k]]
      BY <2>4
    <3>4. \A k \in 1 .. Len(in) + 1 : us[k] = Append(ts, tokens[n + 1])[k]
      <4> SUFFICES ASSUME NEW k \in 1 .. Len(in) + 1
                   PROVE  us[k] = Append(ts, tokens[n + 1])[k]
        OBVIOUS
      <4>1. us[k] = tokens[more[k]]
        BY <2>7
      <4>2. CASE k = Len(in) + 1
        BY <2>7, <3>2, <4>1, <4>2
      <4>3. CASE k # Len(in) + 1
        <5>1. k \in 1 .. Len(in)
          BY <2>4, <4>3
        <5>2. more[k] = in[k] /\ ts[k] = tokens[in[k]] /\ Append(ts, tokens[n + 1])[k] = ts[k]
          BY <5>1, <2>7, <3>2, <3>3
        <5> HIDE DEF ts, us
        <5> QED
          BY <4>1, <5>2
      <4> QED
        BY <4>2, <4>3
    <3> DEFINE a == Append(ts, tokens[n + 1])
    <3>5. a \in Seq(SpanSet) /\ DOMAIN a = 1 .. Len(in) + 1
      <4>1. a \in Seq(SpanSet) /\ Len(a) = Len(in) + 1
        BY <3>2
      <4> HIDE DEF a
      <4> QED
        BY <4>1
    <3>6. us = [k \in 1 .. Len(in) + 1 |-> us[k]]
      BY <2>7
    <3>7. a = [k \in 1 .. Len(in) + 1 |-> a[k]]
      <4> HIDE DEF a
      <4> QED
        BY <3>5
    <3>8. \A k \in 1 .. Len(in) + 1 : us[k] = a[k]
      BY <3>4
    <3> HIDE DEF a, us
    <3>9. a = us
      BY <3>6, <3>7, <3>8
    <3> QED
      BY <3>9 DEF a
  <2> QED
    BY <1>4, <2>6, <2>8
<1> QED
  BY <1>3, <1>4

(* Of a sentence that none of the first tokens is in, there are none. *)
LEMMA NoneOfNone ==
  ASSUME Fit, NEW i, NEW n \in 0 .. Len(tokens), \A w \in 1 .. n : w \notin In(i)
  PROVE  Some(i, n) = << >>
<1>1. {w \in 1 .. n : IsIn(tokens[w], sentences[i])} = {}
  BY FitFacts DEF In
<1>2. Some(i, n) = [k \in DOMAIN InOrder({}) |-> tokens[InOrder({})[k]]]
  BY <1>1 DEF Some
<1>3. DOMAIN InOrder({}) = {}
  BY InOrderOfNone
<1> QED
  BY <1>2, <1>3

(* When no more of them are to come, they are all of the sentence's. *)
LEMMA SomeAreAll ==
  ASSUME Fit, NEW i, NEW n \in 0 .. Len(tokens), In(i) \subseteq 1 .. n
  PROVE  Some(i, n) = TokensIn(i)
<1>1. DOMAIN tokens = 1 .. Len(tokens) /\ Len(tokens) \in Nat
  BY FitFacts
<1>2. {w \in 1 .. n : IsIn(tokens[w], sentences[i])} = {w \in DOMAIN tokens : IsIn(tokens[w], sentences[i])}
  BY <1>1 DEF In
<1> QED
  BY <1>2 DEF Some, TokensIn, Within

(* The first token that is in none of the first n sentences is in the next. *)
LEMMA NextSentence ==
  ASSUME Fit, EverySentenceHasTokens, NEW n \in 0 .. Len(sentences), NEW w \in DOMAIN tokens,
         \A v \in 1 .. w - 1 : \E i \in 1 .. n : v \in In(i),
         \A i \in 1 .. n : w \notin In(i)
  PROVE  n + 1 \in DOMAIN sentences /\ w \in In(n + 1)
<1>1. PICK m \in DOMAIN sentences : w \in In(m)
  BY FitFacts
<1>2. /\ DOMAIN tokens = 1 .. Len(tokens) /\ Len(tokens) \in Nat
      /\ DOMAIN sentences = 1 .. Len(sentences) /\ Len(sentences) \in Nat
  BY FitFacts
<1>3. m \in n + 1 .. Len(sentences)
  BY <1>1, <1>2
<1>4. n + 1 \in DOMAIN sentences
  BY <1>2, <1>3
<1>5. CASE m = n + 1
  BY <1>1, <1>4, <1>5
<1>6. CASE m # n + 1
  <2>1. TokensIn(n + 1) # << >>
    BY <1>4 DEF EverySentenceHasTokens
  <2>2. PICK v \in In(n + 1) : TRUE
    BY <2>1, SomeOrNone
  <2>3. v \in DOMAIN tokens /\ n + 1 < m
    BY <1>2, <1>3, <1>6, <2>2, FitFacts
  <2>4. v # w
    BY <1>1, <1>4, <1>6, <2>2, OneSentence
  <2>5. ~ (v < w)
    <3> SUFFICES ASSUME v < w PROVE FALSE
      OBVIOUS
    <3>1. v \in 1 .. w - 1
      BY <1>2, <2>3
    <3>2. PICK i \in 1 .. n : v \in In(i)
      BY <3>1
    <3>3. i \in DOMAIN sentences /\ i # n + 1
      BY <1>2
    <3> QED
      BY <1>4, <2>2, <3>2, <3>3, OneSentence
  <2>6. w < v
    BY <1>2, <2>3, <2>4, <2>5
  <2>7. /\ tokens[w].ending <= tokens[v].start
        /\ sentences[n + 1].ending <= sentences[m].start
    BY <1>4, <2>3, <2>6, FitFacts
  <2>8. /\ tokens[w].start >= sentences[m].start /\ tokens[v].ending <= sentences[n + 1].ending
        /\ tokens[v].start < tokens[v].ending /\ tokens[w].start < tokens[w].ending
    BY <1>1, <2>2, <2>3, FitFacts
  <2>9. /\ tokens[w].start \in Nat /\ tokens[w].ending \in Nat
        /\ tokens[v].start \in Nat /\ tokens[v].ending \in Nat
        /\ sentences[m].start \in Nat /\ sentences[n + 1].ending \in Nat
    BY <1>4, <2>3, FitFacts
  <2> DEFINE e == sentences[n + 1].ending
  <2>10. e \in Nat /\ e < tokens[w].ending
    BY <2>7, <2>8, <2>9
  <2>11. tokens[w].ending < e
    <3>1. tokens[v].ending <= e
      BY <2>8
    <3> HIDE DEF e
    <3>2. tokens[w].ending < tokens[v].ending
      BY <2>7, <2>8, <2>9
    <3> QED
      BY <2>9, <2>10, <3>1, <3>2
  <2> HIDE DEF e
  <2> QED
    BY <2>9, <2>10, <2>11
<1> QED
  BY <1>5, <1>6

(* A token that reaches the end of a sentence, or comes from behind it, is the last     *)
(* that can be in it.                                                                   *)
LEMMA NothingBehind ==
  ASSUME Fit, NEW i \in DOMAIN sentences, NEW w \in DOMAIN tokens,
         tokens[w].ending >= sentences[i].ending
  PROVE  In(i) \subseteq 1 .. w
<1> SUFFICES ASSUME NEW v \in In(i), v \notin 1 .. w PROVE FALSE
  OBVIOUS
<1>1. v \in DOMAIN tokens /\ w < v
  BY FitFacts
<1>2. /\ tokens[v].start \in Nat /\ tokens[v].ending \in Nat
      /\ tokens[v].start < tokens[v].ending /\ tokens[v].ending <= sentences[i].ending
      /\ tokens[w].ending \in Nat /\ sentences[i].ending \in Nat
      /\ tokens[w].ending <= tokens[v].start
  BY <1>1, FitFacts
<1> QED
  BY <1>2

(* The next token goes to the last list if it is in its sentence. *)
LEMMA ListGrows ==
  ASSUME Fit, NEW ls \in Seq(Seq(SpanSet)), NEW k \in Nat, k < Len(tokens),
         Sorted(ls, k), ls # << >>, k + 1 \in In(Len(ls))
  PROVE  Sorted([ls EXCEPT ![Len(ls)] = Append(@, tokens[k + 1])], k + 1)
<1> DEFINE n == Len(ls)
           new == [ls EXCEPT ![n] = Append(@, tokens[k + 1])]
<1>1. n \in Nat /\ DOMAIN ls = 1 .. n /\ n \in DOMAIN ls /\ n <= Len(sentences)
  BY EmptySeq DEF Sorted
<1>2. DOMAIN new = DOMAIN ls /\ Len(new) = n /\ \A i \in DOMAIN ls : i # n => new[i] = ls[i]
  BY <1>1
<1>3. new[n] = Append(ls[n], tokens[k + 1])
  BY <1>1
<1> HIDE DEF n, new
<1>4. /\ \A i \in DOMAIN ls : ls[i] = Some(i, k)
      /\ \A w \in 1 .. k : \E i \in DOMAIN ls : w \in In(i)
      /\ \A i \in DOMAIN ls : i # n => In(i) \subseteq 1 .. k
  BY DEF Sorted, n
<1>5. k + 1 \in In(n)
  BY DEF n
<1>6. \A i \in DOMAIN ls : new[i] = Some(i, k + 1)
  <2> SUFFICES ASSUME NEW i \in DOMAIN ls PROVE new[i] = Some(i, k + 1)
    OBVIOUS
  <2>1. CASE i = n
    BY <1>1, <1>3, <1>4, <1>5, <2>1, SomeMore
  <2>2. CASE i # n
    <3>1. k + 1 \notin In(i)
      BY <1>4, <2>2
    <3> QED
      BY <1>2, <1>4, <2>2, <3>1, SomeMore
  <2> QED
    BY <2>1, <2>2
<1>7. \A w \in 1 .. k + 1 : \E i \in DOMAIN ls : w \in In(i)
  <2> SUFFICES ASSUME NEW w \in 1 .. k + 1 PROVE \E i \in DOMAIN ls : w \in In(i)
    OBVIOUS
  <2>1. w \in 1 .. k \/ w = k + 1
    OBVIOUS
  <2> QED
    BY <1>1, <1>4, <1>5, <2>1
<1>8. \A i \in DOMAIN ls : i # n => In(i) \subseteq 1 .. k + 1
  <2>1. 1 .. k \subseteq 1 .. k + 1
    OBVIOUS
  <2> QED
    BY <1>4, <2>1
<1>9. Sorted(new, k + 1)
  BY <1>1, <1>2, <1>6, <1>7, <1>8 DEF Sorted
<1> QED
  BY <1>9 DEF new, n

(* The next token begins a list if it is in the sentence that comes next. *)
LEMMA ListBegins ==
  ASSUME Fit, NEW ls \in Seq(Seq(SpanSet)), NEW k \in Nat, k < Len(tokens),
         Sorted(ls, k), ls # << >> => In(Len(ls)) \subseteq 1 .. k,
         Len(ls) + 1 \in DOMAIN sentences, k + 1 \in In(Len(ls) + 1)
  PROVE  Sorted(Append(ls, <<tokens[k + 1]>>), k + 1)
<1> DEFINE n == Len(ls)
           new == Append(ls, <<tokens[k + 1]>>)
<1>1. /\ n \in Nat /\ DOMAIN ls = 1 .. n /\ n + 1 <= Len(sentences)
      /\ DOMAIN sentences = 1 .. Len(sentences) /\ k + 1 \in DOMAIN tokens
      /\ DOMAIN tokens = 1 .. Len(tokens) /\ Len(tokens) \in Nat /\ Len(sentences) \in Nat
  BY FitFacts
<1>2. <<tokens[k + 1]>> \in Seq(SpanSet)
  <2>1. tokens[k + 1] \in SpanSet
    BY <1>1, FitFacts
  <2> QED
    BY <2>1
<1>3. /\ DOMAIN new = 1 .. n + 1 /\ Len(new) = n + 1 /\ \A i \in 1 .. n : new[i] = ls[i]
      /\ new[n + 1] = <<tokens[k + 1]>>
  BY <1>1, <1>2, AppendProperties
<1> HIDE DEF new
<1>4. /\ \A i \in 1 .. n : ls[i] = Some(i, k)
      /\ \A w \in 1 .. k : \E i \in 1 .. n : w \in In(i)
  BY <1>1 DEF Sorted
<1>5. \A i \in 1 .. n : In(i) \subseteq 1 .. k
  <2> SUFFICES ASSUME NEW i \in 1 .. n PROVE In(i) \subseteq 1 .. k
    OBVIOUS
  <2>1. ls # << >> /\ i \in DOMAIN ls
    BY <1>1
  <2>2. CASE i = n
    BY <2>1, <2>2
  <2>3. CASE i # n
    BY <2>1, <2>3 DEF Sorted
  <2> QED
    BY <2>2, <2>3
<1>6. k + 1 \in In(n + 1)
  OBVIOUS
<1> HIDE DEF n
<1>7. \A i \in 1 .. n + 1 : new[i] = Some(i, k + 1)
  <2> SUFFICES ASSUME NEW i \in 1 .. n + 1 PROVE new[i] = Some(i, k + 1)
    OBVIOUS
  <2>1. CASE i = n + 1
    <3>1. \A w \in 1 .. k : w \notin In(n + 1)
      <4> SUFFICES ASSUME NEW w \in 1 .. k, w \in In(n + 1) PROVE FALSE
        OBVIOUS
      <4>1. PICK j \in 1 .. n : w \in In(j)
        BY <1>4
      <4>2. j \in DOMAIN sentences /\ n + 1 \in DOMAIN sentences /\ j # n + 1
        BY <1>1
      <4> QED
        BY <4>1, <4>2, OneSentence
    <3>2. Some(n + 1, k) = << >>
      <4>1. k \in 0 .. Len(tokens)
        BY <1>1
      <4> QED
        BY <3>1, <4>1, NoneOfNone
    <3>3. Some(n + 1, k + 1) = Append(<< >>, tokens[k + 1])
      BY <1>6, <3>2, SomeMore
    <3>4. Append(<< >>, tokens[k + 1]) = <<tokens[k + 1]>>
      OBVIOUS
    <3> QED
      BY <1>3, <2>1, <3>3, <3>4
  <2>2. CASE i # n + 1
    <3>1. i \in 1 .. n
      BY <1>1, <2>2
    <3>2. k + 1 \notin In(i)
      BY <1>5, <3>1
    <3> QED
      BY <1>3, <1>4, <3>1, <3>2, SomeMore
  <2> QED
    BY <2>1, <2>2
<1>8. \A w \in 1 .. k + 1 : \E i \in 1 .. n + 1 : w \in In(i)
  <2> SUFFICES ASSUME NEW w \in 1 .. k + 1 PROVE \E i \in 1 .. n + 1 : w \in In(i)
    OBVIOUS
  <2>1. CASE w = k + 1
    BY <1>1, <1>6, <2>1
  <2>2. CASE w # k + 1
    <3>1. w \in 1 .. k
      BY <2>2
    <3>2. PICK i \in 1 .. n : w \in In(i)
      BY <1>4, <3>1
    <3>3. i \in 1 .. n + 1
      BY <1>1
    <3> QED
      BY <3>2, <3>3
  <2> QED
    BY <2>1, <2>2
<1>9. \A i \in 1 .. n + 1 : i # n + 1 => In(i) \subseteq 1 .. k + 1
  <2>1. 1 .. k \subseteq 1 .. k + 1
    OBVIOUS
  <2>2. \A i \in 1 .. n + 1 : i # n + 1 => i \in 1 .. n
    BY <1>1
  <2> QED
    BY <1>5, <2>1, <2>2
<1>10. Sorted(new, k + 1)
  BY <1>1, <1>3, <1>7, <1>8, <1>9 DEF Sorted
<1> QED
  BY <1>10 DEF new

(* When all tokens are in the lists, and as many lists are there as sentences. *)
LEMMA SortedOut ==
  ASSUME Fit, NEW ls \in Seq(Seq(SpanSet)), NEW k \in 0 .. Len(tokens), Sorted(ls, k),
         Len(ls) = Len(sentences), ls # << >> => In(Len(ls)) \subseteq 1 .. k
  PROVE  ls = [i \in DOMAIN sentences |-> TokensIn(i)]
<1>1. DOMAIN ls = DOMAIN sentences /\ DOMAIN ls = 1 .. Len(ls)
  BY FitFacts
<1>2. \A i \in DOMAIN ls : ls[i] = TokensIn(i)
  <2> SUFFICES ASSUME NEW i \in DOMAIN ls PROVE ls[i] = TokensIn(i)
    OBVIOUS
  <2>1. ls # << >>
    BY <1>1
  <2>2. In(i) \subseteq 1 .. k
    BY <2>1 DEF Sorted
  <2> QED
    BY <2>2, SomeAreAll DEF Sorted
<1>3. ls = [i \in DOMAIN ls |-> ls[i]]
  BY <1>1
<1> QED
  BY <1>1, <1>2, <1>3

-----------------------------------------------------------------------------
(***************************************************************************)
(* What the steps do to the record and to the types of the lists.          *)
(***************************************************************************)
(* Types, and the record. *)
TypedInv == RecordInv /\ TaggersTyped /\ Untouched

(* The types hold in the beginning. *)
LEMMA TypedBegins == TaggersInit => TypedInv
<1> SUFFICES ASSUME TaggersInit PROVE TypedInv
  OBVIOUS
<1>1. RecordInit /\ lists = << >> /\ taken = 0 /\ types = << >> /\ chunk = NoChunk
  BY DEF TaggersInit
<1>2. RecordInv
  BY <1>1, RecordBegins
<1>3. handler = "none" /\ place \in {"whitespacer", "tokenizer"} /\ tokens = << >>
  BY <1>1 DEF RecordInit
<1>4. TaggersTyped
  <2>1. /\ << >> \in Seq(Seq(SpanSet)) /\ << >> \in Seq(Type) /\ Len(tokens) = 0
        /\ Len(types) = 0
    BY <1>1, <1>3
  <2>2. chunk \in [open : Nat, clabel : Kind \cup {NoKind}, labels : Seq(ChunkLabels)]
    <3>1. << >> \in Seq(ChunkLabels)
      OBVIOUS
    <3> QED
      BY <1>1, <3>1 DEF NoChunk
  <2>3. chunk.open = 0
    BY <1>1 DEF NoChunk
  <2> QED
    BY <1>1, <1>3, <2>1, <2>2, <2>3 DEF TaggersTyped
<1>5. Untouched
  BY <1>1 DEF Untouched
<1> QED
  BY <1>2, <1>4, <1>5 DEF TypedInv

(* Labelling leaves the lists alone. *)
LEMMA LabellingTyped ==
  ASSUME TypedInv, RecordNext, UNCHANGED <<lists, taken, types, chunk>>
  PROVE  TypedInv'
<1>1. CASE WhitespaceSentence
  <2>1. RecordInv'
    BY <1>1, WhitespacerGoesOn DEF TypedInv
  <2> QED
    BY <1>1, <2>1
    DEF TypedInv, TaggersTyped, Untouched, WhitespaceSentence, Unasked, Early, RecordInv, RecordTyped
<1>2. CASE WhitespacerEnds
  <2>1. RecordInv'
    <3>1. handler \in Taking \cup {"none"}
      BY DEF TypedInv, RecordInv, RecordTyped
    <3> QED
      BY <1>2, <3>1, RecordStays DEF TypedInv, WhitespacerEnds
  <2> QED
    BY <1>2, <2>1 DEF TypedInv, TaggersTyped, Untouched, WhitespacerEnds, Unasked, Early, labelling
<1>3. CASE SplitAll
  <2>1. RecordInv'
    BY <1>3, SplitterGoesOn DEF TypedInv
  <2> QED
    BY <1>3, <2>1 DEF TypedInv, TaggersTyped, Untouched, SplitAll, Unasked, Early
<1>4. CASE TokenizerSentence
  <2>1. RecordInv'
    BY <1>4, TokenizerGoesOn DEF TypedInv
  <2>2. place = "splitting" /\ place' \in {"splitting", "failed"} /\ handler' = handler
    BY <1>4 DEF TokenizerSentence
  <2>3. Len(tokens') \in Nat
    BY <2>1 DEF RecordInv, RecordTyped
  <2> QED
    BY <2>1, <2>2, <2>3 DEF TypedInv, TaggersTyped, Untouched, Unasked, Early
<1>5. CASE TokenizerEnds
  <2>1. RecordInv'
    BY <1>5, TokenizerIsDone DEF TypedInv
  <2> QED
    BY <1>5, <2>1 DEF TypedInv, TaggersTyped, Untouched, TokenizerEnds, Unasked, Early, labelling
<1> QED
  BY <1>1, <1>2, <1>3, <1>4, <1>5 DEF RecordNext

(* So does asking a handler. *)
LEMMA AskTyped ==
  ASSUME TypedInv, NEW h \in Taking, Ask(h), UNCHANGED <<lists, taken, types, chunk>>
  PROVE  TypedInv'
<1>1. /\ place = "labelled" /\ place' = "asked" /\ handler' = h /\ UNCHANGED labelling
  BY DEF Ask
<1>2. RecordInv'
  BY <1>1, RecordStays DEF TypedInv
<1> QED
  BY <1>1, <1>2 DEF TypedInv, TaggersTyped, Untouched, Unasked, Early, labelling

(* The steps of the part-of-speech handler. *)
LEMMA PosTyped ==
  ASSUME TypedInv, PosBegins \/ PosToken \/ PosEnds
  PROVE  TypedInv'
<1>1. /\ UNCHANGED labelling /\ handler' = handler /\ UNCHANGED <<types, chunk>>
      /\ handler \in Taking \cup {"none"}
      /\ place \in {"asked", "pos"} /\ place' \in {"pos", "answered", "failed"}
      /\ place = "asked" => handler = "pos"
  BY DEF TypedInv, RecordInv, RecordTyped, PosBegins, PosToken, PosEnds
<1>2. RecordInv'
  BY <1>1, RecordStays DEF TypedInv
<1>3. /\ lists \in Seq(Seq(SpanSet)) /\ types \in Seq(Type)
      /\ taken \in Nat /\ taken <= Len(tokens) /\ Len(types) <= taken
      /\ chunk \in [open : Nat, clabel : Kind \cup {NoKind}, labels : Seq(ChunkLabels)]
      /\ chunk.open <= Len(types)
      /\ types = << >> /\ chunk = NoChunk
      /\ place = "pos" => handler = "pos" /\ lists # << >>
  BY <1>1 DEF TypedInv, TaggersTyped, Untouched
<1>4. tokens \in Seq(SpanSet) /\ Len(tokens) \in Nat /\ Len(types) \in Nat
  BY <1>3 DEF TypedInv, RecordInv, RecordTyped
<1>5. /\ lists' \in Seq(Seq(SpanSet)) /\ taken' \in Nat /\ taken' <= Len(tokens)
      /\ Len(types) <= taken' /\ place' = "pos" => lists' # << >>
  <2>1. CASE PosBegins
    <3>1. /\ lists' = lists \/ lists' = << << >> >>
          /\ place' = "pos" => lists' = << << >> >>
          /\ taken' = taken
      BY <2>1 DEF PosBegins
    <3>2. << << >> >> \in Seq(Seq(SpanSet)) /\ << << >> >> # << >>
      <4>1. << >> \in Seq(SpanSet)
        OBVIOUS
      <4> QED
        BY <4>1
    <3> QED
      BY <1>3, <3>1, <3>2
  <2>2. CASE PosToken
    <3> DEFINE n == Len(lists)
               token == tokens[taken + 1]
    <3>1. /\ place = "pos" /\ taken < Len(tokens)
          /\ \/ /\ lists' = [lists EXCEPT ![n] = Append(@, token)] /\ taken' = taken + 1
             \/ /\ lists' = Append(lists, <<token>>) /\ taken' = taken + 1
             \/ /\ lists' = lists /\ taken' = taken
      BY <2>2 DEF PosToken
    <3>2. token \in SpanSet /\ <<token>> \in Seq(SpanSet)
      <4>1. taken + 1 \in 1 .. Len(tokens)
        BY <1>3, <1>4, <3>1
      <4>2. token \in SpanSet
        BY <1>4, <4>1, ElementOfSeq
      <4> QED
        BY <4>2
    <3>3. n \in 1 .. Len(lists)
      BY <1>3, <3>1, EmptySeq
    <3> HIDE DEF token
    <3>4. lists[n] \in Seq(SpanSet) /\ Append(lists[n], token) \in Seq(SpanSet)
      <4>1. lists[n] \in Seq(SpanSet)
        BY <1>3, <3>3, ElementOfSeq
      <4> QED
        BY <3>2, <4>1, AppendProperties
    <3>5. CASE lists' = [lists EXCEPT ![n] = Append(@, token)] /\ taken' = taken + 1
      <4>1. lists' = [lists EXCEPT ![n] = Append(lists[n], token)]
        BY <3>5
      <4>2. lists' \in Seq(Seq(SpanSet)) /\ Len(lists') = Len(lists)
        BY <1>3, <3>3, <3>4, <4>1, ExceptSeq
      <4>3. lists' # << >>
        BY <3>3, <4>2
      <4> QED
        BY <1>3, <1>4, <3>1, <3>5, <4>2, <4>3
    <3>6. CASE lists' = Append(lists, <<token>>) /\ taken' = taken + 1
      <4>1. lists' \in Seq(Seq(SpanSet)) /\ lists' # << >>
        BY <1>3, <3>2, <3>6, AppendProperties
      <4> QED
        BY <1>3, <1>4, <3>1, <3>6, <4>1
    <3>7. CASE lists' = lists /\ taken' = taken
      BY <1>3, <3>1, <3>7
    <3> QED
      BY <3>1, <3>5, <3>6, <3>7
  <2>3. CASE PosEnds
    BY <1>3, <2>3 DEF PosEnds
  <2> QED
    BY <2>1, <2>2, <2>3
<1>6. handler = "pos"
  BY <1>1, <1>3
<1>7. tokens' = tokens /\ place' \notin Unasked \cup {"asked", "chunker", "chunks"}
  BY <1>1 DEF labelling, Unasked, Early
<1>8. TaggersTyped'
  BY <1>1, <1>3, <1>5, <1>6, <1>7 DEF TaggersTyped
<1>9. Untouched'
  BY <1>1, <1>3, <1>7 DEF Untouched
<1> QED
  BY <1>2, <1>8, <1>9 DEF TypedInv

(* The steps of the chunker that read the tags. *)
LEMMA ReadingTyped ==
  ASSUME TypedInv, ChunkerBegins \/ ChunkerTag \/ ChunkerReads
  PROVE  TypedInv'
<1>1. /\ UNCHANGED labelling /\ handler' = handler /\ UNCHANGED <<types, chunk>>
      /\ handler \in Taking \cup {"none"}
      /\ place \in {"asked", "chunker"} /\ place' \in {"chunker", "chunks", "failed"}
      /\ place = "asked" => handler = "chunker"
  BY DEF TypedInv, RecordInv, RecordTyped, ChunkerBegins, ChunkerTag, ChunkerReads
<1>2. RecordInv'
  BY <1>1, RecordStays DEF TypedInv
<1>3. /\ lists \in Seq(Seq(SpanSet)) /\ types \in Seq(Type)
      /\ taken \in Nat /\ taken <= Len(tokens) /\ Len(types) <= taken
      /\ chunk \in [open : Nat, clabel : Kind \cup {NoKind}, labels : Seq(ChunkLabels)]
      /\ chunk.open <= Len(types)
      /\ types = << >> /\ chunk = NoChunk
      /\ place = "chunker" => handler = "chunker"
  BY <1>1 DEF TypedInv, TaggersTyped, Untouched
<1>4. tokens \in Seq(SpanSet) /\ Len(tokens) \in Nat /\ Len(types) \in Nat
  BY <1>3 DEF TypedInv, RecordInv, RecordTyped
<1>5. /\ lists' \in Seq(Seq(SpanSet)) /\ taken' \in Nat /\ taken' <= Len(tokens)
      /\ Len(types) <= taken'
  <2>1. CASE ChunkerBegins \/ ChunkerReads
    BY <1>3, <2>1 DEF ChunkerBegins, ChunkerReads
  <2>2. CASE ChunkerTag
    <3> DEFINE n == Len(lists)
               token == tokens[taken + 1]
    <3>1. \/ lists' = lists /\ taken' = taken
          \/ /\ taken # Len(tokens) /\ taken' = taken + 1
             /\ \/ lists' = Append(lists, <<token>>)
                \/ lists # << >> /\ lists' = [lists EXCEPT ![n] = Append(@, token)]
      BY <2>2 DEF ChunkerTag, SentenceIsTaken
    <3>2. CASE lists' = lists /\ taken' = taken
      BY <1>3, <3>2
    <3>3. CASE taken # Len(tokens) /\ taken' = taken + 1
      <4>1. token \in SpanSet /\ <<token>> \in Seq(SpanSet)
        <5>1. taken + 1 \in 1 .. Len(tokens)
          BY <1>3, <1>4, <3>3
        <5>2. token \in SpanSet
          BY <1>4, <5>1, ElementOfSeq
        <5> QED
          BY <5>2
      <4> HIDE DEF token
      <4>2. CASE lists' = Append(lists, <<token>>)
        <5>1. lists' \in Seq(Seq(SpanSet))
          BY <1>3, <4>1, <4>2, AppendProperties
        <5> QED
          BY <1>3, <1>4, <3>3, <5>1
      <4>3. CASE lists # << >> /\ lists' = [lists EXCEPT ![n] = Append(@, token)]
        <5>1. n \in 1 .. Len(lists)
          BY <1>3, <4>3, EmptySeq
        <5>2. lists[n] \in Seq(SpanSet)
          BY <1>3, <5>1, ElementOfSeq
        <5>3. Append(lists[n], token) \in Seq(SpanSet)
          BY <4>1, <5>2, AppendProperties
        <5>4. lists' = [lists EXCEPT ![n] = Append(lists[n], token)]
          BY <4>3
        <5>5. lists' \in Seq(Seq(SpanSet))
          BY <1>3, <5>1, <5>3, <5>4, ExceptSeq
        <5> QED
          BY <1>3, <1>4, <3>3, <5>5
      <4> QED
        BY <3>1, <1>3, <4>2, <4>3
    <3> QED
      BY <3>1, <3>2, <3>3
  <2> QED
    BY <2>1, <2>2
<1>6. handler = "chunker"
  BY <1>1, <1>3
<1>7. tokens' = tokens /\ place' \notin Unasked \cup {"asked", "pos"}
  BY <1>1 DEF labelling, Unasked, Early
<1>8. TaggersTyped'
  BY <1>1, <1>3, <1>5, <1>6, <1>7 DEF TaggersTyped
<1>9. Untouched'
  BY <1>1, <1>3, <1>7 DEF Untouched
<1> QED
  BY <1>2, <1>8, <1>9 DEF TypedInv

(* A type has one of three letters, and a kind or none. *)
LEMMA TypeFacts ==
  ASSUME NEW type \in Type
  PROVE  type.letter \in {"B", "I", "O"} /\ type.kind \in Kind \cup {NoKind}
BY DEF Type

(* The steps of the chunker that make the chunks. *)
LEMMA ChunkTyped ==
  ASSUME TypedInv, (\E type \in Type : ChunkToken(type)) \/ ChunkerEnds
  PROVE  TypedInv'
<1>1. /\ UNCHANGED labelling /\ handler' = handler /\ UNCHANGED <<lists, taken>>
      /\ handler \in Taking \cup {"none"}
      /\ place = "chunks" /\ place' \in {"chunks", "answered"}
  BY DEF TypedInv, RecordInv, RecordTyped, ChunkToken, ChunkerEnds, record
<1>2. RecordInv'
  BY <1>1, RecordStays DEF TypedInv
<1>3. /\ lists \in Seq(Seq(SpanSet)) /\ types \in Seq(Type)
      /\ taken \in Nat /\ taken <= Len(tokens) /\ Len(types) <= taken
      /\ chunk \in [open : Nat, clabel : Kind \cup {NoKind}, labels : Seq(ChunkLabels)]
      /\ chunk.open <= Len(types) /\ handler = "chunker"
  BY <1>1 DEF TypedInv, TaggersTyped
<1>4. /\ tokens \in Seq(SpanSet) /\ Len(tokens) \in Nat /\ Len(types) \in Nat
      /\ chunk.open \in Nat /\ chunk.clabel \in Kind \cup {NoKind}
      /\ chunk.labels \in Seq(ChunkLabels)
  BY <1>3 DEF TypedInv, RecordInv, RecordTyped
<1>5. chunk.open # 0 => Closed(Len(types) + 1) \in Seq(ChunkLabels)
  <2> SUFFICES ASSUME chunk.open # 0 PROVE Closed(Len(types) + 1) \in Seq(ChunkLabels)
    OBVIOUS
  <2>1. chunk.open \in DOMAIN tokens /\ Len(types) \in DOMAIN tokens /\ (Len(types) + 1) - 1 = Len(types)
    BY <1>3, <1>4
  <2>2. tokens[chunk.open].start \in Nat /\ tokens[Len(types)].ending \in Nat
    BY <1>4, <2>1, SpansHaveNumbers
  <2>3. Span(tokens[chunk.open].start, tokens[Len(types)].ending) \in SpanSet
    BY <2>2, SpanIsSpan
  <2> DEFINE l == ChunkLabel(chunk.clabel, chunk.open, Len(types))
  <2>4. l \in ChunkLabels
    BY <1>4, <2>3 DEF ChunkLabel, ChunkLabels
  <2>5. Closed(Len(types) + 1) = Append(chunk.labels, l)
    BY <2>1 DEF Closed
  <2> HIDE DEF l
  <2>6. Append(chunk.labels, l) \in Seq(ChunkLabels)
    BY <1>4, <2>4, AppendProperties
  <2> QED
    BY <2>5, <2>6
<1>6. /\ types' \in Seq(Type) /\ Len(types') <= taken /\ chunk'.open <= Len(types')
      /\ chunk' \in [open : Nat, clabel : Kind \cup {NoKind}, labels : Seq(ChunkLabels)]
  <2>1. ASSUME NEW type \in Type, ChunkToken(type)
        PROVE  /\ types' \in Seq(Type) /\ Len(types') <= taken /\ chunk'.open <= Len(types')
               /\ chunk' \in [open : Nat, clabel : Kind \cup {NoKind}, labels : Seq(ChunkLabels)]
    <3> DEFINE i == Len(types) + 1
               begins == BeginsChunk(type, chunk.clabel)
               closes == (begins \/ type.letter = "O") /\ chunk.open # 0
               open == IF begins THEN i ELSE IF closes THEN 0 ELSE chunk.open
               clabel == IF begins THEN type.kind ELSE chunk.clabel
               labels == IF closes THEN Closed(i) ELSE chunk.labels
    <3>1. /\ i <= taken /\ types' = Append(types, type)
          /\ chunk' = [open |-> open, clabel |-> clabel, labels |-> labels]
      BY <2>1 DEF ChunkToken
    <3>2. types' \in Seq(Type) /\ Len(types') = i
      BY <1>3, <3>1, AppendProperties
    <3>3. open \in Nat /\ open <= i
      BY <1>3, <1>4
    <3>4. clabel \in Kind \cup {NoKind}
      BY <1>4, TypeFacts
    <3>5. labels \in Seq(ChunkLabels)
      BY <1>4, <1>5
    <3> HIDE DEF i, open, clabel, labels
    <3> QED
      BY <3>1, <3>2, <3>3, <3>4, <3>5
  <2>2. CASE ChunkerEnds
    <3>1. types' = types
      BY <2>2 DEF ChunkerEnds
    <3>2. CASE chunk.open = 0
      <4>1. chunk' = chunk
        BY <2>2, <3>2 DEF ChunkerEnds
      <4> QED
        BY <1>3, <3>1, <4>1
    <3>3. CASE chunk.open # 0
      <4> DEFINE labels == Closed(Len(types) + 1)
      <4>1. chunk' = [chunk EXCEPT !.open = 0, !.labels = labels]
        BY <2>2, <3>3 DEF ChunkerEnds
      <4>2. labels \in Seq(ChunkLabels)
        BY <1>5, <3>3
      <4> HIDE DEF labels
      <4>3. chunk' = [open |-> 0, clabel |-> chunk.clabel, labels |-> labels]
        BY <1>3, <4>1
      <4> QED
        BY <1>3, <1>4, <3>1, <4>2, <4>3
    <3> QED
      BY <3>2, <3>3
  <2> QED
    BY <2>1, <2>2
<1>7. tokens' = tokens /\ place' \notin Unasked \cup {"asked", "pos", "chunker"}
  BY <1>1 DEF labelling, Unasked, Early
<1>8. TaggersTyped'
  BY <1>1, <1>3, <1>6, <1>7 DEF TaggersTyped
<1>9. Untouched'
  BY <1>7 DEF Untouched
<1> QED
  BY <1>2, <1>8, <1>9 DEF TypedInv

(* The types hold after every step. *)
LEMMA TypedStays == TypedInv /\ [TaggersNext]_taggersVars => TypedInv'
<1> SUFFICES ASSUME TypedInv, [TaggersNext]_taggersVars PROVE TypedInv'
  OBVIOUS
<1>1. CASE UNCHANGED taggersVars
  BY <1>1 DEF taggersVars, record, labelling, TypedInv, RecordInv, RecordTyped, Joining, Labelled, Fit,
              Tokenizing, TaggersTyped, Untouched
<1>2. CASE RecordNext /\ UNCHANGED <<lists, taken, types, chunk>>
  BY <1>2, LabellingTyped
<1>3. CASE \E h \in {"pos", "chunker"} : Ask(h) /\ UNCHANGED <<lists, taken, types, chunk>>
  BY <1>3, AskTyped DEF Taking
<1>4. CASE PosBegins \/ PosToken \/ PosEnds
  BY <1>4, PosTyped
<1>5. CASE ChunkerBegins \/ ChunkerTag \/ ChunkerReads
  BY <1>5, ReadingTyped
<1>6. CASE (\E type \in Type : ChunkToken(type)) \/ ChunkerEnds
  BY <1>6, ChunkTyped
<1> QED
  BY <1>1, <1>2, <1>3, <1>4, <1>5, <1>6 DEF TaggersNext

-----------------------------------------------------------------------------
(***************************************************************************)
(* The taggers' lists, step by step.                                       *)
(***************************************************************************)
(* Nothing that is said of the sentences' tokens changes while the views do not. *)
LEMMA SameViews ==
  ASSUME tokens' = tokens, sentences' = sentences
  PROVE  /\ EverySentenceHasTokens' <=> EverySentenceHasTokens
         /\ NoSentenceEndsBlank' <=> NoSentenceEndsBlank
         /\ \A i : In(i)' = In(i)
         /\ Sorted(lists, taken)' <=> Sorted(lists', taken')
         /\ ([i \in DOMAIN sentences |-> TokensIn(i)])' = [i \in DOMAIN sentences |-> TokensIn(i)]
BY DEF EverySentenceHasTokens, NoSentenceEndsBlank, In, Sorted, Some, TokensIn, Within, IsIn

(* The lists begin with an empty one for the first sentence. *)
LEMMA FirstList ==
  ASSUME Fit, sentences # << >>
  PROVE  Sorted(<< << >> >>, 0)
<1>1. sentences \in Seq(SpanSet) /\ Len(sentences) \in Nat /\ Len(sentences) # 0
  BY EmptySeq, FitFacts
<1>2. Some(1, 0) = << >>
  <2>1. 0 \in 0 .. Len(tokens)
    BY FitFacts
  <2>2. \A w \in 1 .. 0 : w \notin In(1)
    OBVIOUS
  <2> QED
    BY <2>1, <2>2, NoneOfNone
<1>3. Len(<< << >> >>) = 1 /\ DOMAIN << << >> >> = {1} /\ << << >> >>[1] = << >>
  OBVIOUS
<1>4. Len(<< << >> >>) <= Len(sentences)
  BY <1>1, <1>3
<1>5. \A i \in DOMAIN << << >> >> : << << >> >>[i] = Some(i, 0)
  BY <1>2, <1>3
<1>6. \A w \in 1 .. 0 : \E i \in DOMAIN << << >> >> : w \in In(i)
  OBVIOUS
<1>7. \A i \in DOMAIN << << >> >> : i # Len(<< << >> >>) => In(i) \subseteq 1 .. 0
  BY <1>3
<1> QED
  BY <1>4, <1>5, <1>6, <1>7 DEF Sorted

(* The token that comes next, and the sentence it is looked for in. *)
LEMMA TheNextToken ==
  ASSUME Fit, NEW ls \in Seq(Seq(SpanSet)), NEW k \in Nat, k < Len(tokens), Sorted(ls, k)
  PROVE  /\ k + 1 \in DOMAIN tokens /\ Len(ls) \in 0 .. Len(sentences)
         /\ DOMAIN ls = 1 .. Len(ls) /\ Len(ls) \in Nat
         /\ \A v \in 1 .. k : \E i \in 1 .. Len(ls) : v \in In(i)
         /\ \A i \in 1 .. Len(ls) : i # Len(ls) => k + 1 \notin In(i)
<1>1. /\ DOMAIN tokens = 1 .. Len(tokens) /\ Len(tokens) \in Nat /\ Len(sentences) \in Nat
  BY FitFacts
<1>2. /\ DOMAIN ls = 1 .. Len(ls) /\ Len(ls) \in Nat
  OBVIOUS
<1>3. /\ Len(ls) <= Len(sentences)
      /\ \A w \in 1 .. k : \E i \in DOMAIN ls : w \in In(i)
      /\ \A i \in DOMAIN ls : i # Len(ls) => In(i) \subseteq 1 .. k
  BY DEF Sorted
<1>4. k + 1 \notin 1 .. k
  OBVIOUS
<1>5. k + 1 \in DOMAIN tokens /\ Len(ls) \in 0 .. Len(sentences)
  BY <1>1, <1>2, <1>3
<1>6. \A i \in 1 .. Len(ls) : i # Len(ls) => k + 1 \notin In(i)
  <2> HIDE DEF In
  <2> QED
    BY <1>2, <1>3, <1>4
<1> QED
  BY <1>2, <1>3, <1>5, <1>6

(* The tagger of IllinoisPOSHandler: a token that starts before the sentence ends is in *)
(* it.                                                                                  *)
LEMMA PosTokenInside ==
  ASSUME Fit, EverySentenceHasTokens, NEW ls \in Seq(Seq(SpanSet)), ls # << >>,
         NEW k \in Nat, k < Len(tokens), Sorted(ls, k),
         tokens[k + 1].start < sentences[Len(ls)].ending
  PROVE  k + 1 \in In(Len(ls))
<1> DEFINE n == Len(ls)
<1>1. /\ k + 1 \in DOMAIN tokens /\ n \in 0 .. Len(sentences) /\ n \in Nat
      /\ \A i \in 1 .. n : i # n => k + 1 \notin In(i)
  BY TheNextToken
<1>2. n \in DOMAIN sentences /\ DOMAIN sentences = 1 .. Len(sentences) /\ Len(sentences) \in Nat
  BY <1>1, FitFacts, EmptySeq
<1>3. PICK m \in DOMAIN sentences : k + 1 \in In(m)
  BY <1>1, FitFacts
<1> HIDE DEF n
<1>4. CASE m > n
  <2>1. /\ sentences[n].ending <= sentences[m].start /\ sentences[m].start \in Nat
        /\ sentences[n].ending \in Nat /\ tokens[k + 1].start >= sentences[m].start
        /\ tokens[k + 1].start \in Nat
    BY <1>1, <1>2, <1>3, <1>4, FitFacts
  <2>2. tokens[k + 1].start < sentences[n].ending
    BY DEF n
  <2> QED
    BY <2>1, <2>2
<1>5. CASE ~ (m > n)
  <2>1. m \in 1 .. n
    BY <1>1, <1>2, <1>5
  <2> QED
    BY <1>1, <1>3, <2>1 DEF n
<1> QED
  BY <1>4, <1>5

(* A token that starts where the sentence ends, or behind, is in the next one. *)
LEMMA PosTokenBehind ==
  ASSUME Fit, EverySentenceHasTokens, NEW ls \in Seq(Seq(SpanSet)), ls # << >>,
         NEW k \in Nat, k < Len(tokens), Sorted(ls, k),
         tokens[k + 1].start >= sentences[Len(ls)].ending
  PROVE  /\ Len(ls) + 1 \in DOMAIN sentences /\ k + 1 \in In(Len(ls) + 1)
         /\ In(Len(ls)) \subseteq 1 .. k
<1> DEFINE n == Len(ls)
<1>1. /\ k + 1 \in DOMAIN tokens /\ n \in 0 .. Len(sentences) /\ n \in Nat
      /\ \A v \in 1 .. k : \E i \in 1 .. n : v \in In(i)
      /\ \A i \in 1 .. n : i # n => k + 1 \notin In(i)
  BY TheNextToken
<1>2. /\ n \in DOMAIN sentences /\ DOMAIN sentences = 1 .. Len(sentences) /\ Len(sentences) \in Nat
  BY <1>1, FitFacts, EmptySeq
<1>3. tokens[k + 1].start >= sentences[n].ending
  OBVIOUS
<1> HIDE DEF n
<1>4. /\ tokens[k + 1].start \in Nat /\ tokens[k + 1].ending \in Nat
      /\ tokens[k + 1].start < tokens[k + 1].ending /\ sentences[n].ending \in Nat
  BY <1>1, <1>2, FitFacts
<1>5. k + 1 \notin In(n)
  <2> SUFFICES ASSUME k + 1 \in In(n) PROVE FALSE
    OBVIOUS
  <2>1. tokens[k + 1].ending <= sentences[n].ending
    BY FitFacts
  <2> QED
    BY <2>1, <1>3, <1>4
<1>6. In(n) \subseteq 1 .. k
  <2>1. In(n) \subseteq 1 .. k + 1
    <3>1. tokens[k + 1].ending >= sentences[n].ending
      BY <1>3, <1>4
    <3> QED
      BY <1>1, <1>2, <3>1, NothingBehind
  <2> QED
    BY <1>5, <2>1
<1>7. n + 1 \in DOMAIN sentences /\ k + 1 \in In(n + 1)
  <2>1. \A v \in 1 .. (k + 1) - 1 : \E i \in 1 .. n : v \in In(i)
    BY <1>1
  <2>2. \A i \in 1 .. n : k + 1 \notin In(i)
    BY <1>1, <1>5
  <2> QED
    BY <1>1, <2>1, <2>2, NextSentence
<1> QED
  BY <1>6, <1>7 DEF n

(* A step of the loop of IllinoisPOSHandler leaves the lists sorted. *)
LEMMA PosGoesOn ==
  ASSUME TypedInv, PosReads, PosBegins \/ PosToken
  PROVE  PosReads'
<1> SUFFICES ASSUME place' = "pos", EverySentenceHasTokens' PROVE Sorted(lists, taken)'
  BY DEF PosReads
<1>1. tokens' = tokens /\ sentences' = sentences
  BY DEF PosBegins, PosToken, labelling
<1>2. EverySentenceHasTokens /\ (Sorted(lists, taken)' <=> Sorted(lists', taken'))
  BY <1>1, SameViews
<1>3. Fit
  BY DEF PosBegins, PosToken, TypedInv, RecordInv, Labelled
<1>4. CASE PosBegins
  <2>1. sentences # << >> /\ lists' = << << >> >> /\ taken' = taken /\ place = "asked"
    BY <1>4 DEF PosBegins
  <2>2. taken = 0
    BY <2>1 DEF TypedInv, Untouched
  <2> QED
    BY <1>2, <1>3, <2>1, <2>2, FirstList
<1>5. CASE PosToken
  <2> DEFINE n == Len(lists)
             k == taken
             token == tokens[k + 1]
  <2>1. /\ place = "pos" /\ k < Len(tokens)
        /\ \/ /\ token.start < sentences[n].ending
              /\ lists' = [lists EXCEPT ![n] = Append(@, token)] /\ taken' = k + 1
           \/ /\ token.start >= sentences[n].ending
              /\ lists' = Append(lists, <<token>>) /\ taken' = k + 1
    BY <1>5 DEF PosToken
  <2>2. lists \in Seq(Seq(SpanSet)) /\ lists # << >> /\ k \in Nat
    BY <2>1 DEF TypedInv, TaggersTyped
  <2>3. Sorted(lists, k)
    BY <2>1, <1>2 DEF PosReads
  <2>4. CASE token.start < sentences[n].ending /\ lists' = [lists EXCEPT ![n] = Append(@, token)]
    <3>1. k + 1 \in In(Len(lists))
      BY <1>2, <1>3, <2>1, <2>2, <2>3, <2>4, PosTokenInside
    <3>2. Sorted([lists EXCEPT ![Len(lists)] = Append(@, tokens[k + 1])], k + 1)
      BY <1>3, <2>1, <2>2, <2>3, <3>1, ListGrows
    <3> QED
      BY <1>2, <2>1, <2>4, <3>2
  <2>5. CASE token.start >= sentences[n].ending /\ lists' = Append(lists, <<token>>)
    <3>1. /\ Len(lists) + 1 \in DOMAIN sentences /\ k + 1 \in In(Len(lists) + 1)
          /\ In(Len(lists)) \subseteq 1 .. k
      BY <1>2, <1>3, <2>1, <2>2, <2>3, <2>5, PosTokenBehind
    <3>2. Sorted(Append(lists, <<tokens[k + 1]>>), k + 1)
      BY <1>3, <2>1, <2>2, <2>3, <3>1, ListBegins
    <3> QED
      BY <1>2, <2>1, <2>5, <3>2
  <2> QED
    BY <2>1, <2>4, <2>5
<1> QED
  BY <1>4, <1>5

(* As many lists as sentences, when all tokens are taken. *)
LEMMA AllSentencesTaken ==
  ASSUME Fit, EverySentenceHasTokens, NEW ls \in Seq(Seq(SpanSet)), Sorted(ls, Len(tokens))
  PROVE  Len(ls) = Len(sentences) /\ (ls # << >> => In(Len(ls)) \subseteq 1 .. Len(tokens))
<1>1. /\ DOMAIN tokens = 1 .. Len(tokens) /\ Len(tokens) \in Nat /\ Len(sentences) \in Nat
      /\ DOMAIN sentences = 1 .. Len(sentences)
  BY FitFacts
<1>2. /\ Len(ls) \in Nat /\ DOMAIN ls = 1 .. Len(ls) /\ Len(ls) <= Len(sentences)
      /\ \A w \in DOMAIN tokens : \E i \in 1 .. Len(ls) : w \in In(i)
  BY <1>1 DEF Sorted
<1>3. Len(ls) = Len(sentences)
  <2> SUFFICES ASSUME Len(ls) # Len(sentences) PROVE FALSE
    OBVIOUS
  <2>1. Len(sentences) \in DOMAIN sentences /\ Len(sentences) \notin 1 .. Len(ls)
    <3>1. Len(ls) \in Nat /\ Len(sentences) \in Nat /\ Len(ls) <= Len(sentences)
      BY <1>1, <1>2
    <3>2. Len(sentences) \in 1 .. Len(sentences) /\ Len(sentences) \notin 1 .. Len(ls)
      BY <3>1
    <3> QED
      BY <1>1, <3>2
  <2>2. PICK w \in In(Len(sentences)) : TRUE
    BY <2>1, SomeOrNone DEF EverySentenceHasTokens
  <2>3. PICK i \in 1 .. Len(ls) : w \in In(i)
    BY <1>2, <2>2, FitFacts
  <2>4. i \in DOMAIN sentences
    <3>1. Len(ls) \in Nat /\ Len(sentences) \in Nat /\ Len(ls) <= Len(sentences)
      BY <1>1, <1>2
    <3>2. i \in 1 .. Len(sentences)
      BY <3>1
    <3> QED
      BY <1>1, <3>2
  <2> QED
    BY <2>1, <2>2, <2>3, <2>4, OneSentence
<1> QED
  BY <1>1, <1>3, FitFacts

-----------------------------------------------------------------------------
(* The tag at hand of the chunker's do-while. *)
LEMMA TagAtHand ==
  ASSUME Fit, NEW ls \in Seq(Seq(SpanSet)), ls # << >>, NEW k \in Nat, k <= Len(tokens),
         Sorted(ls, k), k \in In(Len(ls))
  PROVE  /\ Len(ls) \in DOMAIN sentences /\ k \in DOMAIN tokens
         /\ tokens[k].ending \in Nat /\ sentences[Len(ls)].ending \in Nat
         /\ tokens[k].ending <= sentences[Len(ls)].ending
         /\ k + 1 <= Len(tokens) => k + 1 \in DOMAIN tokens
<1>1. /\ DOMAIN tokens = 1 .. Len(tokens) /\ Len(tokens) \in Nat /\ Len(sentences) \in Nat
      /\ DOMAIN sentences = 1 .. Len(sentences)
  BY FitFacts
<1>2. Len(ls) \in Nat /\ Len(ls) # 0 /\ Len(ls) <= Len(sentences)
  BY EmptySeq DEF Sorted
<1>3. Len(ls) \in DOMAIN sentences
  BY <1>1, <1>2
<1>4. k \in DOMAIN tokens /\ tokens[k].ending <= sentences[Len(ls)].ending
  BY FitFacts
<1>5. tokens[k].ending \in Nat /\ sentences[Len(ls)].ending \in Nat
  BY <1>3, <1>4, FitFacts
<1> QED
  BY <1>1, <1>3, <1>4, <1>5

(* The tagger of IllinoisChunkerHandler goes on to the next sentence when the tag       *)
(* reached the end of its own: the next one is in it.                                   *)
LEMMA ChunkerTagBehind ==
  ASSUME Fit, EverySentenceHasTokens, NEW ls \in Seq(Seq(SpanSet)),
         NEW k \in Nat, k < Len(tokens), Sorted(ls, k), ls # << >> => k \in In(Len(ls)),
         ls # << >> => tokens[k].ending >= sentences[Len(ls)].ending
  PROVE  /\ Len(ls) + 1 \in DOMAIN sentences /\ k + 1 \in In(Len(ls) + 1)
         /\ ls # << >> => In(Len(ls)) \subseteq 1 .. k
<1> DEFINE n == Len(ls)
<1>1. /\ k + 1 \in DOMAIN tokens /\ n \in 0 .. Len(sentences) /\ n \in Nat
      /\ \A v \in 1 .. k : \E i \in 1 .. n : v \in In(i)
      /\ \A i \in 1 .. n : i # n => k + 1 \notin In(i)
  BY TheNextToken
<1>2. ls # << >> => In(n) \subseteq 1 .. k
  <2> SUFFICES ASSUME ls # << >> PROVE In(n) \subseteq 1 .. k
    OBVIOUS
  <2>1. Len(ls) \in DOMAIN sentences /\ k \in DOMAIN tokens
    BY TagAtHand
  <2> QED
    BY <2>1, NothingBehind
<1>3. \A i \in 1 .. n : k + 1 \notin In(i)
  <2> SUFFICES ASSUME NEW i \in 1 .. n PROVE k + 1 \notin In(i)
    OBVIOUS
  <2>1. CASE i = n
    <3>1. ls # << >>
      BY <1>1
    <3>2. k + 1 \notin 1 .. k
      OBVIOUS
    <3> QED
      BY <1>2, <2>1, <3>1, <3>2
  <2>2. CASE i # n
    BY <1>1, <2>2
  <2> QED
    BY <2>1, <2>2
<1> HIDE DEF n
<1>4. n + 1 \in DOMAIN sentences /\ k + 1 \in In(n + 1)
  <2>1. \A v \in 1 .. (k + 1) - 1 : \E i \in 1 .. n : v \in In(i)
    BY <1>1
  <2> QED
    BY <1>1, <1>3, <2>1, NextSentence
<1> QED
  BY <1>2, <1>4 DEF n

(* Before that, no sentence ending in a blank, a tag is to come for its last token, and *)
(* the next one is in the same sentence.                                                *)
LEMMA ChunkerTagInside ==
  ASSUME Fit, EverySentenceHasTokens, NoSentenceEndsBlank,
         NEW ls \in Seq(Seq(SpanSet)), ls # << >>,
         NEW k \in Nat, k <= Len(tokens), Sorted(ls, k), k \in In(Len(ls)),
         ~ (tokens[k].ending >= sentences[Len(ls)].ending)
  PROVE  k < Len(tokens) /\ k + 1 \in In(Len(ls))
<1> DEFINE n == Len(ls)
<1>1. /\ n \in DOMAIN sentences /\ k \in DOMAIN tokens
      /\ tokens[k].ending \in Nat /\ sentences[n].ending \in Nat
      /\ tokens[k].ending < sentences[n].ending
  BY TagAtHand
<1>2. PICK w \in In(n) : tokens[w].ending = sentences[n].ending
  <2>1. TokensIn(n) # << >>
    BY <1>1 DEF EverySentenceHasTokens
  <2>2. PICK w \in In(n) : TokensIn(n)[Len(TokensIn(n))] = tokens[w]
    BY <2>1, SomeOrNone
  <2> QED
    BY <1>1, <2>2 DEF NoSentenceEndsBlank
<1>3. k \in In(n)
  OBVIOUS
<1> HIDE DEF n
<1>4. /\ DOMAIN tokens = 1 .. Len(tokens) /\ Len(tokens) \in Nat /\ w \in DOMAIN tokens
      /\ tokens[w].start \in Nat /\ tokens[k].start \in Nat
      /\ tokens[w].start < tokens[w].ending
      /\ tokens[k].start >= sentences[n].start /\ sentences[n].start \in Nat
  BY <1>1, <1>2, <1>3, FitFacts
<1>5. k < w
  <2>1. w # k
    BY <1>1, <1>2
  <2>2. ~ (w < k)
    <3> SUFFICES ASSUME w < k PROVE FALSE
      OBVIOUS
    <3>1. tokens[w].ending <= tokens[k].start /\ tokens[k].start < tokens[k].ending
      BY <1>1, <1>4, FitFacts
    <3> QED
      BY <1>1, <1>2, <1>4, <3>1
  <2> QED
    BY <1>4, <2>1, <2>2
<1>6. k < Len(tokens) /\ k + 1 \in DOMAIN tokens
  BY <1>4, <1>5
<1>7. /\ tokens[k + 1].start \in Nat /\ tokens[k + 1].ending \in Nat
      /\ tokens[k].start < tokens[k].ending
      /\ tokens[k].ending <= tokens[k + 1].start
  <2>1. k < k + 1
    OBVIOUS
  <2>2. tokens[k].ending <= tokens[k + 1].start
    BY <1>1, <1>6, <2>1, FitFacts
  <2> QED
    BY <1>1, <1>6, <2>2, FitFacts
<1>8. tokens[k + 1].ending <= tokens[w].ending
  <2>1. CASE w = k + 1
    BY <1>7, <2>1
  <2>2. CASE w # k + 1
    <3>1. k + 1 < w
      BY <1>4, <1>5, <2>2
    <3>2. tokens[k + 1].ending <= tokens[w].start
      BY <1>4, <1>6, <3>1, FitFacts
    <3> QED
      BY <1>1, <1>2, <1>4, <1>7, <3>2
  <2> QED
    BY <2>1, <2>2
<1>9. tokens[k + 1].start >= sentences[n].start /\ tokens[k + 1].ending <= sentences[n].ending
  <2>1. tokens[k].start <= tokens[k + 1].start
    BY <1>1, <1>4, <1>7
  <2>2. sentences[n].start <= tokens[k + 1].start
    BY <1>4, <1>7, <2>1
  <2>3. tokens[k + 1].ending <= sentences[n].ending
    BY <1>2, <1>8
  <2> QED
    BY <1>4, <1>7, <2>2, <2>3
<1>10. k + 1 \in In(n)
  BY <1>6, <1>9 DEF In, IsIn
<1> QED
  BY <1>6, <1>10 DEF n

(* So does one of the do-while of IllinoisChunkerHandler. *)
LEMMA ChunkerGoesOn ==
  ASSUME TypedInv, ChunkerTakes, ChunkerBegins \/ ChunkerTag
  PROVE  ChunkerTakes'
<1> SUFFICES ASSUME place' = "chunker", EverySentenceHasTokens', NoSentenceEndsBlank'
             PROVE  Sorted(lists, taken)' /\ (lists' # << >> => (taken \in In(Len(lists)))')
  BY DEF ChunkerTakes
<1>1. tokens' = tokens /\ sentences' = sentences
  BY DEF ChunkerBegins, ChunkerTag, labelling
<1>2. /\ EverySentenceHasTokens /\ NoSentenceEndsBlank
      /\ Sorted(lists, taken)' <=> Sorted(lists', taken')
      /\ (taken \in In(Len(lists)))' <=> taken' \in In(Len(lists'))
  <2>1. (taken \in In(Len(lists)))' <=> taken' \in In(Len(lists'))
    BY <1>1 DEF In, IsIn
  <2> QED
    BY <1>1, <2>1, SameViews
<1>3. Fit
  BY DEF ChunkerBegins, ChunkerTag, TypedInv, RecordInv, Labelled
<1>4. CASE ChunkerBegins
  <2>1. lists' = << >> /\ taken' = 0
    BY <1>4 DEF ChunkerBegins, TypedInv, Untouched
  <2>2. Sorted(<< >>, 0)
    <3>1. Len(sentences) \in Nat
      BY <1>3, FitFacts
    <3>2. Len(<< >>) <= Len(sentences) /\ DOMAIN << >> = {} /\ 1 .. 0 = {}
      BY <3>1
    <3> QED
      BY <3>2 DEF Sorted
  <2> QED
    BY <1>2, <2>1, <2>2
<1>5. CASE ChunkerTag
  <2> DEFINE n == Len(lists)
             k == taken
             token == tokens[k + 1]
  <2>1. /\ place = "chunker" /\ k # Len(tokens) /\ taken' = k + 1
        /\ lists' = IF SentenceIsTaken THEN Append(lists, <<token>>)
                    ELSE [lists EXCEPT ![n] = Append(@, token)]
    BY <1>5 DEF ChunkerTag
  <2>2. lists \in Seq(Seq(SpanSet)) /\ k \in Nat /\ k < Len(tokens)
    <3>1. lists \in Seq(Seq(SpanSet)) /\ k \in Nat /\ k <= Len(tokens)
      BY DEF TypedInv, TaggersTyped
    <3>2. Len(tokens) \in Nat
      BY <1>3, FitFacts
    <3> QED
      BY <2>1, <3>1, <3>2
  <2>3. Sorted(lists, k) /\ (lists # << >> => k \in In(n))
    BY <2>1, <1>2 DEF ChunkerTakes
  <2>4. CASE SentenceIsTaken
    <3>1. lists # << >> => tokens[k].ending >= sentences[n].ending
      BY <2>4 DEF SentenceIsTaken
    <3>2. /\ Len(lists) + 1 \in DOMAIN sentences /\ k + 1 \in In(Len(lists) + 1)
          /\ lists # << >> => In(Len(lists)) \subseteq 1 .. k
      BY <1>2, <1>3, <2>2, <2>3, <3>1, ChunkerTagBehind
    <3>3. Sorted(Append(lists, <<tokens[k + 1]>>), k + 1)
      BY <1>3, <2>2, <2>3, <3>2, ListBegins
    <3>4. Len(lists') = Len(lists) + 1
      BY <2>1, <2>2, <2>4
    <3> QED
      BY <1>2, <2>1, <2>4, <3>2, <3>3, <3>4
  <2>5. CASE ~ SentenceIsTaken
    <3>1. lists # << >> /\ ~ (tokens[k].ending >= sentences[n].ending)
      BY <2>5 DEF SentenceIsTaken
    <3>2. k + 1 \in In(Len(lists)) /\ k <= Len(tokens)
      BY <1>2, <1>3, <2>2, <2>3, <3>1, ChunkerTagInside, FitFacts
    <3>3. Sorted([lists EXCEPT ![Len(lists)] = Append(@, tokens[k + 1])], k + 1)
      BY <1>3, <2>2, <2>3, <3>1, <3>2, ListGrows
    <3>4. Len(lists') = Len(lists)
      BY <2>1, <2>2, <2>5
    <3> QED
      BY <1>2, <2>1, <2>5, <3>2, <3>3, <3>4
  <2> QED
    BY <2>4, <2>5
<1> QED
  BY <1>4, <1>5

-----------------------------------------------------------------------------
(* The lists a tagger is given are the sentences' tokens. *)
LEMMA PosAgrees ==
  ASSUME TypedInv, PosReads, PosEnds
  PROVE  Agreed'
<1> SUFFICES ASSUME EverySentenceHasTokens'
             PROVE  lists' = ([i \in DOMAIN sentences |-> TokensIn(i)])'
  BY DEF Agreed
<1>1. /\ tokens' = tokens /\ sentences' = sentences /\ lists' = lists
      /\ place = "pos" /\ taken = Len(tokens)
  BY DEF PosEnds, labelling
<1>2. /\ EverySentenceHasTokens
      /\ ([i \in DOMAIN sentences |-> TokensIn(i)])' = [i \in DOMAIN sentences |-> TokensIn(i)]
  BY <1>1, SameViews
<1>3. Fit /\ lists \in Seq(Seq(SpanSet))
  BY <1>1 DEF TypedInv, RecordInv, Labelled, TaggersTyped
<1>4. Sorted(lists, Len(tokens))
  BY <1>1, <1>2 DEF PosReads
<1>5. Len(lists) = Len(sentences) /\ (lists # << >> => In(Len(lists)) \subseteq 1 .. Len(tokens))
  BY <1>2, <1>3, <1>4, AllSentencesTaken
<1>6. Len(tokens) \in 0 .. Len(tokens)
  BY <1>3, FitFacts
<1>7. lists = [i \in DOMAIN sentences |-> TokensIn(i)]
  BY <1>3, <1>4, <1>5, <1>6, SortedOut
<1> QED
  BY <1>1, <1>2, <1>7

(* The same, where the do-while is left for the last time. *)
LEMMA ChunkerAgrees ==
  ASSUME TypedInv, ChunkerTakes, ChunkerReads
  PROVE  Agreed'
<1>1. /\ tokens' = tokens /\ sentences' = sentences /\ lists' = lists
      /\ place = "chunker" /\ handler' = "chunker"
      /\ lists # << >> => tokens[taken].ending >= sentences[Len(lists)].ending
      /\ Len(lists) = Len(sentences)
  BY DEF ChunkerReads, labelling, SentenceIsTaken, TypedInv, TaggersTyped
<1> SUFFICES ASSUME EverySentenceHasTokens', NoSentenceEndsBlank'
             PROVE  lists' = ([i \in DOMAIN sentences |-> TokensIn(i)])'
  BY <1>1 DEF Agreed
<1>2. /\ EverySentenceHasTokens /\ NoSentenceEndsBlank
      /\ ([i \in DOMAIN sentences |-> TokensIn(i)])' = [i \in DOMAIN sentences |-> TokensIn(i)]
  BY <1>1, SameViews
<1>3. /\ Fit /\ lists \in Seq(Seq(SpanSet)) /\ taken \in Nat /\ taken <= Len(tokens)
  BY <1>1 DEF TypedInv, RecordInv, Labelled, TaggersTyped
<1>4. Sorted(lists, taken) /\ (lists # << >> => taken \in In(Len(lists)))
  BY <1>1, <1>2 DEF ChunkerTakes
<1>5. lists # << >> => In(Len(lists)) \subseteq 1 .. taken
  <2> SUFFICES ASSUME lists # << >> PROVE In(Len(lists)) \subseteq 1 .. taken
    OBVIOUS
  <2>1. Len(lists) \in DOMAIN sentences /\ taken \in DOMAIN tokens
    BY <1>3, <1>4, TagAtHand
  <2> QED
    BY <1>1, <1>3, <2>1, NothingBehind
<1>6. taken \in 0 .. Len(tokens)
  BY <1>3, FitFacts
<1>7. lists = [i \in DOMAIN sentences |-> TokensIn(i)]
  BY <1>1, <1>3, <1>4, <1>5, <1>6, SortedOut
<1> QED
  BY <1>1, <1>2, <1>7

(* What is said of the lists. *)
ListsInv == PosReads /\ ChunkerTakes /\ Agreed

(* The lists stay what they are said to be after every step. *)
LEMMA ListsStay == TypedInv /\ ListsInv /\ [TaggersNext]_taggersVars => ListsInv'
<1> SUFFICES ASSUME TypedInv, ListsInv, [TaggersNext]_taggersVars PROVE ListsInv'
  OBVIOUS
<1>1. PosReads /\ ChunkerTakes /\ Agreed
  BY DEF ListsInv
<1>2. ASSUME place' \notin {"pos", "chunker", "chunks", "answered"} PROVE ListsInv'
  BY <1>2 DEF ListsInv, PosReads, ChunkerTakes, Agreed, Answered
<1>3. CASE UNCHANGED taggersVars
  <2>1. UNCHANGED <<tokens, sentences, lists, taken, place, handler>>
    BY <1>3 DEF taggersVars, record, labelling
  <2>2. /\ EverySentenceHasTokens' <=> EverySentenceHasTokens
        /\ NoSentenceEndsBlank' <=> NoSentenceEndsBlank
        /\ Sorted(lists, taken)' <=> Sorted(lists, taken)
        /\ ([i \in DOMAIN sentences |-> TokensIn(i)])' = [i \in DOMAIN sentences |-> TokensIn(i)]
        /\ (taken \in In(Len(lists)))' <=> taken \in In(Len(lists))
    <3>1. (taken \in In(Len(lists)))' <=> taken \in In(Len(lists))
      BY <2>1 DEF In, IsIn
    <3> QED
      BY <2>1, <3>1, SameViews
  <2> QED
    BY <1>1, <2>1, <2>2 DEF ListsInv, PosReads, ChunkerTakes, Agreed, Answered
<1>4. CASE RecordNext /\ UNCHANGED <<lists, taken, types, chunk>>
  <2>1. place' \notin {"pos", "chunker", "chunks", "answered"}
    BY <1>4 DEF RecordNext, WhitespaceSentence, WhitespacerEnds, SplitAll, TokenizerSentence, TokenizerEnds
  <2> QED
    BY <1>2, <2>1
<1>5. CASE \E h \in {"pos", "chunker"} : Ask(h) /\ UNCHANGED <<lists, taken, types, chunk>>
  <2>1. place' \notin {"pos", "chunker", "chunks", "answered"}
    BY <1>5 DEF Ask
  <2> QED
    BY <1>2, <2>1
<1>6. CASE PosBegins \/ PosToken
  <2>1. PosReads'
    BY <1>1, <1>6, PosGoesOn
  <2>2. place' \in {"failed", "pos"}
    BY <1>6 DEF PosBegins, PosToken
  <2> QED
    BY <2>1, <2>2 DEF ListsInv, ChunkerTakes, Agreed, Answered
<1>7. CASE PosEnds
  <2>1. Agreed'
    BY <1>1, <1>7, PosAgrees
  <2>2. place' = "answered"
    BY <1>7 DEF PosEnds
  <2> QED
    BY <2>1, <2>2 DEF ListsInv, ChunkerTakes, PosReads
<1>8. CASE ChunkerBegins \/ ChunkerTag
  <2>1. ChunkerTakes'
    BY <1>1, <1>8, ChunkerGoesOn
  <2>2. place' \in {"failed", "chunker"}
    BY <1>8 DEF ChunkerBegins, ChunkerTag
  <2> QED
    BY <2>1, <2>2 DEF ListsInv, PosReads, Agreed, Answered
<1>9. CASE ChunkerReads
  <2>1. Agreed'
    BY <1>1, <1>9, ChunkerAgrees
  <2>2. place' = "chunks"
    BY <1>9 DEF ChunkerReads
  <2> QED
    BY <2>1, <2>2 DEF ListsInv, ChunkerTakes, PosReads
<1>10. CASE (\E type \in Type : ChunkToken(type)) \/ ChunkerEnds
  <2>1. /\ UNCHANGED <<tokens, sentences, lists, handler>> /\ place = "chunks"
        /\ place' \in {"chunks", "answered"}
    BY <1>10 DEF ChunkToken, ChunkerEnds, record, labelling
  <2>2. /\ EverySentenceHasTokens' <=> EverySentenceHasTokens
        /\ NoSentenceEndsBlank' <=> NoSentenceEndsBlank
        /\ ([i \in DOMAIN sentences |-> TokensIn(i)])' = [i \in DOMAIN sentences |-> TokensIn(i)]
    BY <2>1, SameViews
  <2> QED
    BY <1>1, <2>1, <2>2 DEF ListsInv, PosReads, ChunkerTakes, Agreed, Answered
<1> QED
  BY <1>3, <1>4, <1>5, <1>6, <1>7, <1>8, <1>9, <1>10 DEF TaggersNext

-----------------------------------------------------------------------------
(***************************************************************************)
(* The runs of the types that the tagger answers, when there is one more.  *)
(***************************************************************************)
(* The greatest element of a set of numbers is what CHOOSE finds. *)
LEMMA TheGreatest ==
  ASSUME NEW T \in SUBSET Nat, NEW x \in T, \A y \in T : y <= x
  PROVE  (CHOOSE j \in T : \A k \in T : k <= j) = x
<1> DEFINE c == CHOOSE j \in T : \A k \in T : k <= j
<1>1. c \in T /\ \A k \in T : k <= c
  OBVIOUS
<1> HIDE DEF c
<1>2. c <= x /\ x <= c /\ c \in Nat /\ x \in Nat
  BY <1>1
<1>3. c = x
  BY <1>2
<1> QED
  BY <1>3 DEF c

(* The types with one more. *)
LEMMA TypesAppended ==
  ASSUME NEW ts \in Seq(Type), NEW type \in Type
  PROVE  LET ext == Append(ts, type) IN
         /\ ext \in Seq(Type) /\ Len(ext) = Len(ts) + 1 /\ Len(ts) \in Nat
         /\ DOMAIN ext = 1 .. Len(ts) + 1 /\ DOMAIN ts = 1 .. Len(ts)
         /\ \A k \in 1 .. Len(ts) : ext[k] = ts[k]
         /\ ext[Len(ts) + 1] = type
<1>1. Append(ts, type) \in Seq(Type) /\ Len(Append(ts, type)) = Len(ts) + 1
  BY AppendProperties
<1>2. \A k \in 1 .. Len(ts) : Append(ts, type)[k] = ts[k]
  BY AppendProperties
<1>3. Append(ts, type)[Len(ts) + 1] = type
  BY AppendProperties
<1>4. Len(ts) \in Nat /\ DOMAIN ts = 1 .. Len(ts)
  OBVIOUS
<1> DEFINE ext == Append(ts, type)
<1>5. DOMAIN ext = 1 .. Len(ts) + 1
  <2>1. ext \in Seq(Type) /\ Len(ext) = Len(ts) + 1
    BY <1>1
  <2> HIDE DEF ext
  <2> QED
    BY <2>1
<1> HIDE DEF ext
<1> QED
  BY <1>1, <1>2, <1>3, <1>4, <1>5 DEF ext

(* One more type does not change which kind came before an earlier one. *)
LEMMA KindBeforeStays ==
  ASSUME NEW ts \in Seq(Type), NEW type \in Type, NEW i \in 1 .. Len(ts) + 1
  PROVE  KindBefore(Append(ts, type), i) = KindBefore(ts, i)
<1> DEFINE ext == Append(ts, type)
           inside == {j \in 1 .. i - 1 : ts[j].letter # "O"}
           c == CHOOSE j \in inside : \A k \in inside : k <= j
<1>1. Len(ts) \in Nat /\ \A k \in 1 .. Len(ts) : ext[k] = ts[k]
  BY TypesAppended
<1> HIDE DEF ext
<1>2. 1 .. i - 1 \subseteq 1 .. Len(ts)
  BY <1>1
<1> DEFINE same == {j \in 1 .. i - 1 : ext[j].letter # "O"}
<1>3. same = inside
  BY <1>1, <1>2
<1>4. KindBefore(ext, i) = IF inside = {} THEN NoKind ELSE ext[c].kind
  <2>1. KindBefore(ext, i) =
          IF same = {} THEN NoKind ELSE ext[CHOOSE j \in same : \A k \in same : k <= j].kind
    BY DEF KindBefore
  <2> HIDE DEF same, inside
  <2> QED
    BY <1>3, <2>1
<1>5. KindBefore(ts, i) = IF inside = {} THEN NoKind ELSE ts[c].kind
  BY DEF KindBefore
<1>6. inside # {} => c \in inside
  <2> SUFFICES ASSUME inside # {} PROVE c \in inside
    OBVIOUS
  <2>1. inside \in SUBSET Nat /\ i \in Nat /\ \A x \in inside : x <= i
    BY <1>1
  <2> HIDE DEF inside
  <2>2. PICK x \in inside : \A y \in inside : y <= x
    BY <2>1, GreatestOne
  <2> QED
    BY <2>2
<1>7. inside # {} => ext[c] = ts[c]
  BY <1>1, <1>2, <1>6
<1> HIDE DEF c, inside
<1>8. KindBefore(ext, i) = KindBefore(ts, i)
  BY <1>4, <1>5, <1>7
<1> QED
  BY <1>8 DEF ext

(* The kind before the next type is that of the last one, if it has any. *)
LEMMA KindBeforeNext ==
  ASSUME NEW ts, NEW n \in Nat \ {0}
  PROVE  KindBefore(ts, n + 1) = IF ts[n].letter = "O" THEN KindBefore(ts, n) ELSE ts[n].kind
<1> DEFINE inside(i) == {j \in 1 .. i - 1 : ts[j].letter # "O"}
<1>1. (n + 1) - 1 = n /\ 1 .. n = (1 .. n - 1) \cup {n}
  OBVIOUS
<1>2. CASE ts[n].letter = "O"
  <2> DEFINE S == inside(n)
             T == inside(n + 1)
  <2>1. T = S
    BY <1>1, <1>2
  <2>2. KindBefore(ts, n) = IF S = {} THEN NoKind ELSE ts[CHOOSE j \in S : \A k \in S : k <= j].kind
    BY DEF KindBefore
  <2>3. KindBefore(ts, n + 1) = IF T = {} THEN NoKind ELSE ts[CHOOSE j \in T : \A k \in T : k <= j].kind
    BY DEF KindBefore
  <2> HIDE DEF S, T
  <2> QED
    BY <1>2, <2>1, <2>2, <2>3
<1>3. CASE ts[n].letter # "O"
  <2>1. /\ n \in inside(n + 1) /\ inside(n + 1) \in SUBSET Nat
        /\ \A y \in inside(n + 1) : y <= n
    BY <1>1, <1>3
  <2> DEFINE T == inside(n + 1)
             c == CHOOSE j \in T : \A k \in T : k <= j
  <2>2. KindBefore(ts, n + 1) = IF T = {} THEN NoKind ELSE ts[c].kind
    BY DEF KindBefore
  <2>3. n \in T /\ T \in SUBSET Nat /\ \A y \in T : y <= n
    BY <2>1
  <2> HIDE DEF T
  <2>4. c = n
    BY <2>3, TheGreatest
  <2> HIDE DEF c
  <2> QED
    BY <1>3, <2>2, <2>3, <2>4
<1> QED
  BY <1>2, <1>3

(* One more type changes no beginning and no break before it, and itself begins a run *)
(* if the code says so.                                                               *)
LEMMA RunsStay ==
  ASSUME NEW ts \in Seq(Type), NEW type \in Type
  PROVE  LET ext == Append(ts, type) IN
         /\ \A i \in DOMAIN ts : /\ Begins(ext, i) <=> Begins(ts, i)
                                 /\ Breaks(ext, i) <=> Breaks(ts, i)
         /\ \A i \in DOMAIN ts : \A j \in i .. Len(ts) : GoesTo(ext, i, j) <=> GoesTo(ts, i, j)
         /\ Begins(ext, Len(ts) + 1) <=> BeginsChunk(type, KindBefore(ts, Len(ts) + 1))
         /\ Breaks(ext, Len(ts) + 1) <=> Begins(ext, Len(ts) + 1) \/ type.letter = "O"
         /\ Beginnings(ext) = Beginnings(ts) \cup {i \in {Len(ts) + 1} : Begins(ext, i)}
<1> DEFINE ext == Append(ts, type)
           n == Len(ts)
<1>1. /\ n \in Nat /\ DOMAIN ts = 1 .. n /\ DOMAIN ext = 1 .. n + 1
      /\ \A k \in 1 .. n : ext[k] = ts[k] /\ ext[n + 1] = type
  BY TypesAppended
<1>2. \A i \in 1 .. n + 1 : KindBefore(ext, i) = KindBefore(ts, i)
  BY KindBeforeStays
<1>3. ext[n + 1] = type
  BY TypesAppended
<1> HIDE DEF ext, n
<1>4. \A i \in 1 .. n : /\ Begins(ext, i) <=> Begins(ts, i)
                        /\ Breaks(ext, i) <=> Breaks(ts, i)
  <2> SUFFICES ASSUME NEW i \in 1 .. n
               PROVE  (Begins(ext, i) <=> Begins(ts, i)) /\ (Breaks(ext, i) <=> Breaks(ts, i))
    OBVIOUS
  <2>1. i \in 1 .. n + 1
    BY <1>1
  <2>2. ext[i] = ts[i] /\ KindBefore(ext, i) = KindBefore(ts, i)
    BY <1>1, <1>2, <2>1
  <2> QED
    BY <2>2 DEF Begins, Breaks
<1>5. \A i \in 1 .. n : \A j \in i .. n : GoesTo(ext, i, j) <=> GoesTo(ts, i, j)
  <2> SUFFICES ASSUME NEW i \in 1 .. n, NEW j \in i .. n
               PROVE  GoesTo(ext, i, j) <=> GoesTo(ts, i, j)
    OBVIOUS
  <2>1. \A k \in i + 1 .. j : k \in 1 .. n
    BY <1>1
  <2>2. \A k \in i + 1 .. j : ext[k] = ts[k] /\ (Begins(ext, k) <=> Begins(ts, k))
    BY <1>1, <1>4, <2>1
  <2> QED
    BY <2>2 DEF GoesTo
<1>6. Begins(ext, n + 1) <=> BeginsChunk(type, KindBefore(ts, n + 1))
  <2>1. KindBefore(ext, n + 1) = KindBefore(ts, n + 1)
    BY <1>1, <1>2
  <2> QED
    BY <1>3, <2>1 DEF Begins, BeginsChunk
<1>7. Breaks(ext, n + 1) <=> Begins(ext, n + 1) \/ type.letter = "O"
  BY <1>3 DEF Breaks
<1>8. Beginnings(ext) = Beginnings(ts) \cup {i \in {n + 1} : Begins(ext, i)}
  <2>1. 1 .. n + 1 = (1 .. n) \cup {n + 1}
    BY <1>1
  <2> QED
    BY <1>1, <1>4, <2>1 DEF Beginnings
<1> QED
  BY <1>1, <1>4, <1>5, <1>6, <1>7, <1>8 DEF ext, n

(* A run has one end. *)
LEMMA OneEnd ==
  ASSUME NEW ts \in Seq(Type), NEW i \in DOMAIN ts, NEW j \in i .. Len(ts),
         GoesTo(ts, i, j), j = Len(ts) \/ Breaks(ts, j + 1)
  PROVE  EndOfRun(ts, i) = j
<1> DEFINE end(k) == GoesTo(ts, i, k) /\ (k = Len(ts) \/ Breaks(ts, k + 1))
<1>1. Len(ts) \in Nat /\ i \in 1 .. Len(ts)
  OBVIOUS
<1>2. \A k, l \in i .. Len(ts) : end(k) /\ end(l) => ~ (k < l)
  <2> SUFFICES ASSUME NEW k \in i .. Len(ts), NEW l \in i .. Len(ts), end(k), end(l), k < l
               PROVE  FALSE
    OBVIOUS
  <2>1. Breaks(ts, k + 1) /\ k + 1 \in i + 1 .. l
    BY <1>1
  <2>2. ts[k + 1].letter = "I" /\ ~ Begins(ts, k + 1)
    BY <2>1 DEF GoesTo
  <2> QED
    BY <2>1, <2>2 DEF Breaks
<1>3. end(j)
  OBVIOUS
<1> DEFINE e == CHOOSE k \in i .. Len(ts) : end(k)
<1>4. EndOfRun(ts, i) = e
  BY DEF EndOfRun
<1>5. e \in i .. Len(ts) /\ end(e)
  BY <1>3
<1> HIDE DEF e, end
<1>6. ~ (e < j) /\ ~ (j < e)
  BY <1>2, <1>3, <1>5
<1>7. e = j
  BY <1>1, <1>5, <1>6
<1> QED
  BY <1>4, <1>7

(* A run that is over stays as it is. *)
LEMMA OverStays ==
  ASSUME NEW ts \in Seq(Type), NEW type \in Type, NEW i \in DOMAIN ts, IsOver(ts, i)
  PROVE  /\ IsOver(Append(ts, type), i)
         /\ EndOfRun(Append(ts, type), i) = EndOfRun(ts, i)
<1> DEFINE ext == Append(ts, type)
<1>1. PICK j \in i .. Len(ts) - 1 : GoesTo(ts, i, j) /\ Breaks(ts, j + 1)
  BY DEF IsOver
<1>2. /\ Len(ts) \in Nat /\ DOMAIN ts = 1 .. Len(ts) /\ Len(ext) = Len(ts) + 1
      /\ ext \in Seq(Type) /\ DOMAIN ext = 1 .. Len(ts) + 1
  BY TypesAppended
<1>3. GoesTo(ext, i, j) /\ Breaks(ext, j + 1)
  <2>1. j \in i .. Len(ts) /\ j + 1 \in DOMAIN ts
    BY <1>1, <1>2
  <2>2. (GoesTo(ext, i, j) <=> GoesTo(ts, i, j)) /\ (Breaks(ext, j + 1) <=> Breaks(ts, j + 1))
    BY <2>1, RunsStay
  <2> QED
    BY <1>1, <2>2
<1> HIDE DEF ext
<1>4. j \in i .. Len(ext) - 1 /\ j \in i .. Len(ext) /\ j \in i .. Len(ts) /\ i \in DOMAIN ext
  BY <1>1, <1>2
<1>5. IsOver(ext, i)
  BY <1>3, <1>4 DEF IsOver
<1>6. EndOfRun(ext, i) = j
  BY <1>2, <1>3, <1>4, OneEnd
<1>7. EndOfRun(ts, i) = j
  BY <1>1, <1>4, OneEnd
<1> QED
  BY <1>5, <1>6, <1>7 DEF ext

(* The open run is over when the next type breaks it. *)
LEMMA OpenRunEnds ==
  ASSUME NEW ts \in Seq(Type), NEW type \in Type, NEW i \in DOMAIN ts,
         GoesTo(ts, i, Len(ts)), Breaks(Append(ts, type), Len(ts) + 1)
  PROVE  /\ IsOver(Append(ts, type), i)
         /\ EndOfRun(Append(ts, type), i) = Len(ts)
<1> DEFINE ext == Append(ts, type)
           n == Len(ts)
<1>1. /\ n \in Nat /\ DOMAIN ts = 1 .. n /\ Len(ext) = n + 1
      /\ ext \in Seq(Type) /\ DOMAIN ext = 1 .. n + 1
  BY TypesAppended
<1>2. GoesTo(ext, i, n) /\ Breaks(ext, n + 1)
  <2>1. n \in i .. Len(ts)
    BY <1>1
  <2>2. GoesTo(ext, i, n) <=> GoesTo(ts, i, n)
    BY <2>1, RunsStay
  <2> QED
    BY <2>2
<1> HIDE DEF ext, n
<1>3. n \in i .. Len(ext) - 1 /\ n \in i .. Len(ext) /\ i \in DOMAIN ext
  BY <1>1
<1>4. IsOver(ext, i)
  BY <1>2, <1>3 DEF IsOver
<1>5. EndOfRun(ext, i) = n
  BY <1>1, <1>2, <1>3, OneEnd
<1> QED
  BY <1>4, <1>5 DEF ext, n

-----------------------------------------------------------------------------
(* The label of the run from i to j. *)
LabelOf(ts, i, j) == [label |-> ts[i].kind, span |-> Span(tokens[i].start, tokens[j].ending)]

(* The labels of runs, in their order. *)
LEMMA RunsAre ==
  ASSUME NEW ts, NEW n \in Nat, NEW S \in SUBSET (1 .. n)
  PROVE  LET s == InOrder(S) IN
         /\ s \in Seq(S) /\ DOMAIN s = 1 .. Len(s) /\ Len(s) \in Nat
         /\ \A c \in DOMAIN s : s[c] \in S
         /\ DOMAIN Runs(ts, S) = 1 .. Len(s) /\ Len(Runs(ts, S)) = Len(s)
         /\ Runs(ts, S) = [c \in 1 .. Len(s) |-> LabelOf(ts, s[c], EndOfRun(ts, s[c]))]
<1> DEFINE s == InOrder(S)
<1>1. s \in Seq(S)
  <2>1. S \in SUBSET Nat /\ \A x \in S : x <= n
    OBVIOUS
  <2> QED
    BY <2>1, InOrderEnumerates DEF Enumerates
<1>2. Runs(ts, S) = [c \in DOMAIN s |-> LabelOf(ts, s[c], EndOfRun(ts, s[c]))]
  BY DEF Runs, LabelOf
<1> HIDE DEF s
<1>3. DOMAIN s = 1 .. Len(s) /\ Len(s) \in Nat
  BY <1>1
<1>4. \A c \in DOMAIN s : s[c] \in S
  BY <1>1, <1>3, ElementOfSeq
<1>5. DOMAIN Runs(ts, S) = 1 .. Len(s) /\ Len(Runs(ts, S)) = Len(s)
  BY <1>2, <1>3
<1> QED
  BY <1>1, <1>2, <1>3, <1>4, <1>5 DEF s

(* Labels of runs that are over do not change. *)
LEMMA LabelsStay ==
  ASSUME NEW ts \in Seq(Type), NEW type \in Type, NEW S \in SUBSET DOMAIN ts,
         \A i \in S : IsOver(ts, i)
  PROVE  Runs(Append(ts, type), S) = Runs(ts, S)
<1> DEFINE ext == Append(ts, type)
           s == InOrder(S)
<1>1. /\ Len(ts) \in Nat /\ DOMAIN ts = 1 .. Len(ts) /\ \A k \in 1 .. Len(ts) : ext[k] = ts[k]
  BY TypesAppended
<1>2. \A i \in S : EndOfRun(ext, i) = EndOfRun(ts, i)
  BY OverStays
<1>3. \A c \in DOMAIN s : s[c] \in S
  BY <1>1, RunsAre
<1>4. /\ Runs(ts, S) = [c \in 1 .. Len(s) |-> LabelOf(ts, s[c], EndOfRun(ts, s[c]))]
      /\ Runs(ext, S) = [c \in 1 .. Len(s) |-> LabelOf(ext, s[c], EndOfRun(ext, s[c]))]
      /\ DOMAIN s = 1 .. Len(s)
  BY <1>1, RunsAre
<1> HIDE DEF s, ext
<1>5. \A c \in 1 .. Len(s) :
        LabelOf(ext, s[c], EndOfRun(ext, s[c])) = LabelOf(ts, s[c], EndOfRun(ts, s[c]))
  <2> SUFFICES ASSUME NEW c \in 1 .. Len(s)
               PROVE  LabelOf(ext, s[c], EndOfRun(ext, s[c])) = LabelOf(ts, s[c], EndOfRun(ts, s[c]))
    OBVIOUS
  <2>1. s[c] \in S /\ s[c] \in 1 .. Len(ts)
    BY <1>1, <1>3, <1>4
  <2>2. ext[s[c]] = ts[s[c]] /\ EndOfRun(ext, s[c]) = EndOfRun(ts, s[c])
    BY <1>1, <1>2, <2>1
  <2> QED
    BY <2>2 DEF LabelOf
<1>6. Runs(ext, S) = Runs(ts, S)
  BY <1>4, <1>5
<1> QED
  BY <1>6 DEF ext

(* The label of a last run comes last. *)
LEMMA LabelsGrow ==
  ASSUME NEW ts, NEW n \in Nat, NEW S \in SUBSET (1 .. n), NEW x \in 1 .. n, \A y \in S : y < x
  PROVE  Runs(ts, S \cup {x}) = Append(Runs(ts, S), LabelOf(ts, x, EndOfRun(ts, x)))
<1> DEFINE T == S \cup {x}
           s == InOrder(S)
           t == InOrder(T)
           l == LabelOf(ts, x, EndOfRun(ts, x))
           a == Append(Runs(ts, S), l)
<1>1. t = Append(s, x)
  <2>1. S \in SUBSET Nat /\ x \in Nat
    OBVIOUS
  <2> QED
    BY <2>1, InOrderGrows
<1>2. /\ s \in Seq(S) /\ Len(s) \in Nat /\ DOMAIN s = 1 .. Len(s)
      /\ Len(Runs(ts, S)) = Len(s)
      /\ Runs(ts, S) = [c \in 1 .. Len(s) |-> LabelOf(ts, s[c], EndOfRun(ts, s[c]))]
  BY RunsAre
<1>3. Runs(ts, T) = [c \in 1 .. Len(t) |-> LabelOf(ts, t[c], EndOfRun(ts, t[c]))]
  <2>1. T \in SUBSET (1 .. n)
    OBVIOUS
  <2> HIDE DEF T
  <2> QED
    BY <2>1, RunsAre
<1> HIDE DEF s
<1>4. /\ Len(t) = Len(s) + 1 /\ t[Len(s) + 1] = x /\ \A c \in 1 .. Len(s) : t[c] = s[c]
  <2>1. s \in Seq(Nat)
    <3>1. S \subseteq Nat
      OBVIOUS
    <3> QED
      BY <1>2, <3>1, SeqMonotonic
  <2> HIDE DEF t
  <2> QED
    BY <1>1, <2>1, AppendProperties
<1> DEFINE Labels == {LabelOf(ts, i, EndOfRun(ts, i)) : i \in T}
<1>5. Runs(ts, S) \in Seq(Labels) /\ l \in Labels
  <2>1. \A c \in 1 .. Len(s) : s[c] \in T
    BY <1>2, ElementOfSeq
  <2>2. \A c \in 1 .. Len(s) : LabelOf(ts, s[c], EndOfRun(ts, s[c])) \in Labels
    BY <2>1
  <2> HIDE DEF Labels
  <2>3. Runs(ts, S) \in [1 .. Len(s) -> Labels]
    BY <1>2, <2>2
  <2>4. Runs(ts, S) \in Seq(Labels)
    BY <1>2, <2>3
  <2>5. l \in Labels
    BY DEF Labels
  <2> QED
    BY <2>4, <2>5
<1> HIDE DEF t, T, l, Labels
<1>6. /\ Len(a) = Len(s) + 1 /\ a[Len(s) + 1] = l /\ a \in Seq(Labels)
      /\ \A c \in 1 .. Len(s) : a[c] = Runs(ts, S)[c]
  BY <1>2, <1>5, AppendProperties
<1> HIDE DEF a
<1>7. a = [c \in 1 .. Len(s) + 1 |-> a[c]]
  BY <1>6
<1>8. \A c \in 1 .. Len(s) + 1 : LabelOf(ts, t[c], EndOfRun(ts, t[c])) = a[c]
  <2> SUFFICES ASSUME NEW c \in 1 .. Len(s) + 1
               PROVE  LabelOf(ts, t[c], EndOfRun(ts, t[c])) = a[c]
    OBVIOUS
  <2>1. CASE c = Len(s) + 1
    BY <1>4, <1>6, <2>1 DEF l
  <2>2. CASE c # Len(s) + 1
    <3>1. c \in 1 .. Len(s)
      BY <1>2, <2>2
    <3>2. Runs(ts, S)[c] = LabelOf(ts, s[c], EndOfRun(ts, s[c]))
      BY <1>2, <3>1
    <3> QED
      BY <1>4, <1>6, <3>1, <3>2
  <2> QED
    BY <2>1, <2>2
<1>9. Runs(ts, T) = a
  BY <1>3, <1>4, <1>7, <1>8
<1> QED
  BY <1>9 DEF T, a, l

-----------------------------------------------------------------------------
(* What ChunksOf says, put together. *)
LEMMA TheseAreChunks ==
  ASSUME NEW ts, NEW ch,
         ch.clabel = KindBefore(ts, Len(ts) + 1),
         ch.open # 0 => /\ ch.open \in Beginnings(ts)
                        /\ GoesTo(ts, ch.open, Len(ts))
                        /\ ch.clabel = ts[ch.open].kind,
         \A i \in Beginnings(ts) \ {ch.open} : IsOver(ts, i) /\ (ch.open = 0 \/ i < ch.open),
         ch.labels = Runs(ts, Beginnings(ts) \ {ch.open})
  PROVE  ChunksOf(ch, ts)
BY DEF ChunksOf

(* What the loop makes of one more type. *)
LEMMA OneMoreType ==
  ASSUME NEW ts \in Seq(Type), NEW type \in Type, NEW ch, NEW next,
         ch.open \in Nat, ChunksOf(ch, ts),
         LET i == Len(ts) + 1
             begins == BeginsChunk(type, ch.clabel)
             closes == (begins \/ type.letter = "O") /\ ch.open # 0
         IN /\ next.open = IF begins THEN i ELSE IF closes THEN 0 ELSE ch.open
            /\ next.clabel = IF begins THEN type.kind ELSE ch.clabel
            /\ next.labels = IF closes THEN Append(ch.labels, ChunkLabel(ch.clabel, ch.open, i - 1))
                             ELSE ch.labels
  PROVE  ChunksOf(next, Append(ts, type))
<1> DEFINE n == Len(ts)
           ext == Append(ts, type)
           begins == BeginsChunk(type, ch.clabel)
           breaks == begins \/ type.letter = "O"
<1>1. /\ n \in Nat /\ DOMAIN ts = 1 .. n /\ Len(ext) = n + 1 /\ ext \in Seq(Type)
      /\ DOMAIN ext = 1 .. n + 1 /\ \A k \in 1 .. n : ext[k] = ts[k] /\ (n + 1) - 1 = n
      /\ ext[n + 1] = type
  BY TypesAppended
<1>2. /\ ch.clabel = KindBefore(ts, n + 1)
      /\ ch.open # 0 => /\ ch.open \in Beginnings(ts)
                        /\ GoesTo(ts, ch.open, n)
                        /\ ch.clabel = ts[ch.open].kind
      /\ \A i \in Beginnings(ts) \ {ch.open} : IsOver(ts, i) /\ (ch.open = 0 \/ i < ch.open)
      /\ ch.labels = Runs(ts, Beginnings(ts) \ {ch.open})
  BY DEF ChunksOf
<1>3. /\ next.open = IF begins THEN n + 1 ELSE IF breaks THEN 0 ELSE ch.open
      /\ next.clabel = IF begins THEN type.kind ELSE ch.clabel
      /\ next.labels = IF breaks /\ ch.open # 0
                       THEN Append(ch.labels, ChunkLabel(ch.clabel, ch.open, n))
                       ELSE ch.labels
  BY <1>1
<1>4. /\ begins <=> Begins(ext, n + 1)
      /\ breaks <=> Breaks(ext, n + 1)
      /\ Beginnings(ext) = Beginnings(ts) \cup {i \in {n + 1} : Begins(ext, i)}
  BY <1>2, RunsStay
<1>5. Beginnings(ts) \subseteq 1 .. n
  BY <1>1 DEF Beginnings
<1>6. \A i \in Beginnings(ts) \ {ch.open} : IsOver(ext, i)
  BY <1>1, <1>2, <1>5, OverStays
<1>7. Runs(ext, Beginnings(ts) \ {ch.open}) = ch.labels
  <2>1. (Beginnings(ts) \ {ch.open}) \in SUBSET DOMAIN ts
    BY <1>1, <1>5
  <2> QED
    BY <1>2, <2>1, LabelsStay
<1>8. ch.open # 0 /\ breaks => IsOver(ext, ch.open) /\ EndOfRun(ext, ch.open) = n
  <2> SUFFICES ASSUME ch.open # 0, breaks
               PROVE  IsOver(ext, ch.open) /\ EndOfRun(ext, ch.open) = n
    OBVIOUS
  <2>1. ch.open \in DOMAIN ts /\ GoesTo(ts, ch.open, n) /\ Breaks(ext, n + 1)
    BY <1>1, <1>2, <1>4, <1>5
  <2> QED
    BY <2>1, OpenRunEnds
<1>9. breaks => /\ \A i \in Beginnings(ts) : IsOver(ext, i)
                /\ next.labels = Runs(ext, Beginnings(ts))
  <2> SUFFICES ASSUME breaks
               PROVE  /\ \A i \in Beginnings(ts) : IsOver(ext, i)
                      /\ next.labels = Runs(ext, Beginnings(ts))
    OBVIOUS
  <2>1. CASE ch.open = 0
    <3>1. Beginnings(ts) \ {ch.open} = Beginnings(ts)
      BY <1>1, <1>5, <2>1
    <3> QED
      BY <1>3, <1>6, <1>7, <2>1, <3>1
  <2>2. CASE ch.open # 0
    <3> DEFINE S == Beginnings(ts) \ {ch.open}
    <3>1. /\ S \cup {ch.open} = Beginnings(ts) /\ ch.open \in 1 .. n
          /\ S \in SUBSET (1 .. n) /\ \A y \in S : y < ch.open
      BY <1>2, <1>5, <2>2
    <3>2. Runs(ext, S) = ch.labels
      BY <1>7
    <3>3. ChunkLabel(ch.clabel, ch.open, n) = LabelOf(ext, ch.open, EndOfRun(ext, ch.open))
      <4>1. ext[ch.open].kind = ch.clabel /\ EndOfRun(ext, ch.open) = n
        BY <1>1, <1>2, <1>8, <2>2, <3>1
      <4> HIDE DEF ext
      <4> QED
        BY <4>1 DEF ChunkLabel, LabelOf
    <3> HIDE DEF S, ext
    <3>4. Runs(ext, S \cup {ch.open}) =
            Append(Runs(ext, S), LabelOf(ext, ch.open, EndOfRun(ext, ch.open)))
      BY <1>1, <3>1, LabelsGrow
    <3>5. next.labels = Runs(ext, Beginnings(ts))
      BY <1>3, <2>2, <3>1, <3>2, <3>3, <3>4
    <3>6. \A i \in Beginnings(ts) : IsOver(ext, i)
      BY <1>6, <1>8, <2>2
    <3> QED
      BY <3>5, <3>6
  <2> QED
    BY <2>1, <2>2
<1>10. KindBefore(ext, (n + 1) + 1) = IF type.letter = "O" THEN ch.clabel ELSE type.kind
  <2>1. KindBefore(ext, n + 1) = ch.clabel
    BY <1>1, <1>2, KindBeforeStays
  <2>2. n + 1 \in Nat \ {0}
    BY <1>1
  <2>3. KindBefore(ext, (n + 1) + 1) =
          IF ext[n + 1].letter = "O" THEN KindBefore(ext, n + 1) ELSE ext[n + 1].kind
    BY <2>2, KindBeforeNext
  <2> HIDE DEF ext
  <2> QED
    BY <1>1, <2>1, <2>3
<1>11. type.letter \in {"B", "I", "O"}
  BY TypeFacts
<1>12. begins <=> type.letter = "B" \/ (type.letter = "I" /\ type.kind # ch.clabel)
  BY DEF BeginsChunk
<1> HIDE DEF ext, n, begins
<1>13. CASE begins
  <2>1. next.open = n + 1 /\ next.clabel = type.kind
    BY <1>3, <1>13
  <2>2. Beginnings(ext) = Beginnings(ts) \cup {n + 1} /\ n + 1 \notin Beginnings(ts)
    BY <1>1, <1>4, <1>5, <1>13
  <2>3. Beginnings(ext) \ {next.open} = Beginnings(ts)
    BY <2>1, <2>2
  <2>4. next.clabel = KindBefore(ext, Len(ext) + 1)
    <3>1. type.letter # "O"
      BY <1>12, <1>13
    <3> QED
      BY <1>1, <1>10, <2>1, <3>1
  <2>5. GoesTo(ext, n + 1, n + 1)
    <3>1. (n + 1) + 1 .. n + 1 = {}
      BY <1>1
    <3> QED
      BY <3>1 DEF GoesTo
  <2>6. \A i \in Beginnings(ts) : i < n + 1
    BY <1>1, <1>5
  <2>7. /\ next.open \in Beginnings(ext) /\ GoesTo(ext, next.open, Len(ext))
        /\ next.clabel = ext[next.open].kind
    BY <1>1, <2>1, <2>2, <2>5
  <2>8. \A i \in Beginnings(ext) \ {next.open} :
          IsOver(ext, i) /\ (next.open = 0 \/ i < next.open)
    BY <1>9, <1>13, <2>1, <2>3, <2>6
  <2>9. next.labels = Runs(ext, Beginnings(ext) \ {next.open})
    BY <1>9, <1>13, <2>3
  <2> QED
    BY <2>4, <2>7, <2>8, <2>9, TheseAreChunks DEF ext
<1>14. CASE ~ begins /\ type.letter = "O"
  <2>1. next.open = 0 /\ next.clabel = ch.clabel
    BY <1>3, <1>14
  <2>2. Beginnings(ext) = Beginnings(ts) /\ Beginnings(ext) \ {0} = Beginnings(ext)
    BY <1>1, <1>4, <1>5, <1>14
  <2>3. next.clabel = KindBefore(ext, Len(ext) + 1)
    BY <1>1, <1>10, <1>14, <2>1
  <2>4. next.labels = Runs(ext, Beginnings(ext) \ {next.open})
    BY <1>9, <1>14, <2>1, <2>2
  <2>5. \A i \in Beginnings(ext) \ {next.open} :
          IsOver(ext, i) /\ (next.open = 0 \/ i < next.open)
    BY <1>9, <1>14, <2>1, <2>2
  <2> QED
    BY <2>1, <2>3, <2>4, <2>5, TheseAreChunks DEF ext
<1>15. CASE ~ begins /\ type.letter # "O"
  <2>1. next.open = ch.open /\ next.clabel = ch.clabel /\ next.labels = ch.labels
    BY <1>3, <1>15
  <2>2. Beginnings(ext) = Beginnings(ts)
    BY <1>4, <1>15
  <2>3. type.letter = "I" /\ type.kind = ch.clabel
    BY <1>11, <1>12, <1>15
  <2>4. next.clabel = KindBefore(ext, Len(ext) + 1)
    BY <1>1, <1>10, <2>1, <2>3
  <2>5. ch.open # 0 => GoesTo(ext, ch.open, n + 1) /\ ext[ch.open].kind = ch.clabel
    <3> SUFFICES ASSUME ch.open # 0
                 PROVE  GoesTo(ext, ch.open, n + 1) /\ ext[ch.open].kind = ch.clabel
      OBVIOUS
    <3>1. ch.open \in DOMAIN ts /\ ch.open \in 1 .. n /\ GoesTo(ts, ch.open, n) /\ n \in ch.open .. n
      BY <1>1, <1>2, <1>5
    <3>2. GoesTo(ext, ch.open, n)
      BY <3>1, RunsStay DEF ext, n
    <3>3. \A k \in ch.open + 1 .. n + 1 : k \in ch.open + 1 .. n \/ k = n + 1
      BY <1>1
    <3>4. ext[n + 1].letter = "I" /\ ~ Begins(ext, n + 1)
      BY <1>1, <1>4, <1>15, <2>3
    <3>5. GoesTo(ext, ch.open, n + 1)
      BY <3>2, <3>3, <3>4 DEF GoesTo
    <3> QED
      BY <1>1, <1>2, <3>1, <3>5
  <2>6. next.labels = Runs(ext, Beginnings(ext) \ {next.open})
    BY <1>7, <2>1, <2>2
  <2>7. \A i \in Beginnings(ext) \ {next.open} :
          IsOver(ext, i) /\ (next.open = 0 \/ i < next.open)
    BY <1>2, <1>6, <2>1, <2>2
  <2>8. next.open # 0 => /\ next.open \in Beginnings(ext)
                         /\ GoesTo(ext, next.open, Len(ext))
                         /\ next.clabel = ext[next.open].kind
    BY <1>1, <1>2, <2>1, <2>2, <2>5
  <2> QED
    BY <2>4, <2>6, <2>7, <2>8, TheseAreChunks DEF ext
<1> QED
  BY <1>13, <1>14, <1>15 DEF ext

(* When there are no more types, the run that is open ends with them. *)
LEMMA LastRunEnds ==
  ASSUME NEW ts \in Seq(Type), NEW ch, ch.open \in Nat, ChunksOf(ch, ts)
  PROVE  /\ ch.open = 0 => ch.labels = Runs(ts, Beginnings(ts))
         /\ ch.open # 0 => Append(ch.labels, ChunkLabel(ch.clabel, ch.open, Len(ts)))
                             = Runs(ts, Beginnings(ts))
<1> DEFINE n == Len(ts)
           S == Beginnings(ts) \ {ch.open}
<1>1. n \in Nat /\ DOMAIN ts = 1 .. n /\ Beginnings(ts) \subseteq 1 .. n
  BY DEF Beginnings
<1>2. /\ ch.open # 0 => /\ ch.open \in Beginnings(ts)
                        /\ GoesTo(ts, ch.open, n)
                        /\ ch.clabel = ts[ch.open].kind
      /\ \A i \in S : ch.open = 0 \/ i < ch.open
      /\ ch.labels = Runs(ts, S)
  BY DEF ChunksOf
<1>3. CASE ch.open = 0
  <2>1. S = Beginnings(ts)
    BY <1>1, <1>3
  <2> HIDE DEF S
  <2> QED
    BY <1>2, <1>3, <2>1
<1>4. CASE ch.open # 0
  <2>1. /\ S \cup {ch.open} = Beginnings(ts) /\ ch.open \in 1 .. n
        /\ S \in SUBSET (1 .. n) /\ \A y \in S : y < ch.open
    BY <1>1, <1>2, <1>4
  <2>2. EndOfRun(ts, ch.open) = n
    <3>1. n \in ch.open .. Len(ts) /\ ch.open \in DOMAIN ts
      BY <1>1, <2>1
    <3> QED
      BY <1>2, <1>4, <3>1, OneEnd
  <2>3. ChunkLabel(ch.clabel, ch.open, n) = LabelOf(ts, ch.open, EndOfRun(ts, ch.open))
    BY <1>2, <1>4, <2>2 DEF ChunkLabel, LabelOf
  <2> HIDE DEF S
  <2>4. Runs(ts, S \cup {ch.open}) = Append(Runs(ts, S), LabelOf(ts, ch.open, EndOfRun(ts, ch.open)))
    BY <1>1, <2>1, LabelsGrow
  <2> QED
    BY <1>2, <1>4, <2>1, <2>3, <2>4
<1> QED
  BY <1>3, <1>4

(* Nothing is said of the chunks of no types. *)
LEMMA NoTypes == ChunksOf(NoChunk, << >>)
<1>1. Beginnings(<< >>) = {} /\ Len(<< >>) = 0
  BY DEF Beginnings
<1>2. KindBefore(<< >>, 0 + 1) = NoKind
  <2>1. {j \in 1 .. (0 + 1) - 1 : << >>[j].letter # "O"} = {}
    OBVIOUS
  <2> QED
    BY <2>1 DEF KindBefore
<1>3. Runs(<< >>, {}) = << >>
  <2>1. DOMAIN InOrder({}) = {}
    BY InOrderOfNone
  <2> QED
    BY <2>1 DEF Runs
<1>4. NoChunk.open = 0 /\ NoChunk.clabel = NoKind /\ NoChunk.labels = << >>
  BY DEF NoChunk
<1>5. Beginnings(<< >>) \ {NoChunk.open} = {}
  BY <1>1
<1> QED
  BY <1>1, <1>2, <1>3, <1>4, <1>5 DEF ChunksOf

(* What is said of the chunks. *)
ChunksInv == Chunking /\ Chunked

(* The runs are of the tokens, which stay as they are. *)
LEMMA SameRuns ==
  ASSUME tokens' = tokens
  PROVE  /\ ChunksOf(chunk, types)' <=> ChunksOf(chunk', types')
         /\ Runs(types, Beginnings(types))' = Runs(types', Beginnings(types'))
BY DEF ChunksOf, Runs, Beginnings, KindBefore, Begins, GoesTo, IsOver, Breaks, EndOfRun

(* The chunks stay those of the types after every step. *)
LEMMA ChunksStay == TypedInv /\ ChunksInv /\ [TaggersNext]_taggersVars => ChunksInv'
<1> SUFFICES ASSUME TypedInv, ChunksInv, [TaggersNext]_taggersVars PROVE ChunksInv'
  OBVIOUS
<1>1. Chunking /\ Chunked
  BY DEF ChunksInv
<1>2. ASSUME place' # "chunks", ~ Answered({"chunker"})' PROVE ChunksInv'
  BY <1>2 DEF ChunksInv, Chunking, Chunked
<1>3. CASE UNCHANGED taggersVars
  <2>1. UNCHANGED <<tokens, types, chunk, place, handler>>
    BY <1>3 DEF taggersVars, record, labelling
  <2>2. /\ ChunksOf(chunk, types)' <=> ChunksOf(chunk, types)
        /\ Runs(types, Beginnings(types))' = Runs(types, Beginnings(types))
    BY <2>1, SameRuns
  <2> QED
    BY <1>1, <2>1, <2>2 DEF ChunksInv, Chunking, Chunked, Answered
<1>4. CASE RecordNext /\ UNCHANGED <<lists, taken, types, chunk>>
  <2>1. place' \notin {"chunks", "answered"}
    BY <1>4 DEF RecordNext, WhitespaceSentence, WhitespacerEnds, SplitAll, TokenizerSentence, TokenizerEnds
  <2> QED
    BY <1>2, <2>1 DEF Answered
<1>5. CASE \E h \in {"pos", "chunker"} : Ask(h) /\ UNCHANGED <<lists, taken, types, chunk>>
  BY <1>2, <1>5 DEF Answered, Ask
<1>6. CASE PosBegins \/ PosToken
  BY <1>2, <1>6 DEF Answered, PosBegins, PosToken, TypedInv, TaggersTyped
<1>7. CASE PosEnds
  <2>1. place' = "answered" /\ handler' = "pos"
    BY <1>7 DEF PosEnds, TypedInv, TaggersTyped
  <2> QED
    BY <1>2, <2>1 DEF Answered
<1>8. CASE ChunkerBegins \/ ChunkerTag
  BY <1>2, <1>8 DEF Answered, ChunkerBegins, ChunkerTag
<1>9. CASE ChunkerReads
  <2>1. place' = "chunks" /\ types' = << >> /\ chunk' = NoChunk /\ tokens' = tokens
    BY <1>9 DEF ChunkerReads, TypedInv, Untouched, labelling
  <2>2. ChunksOf(chunk, types)'
    BY <2>1, SameRuns, NoTypes
  <2> QED
    BY <2>1, <2>2 DEF ChunksInv, Chunking, Chunked, Answered
<1>10. CASE \E type \in Type : ChunkToken(type)
  <2>1. PICK type \in Type : ChunkToken(type)
    BY <1>10
  <2>2. place = "chunks" /\ place' = "chunks" /\ tokens' = tokens /\ types' = Append(types, type)
    BY <2>1 DEF ChunkToken, record, labelling
  <2>3. types \in Seq(Type) /\ chunk.open \in Nat /\ ChunksOf(chunk, types)
    BY <1>1, <2>2 DEF TypedInv, TaggersTyped, Chunking
  <2>4. LET i == Len(types) + 1
            begins == BeginsChunk(type, chunk.clabel)
            closes == (begins \/ type.letter = "O") /\ chunk.open # 0
        IN /\ chunk'.open = IF begins THEN i ELSE IF closes THEN 0 ELSE chunk.open
           /\ chunk'.clabel = IF begins THEN type.kind ELSE chunk.clabel
           /\ chunk'.labels =
                IF closes THEN Append(chunk.labels, ChunkLabel(chunk.clabel, chunk.open, i - 1))
                ELSE chunk.labels
    BY <2>1 DEF ChunkToken, Closed
  <2>5. ChunksOf(chunk', Append(types, type))
    BY <2>3, <2>4, OneMoreType
  <2>6. ChunksOf(chunk, types)'
    BY <2>2, <2>5, SameRuns
  <2> QED
    BY <2>2, <2>6 DEF ChunksInv, Chunking, Chunked, Answered
<1>11. CASE ChunkerEnds
  <2>1. /\ place = "chunks" /\ place' = "answered" /\ tokens' = tokens /\ types' = types
        /\ chunk' = IF chunk.open = 0 THEN chunk
                    ELSE [chunk EXCEPT !.open = 0, !.labels = Closed(Len(types) + 1)]
    BY <1>11 DEF ChunkerEnds, labelling
  <2>2. /\ types \in Seq(Type) /\ chunk.open \in Nat /\ ChunksOf(chunk, types)
        /\ chunk \in [open : Nat, clabel : Kind \cup {NoKind}, labels : Seq(ChunkLabels)]
    BY <1>1, <2>1 DEF TypedInv, TaggersTyped, Chunking
  <2>3. Closed(Len(types) + 1) = Append(chunk.labels, ChunkLabel(chunk.clabel, chunk.open, Len(types)))
    <3>1. (Len(types) + 1) - 1 = Len(types)
      BY <2>2
    <3> QED
      BY <3>1 DEF Closed
  <2>4. chunk'.labels = Runs(types, Beginnings(types))
    <3>1. CASE chunk.open = 0
      BY <2>1, <2>2, <3>1, LastRunEnds
    <3>2. CASE chunk.open # 0
      <4> DEFINE l == Closed(Len(types) + 1)
      <4>1. chunk' = [chunk EXCEPT !.open = 0, !.labels = l]
        BY <2>1, <3>2
      <4> HIDE DEF l
      <4>2. chunk'.labels = l
        BY <2>2, <4>1
      <4> QED
        BY <2>2, <2>3, <3>2, <4>2, LastRunEnds DEF l
    <3> QED
      BY <3>1, <3>2
  <2>5. Runs(types, Beginnings(types))' = Runs(types, Beginnings(types))
    BY <2>1, SameRuns
  <2> QED
    BY <2>1, <2>4, <2>5 DEF ChunksInv, Chunking, Chunked
<1> QED
  BY <1>3, <1>4, <1>5, <1>6, <1>7, <1>8, <1>9, <1>10, <1>11 DEF TaggersNext

-----------------------------------------------------------------------------
(* The invariant of the handlers of the two taggers. *)
THEOREM TaggersInvariant == TaggersSpec => []TaggersInv
<1>1. TaggersInit => TaggersInv
  <2> SUFFICES ASSUME TaggersInit PROVE TaggersInv
    OBVIOUS
  <2>1. TypedInv
    BY TypedBegins
  <2>2. place \in {"whitespacer", "tokenizer"}
    BY DEF TaggersInit, RecordInit
  <2>3. ListsInv
    BY <2>2 DEF ListsInv, PosReads, ChunkerTakes, Agreed, Answered
  <2>4. ChunksInv
    BY <2>2 DEF ChunksInv, Chunking, Chunked, Answered
  <2> QED
    BY <2>1, <2>3, <2>4 DEF TaggersInv, TypedInv, ListsInv, ChunksInv
<1>2. TaggersInv /\ [TaggersNext]_taggersVars => TaggersInv'
  BY TypedStays, ListsStay, ChunksStay DEF TaggersInv, TypedInv, ListsInv, ChunksInv
<1> QED
  BY <1>1, <1>2, PTL DEF TaggersSpec

(* Sentences, tokens and the lists a tagger is given say the same of a text: each       *)
(* character that is not blank is in one token, each token in one sentence, and the     *)
(* taggers come to what the spans say.                                                  *)
THEOREM SentencesAndListsAgree == TaggersSpec => []SentencesAgree
<1>1. TaggersInv => SentencesAgree
  <2> SUFFICES ASSUME TaggersInv, place \notin {"whitespacer", "tokenizer", "splitting", "failed"}
               PROVE  /\ \A p \in DOMAIN text :
                           LET of == {w \in DOMAIN tokens : tokens[w].start < p /\ p <= tokens[w].ending}
                           IN IF text[p] = Blank THEN of = {} ELSE \E w \in of : of = {w}
                      /\ \A w \in DOMAIN tokens : \E i \in DOMAIN sentences :
                           {j \in DOMAIN sentences : IsIn(tokens[w], sentences[j])} = {i}
                      /\ /\ Answered({"pos"}) \/ place = "chunks" \/ Answered({"chunker"})
                         /\ EverySentenceHasTokens
                         /\ handler = "chunker" => \A i \in DOMAIN sentences :
                              TokensIn(i)[Len(TokensIn(i))].ending = sentences[i].ending
                         => lists = [i \in DOMAIN sentences |-> TokensIn(i)]
    BY DEF SentencesAgree
  <2>1. Fit
    BY DEF TaggersInv, RecordInv, Labelled
  <2>2. ASSUME NEW p \in DOMAIN text
        PROVE  LET of == {w \in DOMAIN tokens : tokens[w].start < p /\ p <= tokens[w].ending}
               IN IF text[p] = Blank THEN of = {} ELSE \E w \in of : of = {w}
    <3> DEFINE of == {w \in DOMAIN tokens : tokens[w].start < p /\ p <= tokens[w].ending}
    <3>1. \A w \in DOMAIN tokens : Holds(tokens[w], p) => text[p] # Blank
      BY <2>1 DEF Fit, AreWords
    <3>2. text[p] # Blank => \E w \in DOMAIN tokens : Holds(tokens[w], p)
      BY <2>1 DEF Fit, AreWords
    <3>3. text[p] = Blank => of = {}
      BY <3>1 DEF Holds
    <3>4. text[p] # Blank => \E w \in of : of = {w}
      <4> SUFFICES ASSUME text[p] # Blank PROVE \E w \in of : of = {w}
        OBVIOUS
      <4>1. PICK w \in of : TRUE
        BY <3>2 DEF Holds
      <4>2. p \in Nat
        BY DEF TaggersInv, RecordInv, RecordTyped
      <4>3. \A v \in of : v = w
        <5> SUFFICES ASSUME NEW v \in of, v # w PROVE FALSE
          OBVIOUS
        <5>1. /\ v \in DOMAIN tokens /\ w \in DOMAIN tokens
              /\ tokens[v].start < p /\ p <= tokens[v].ending
              /\ tokens[w].start < p /\ p <= tokens[w].ending
          OBVIOUS
        <5>2. v < w \/ w < v
          BY <2>1, <5>1, FitFacts
        <5>3. v < w => tokens[v].ending <= tokens[w].start
          BY <2>1, <5>1, FitFacts
        <5>4. w < v => tokens[w].ending <= tokens[v].start
          BY <2>1, <5>1, FitFacts
        <5>5. /\ tokens[v].start \in Nat /\ tokens[v].ending \in Nat
              /\ tokens[w].start \in Nat /\ tokens[w].ending \in Nat
          BY <2>1, <5>1, FitFacts
        <5> QED
          BY <4>2, <5>1, <5>2, <5>3, <5>4, <5>5
      <4> HIDE DEF of
      <4> QED
        BY <4>1, <4>3
    <3> QED
      BY <3>3, <3>4
  <2>3. ASSUME NEW w \in DOMAIN tokens
        PROVE  \E i \in DOMAIN sentences :
                 {j \in DOMAIN sentences : IsIn(tokens[w], sentences[j])} = {i}
    <3>1. PICK i \in DOMAIN sentences : w \in In(i)
      BY <2>1, FitFacts
    <3>2. \A j \in DOMAIN sentences : IsIn(tokens[w], sentences[j]) <=> w \in In(j)
      BY DEF In
    <3>3. \A j \in DOMAIN sentences : w \in In(j) => j = i
      BY <2>1, <3>1, OneSentence
    <3> QED
      BY <3>1, <3>2, <3>3
  <2>4. Agreed
    BY DEF TaggersInv
  <2> QED
    BY <2>2, <2>3, <2>4 DEF Agreed, NoSentenceEndsBlank
<1> QED
  BY <1>1, TaggersInvariant, PTL

(* Whatever the tagger answers, in whatever order, the chunks are the runs of tokens of *)
(* one kind, in the text's order and apart from one another.                            *)
THEOREM ChunksAreTheRuns == TaggersSpec => []ChunksAreRuns
<1>1. TaggersInv => ChunksAreRuns
  <2> SUFFICES ASSUME TaggersInv, Answered({"chunker"}) PROVE ChunksAreRuns
    BY DEF ChunksAreRuns
  <2>1. chunk.labels = Runs(types, Beginnings(types))
    BY DEF TaggersInv, Chunked
  <2>2. types \in Seq(Type) /\ DOMAIN types = 1 .. Len(types)
    BY DEF TaggersInv, TaggersTyped
  <2>3. \A i : LastKind(i) = KindBefore(types, i)
    BY DEF LastKind, KindBefore
  <2> DEFINE n == Len(types)
             begins(i) == \/ types[i].letter = "B"
                          \/ types[i].letter = "I" /\ types[i].kind # LastKind(i)
             last(i) == CHOOSE j \in i .. n :
                          /\ \A k \in i + 1 .. j : types[k].letter = "I" /\ ~begins(k)
                          /\ j = n \/ begins(j + 1) \/ types[j + 1].letter = "O"
             beginnings == InOrder({i \in 1 .. n : begins(i)})
  <2>4. \A i : begins(i) = Begins(types, i)
    BY <2>3 DEF Begins
  <2>5. {i \in 1 .. n : begins(i)} = Beginnings(types)
    BY <2>2, <2>4 DEF Beginnings
  <2>6. \A i : last(i) = EndOfRun(types, i)
    <3> HIDE DEF begins
    <3>1. \A i, j : (\A k \in i + 1 .. j : types[k].letter = "I" /\ ~begins(k)) = GoesTo(types, i, j)
      BY <2>4 DEF GoesTo
    <3>2. \A j : (begins(j + 1) \/ types[j + 1].letter = "O") = Breaks(types, j + 1)
      BY <2>4 DEF Breaks
    <3> QED
      BY <3>1, <3>2 DEF EndOfRun
  <2>7. Runs(types, Beginnings(types)) =
          [c \in DOMAIN beginnings |->
            [label |-> types[beginnings[c]].kind,
             span |-> Span(tokens[beginnings[c]].start, tokens[last(beginnings[c])].ending)]]
    <3>1. beginnings = InOrder(Beginnings(types))
      BY <2>5
    <3> HIDE DEF begins, last, beginnings
    <3> QED
      BY <2>6, <3>1 DEF Runs
  <2> HIDE DEF begins, last, beginnings
  <2> QED
    BY <2>1, <2>7 DEF ChunksAreRuns, begins, last, beginnings, n
<1> QED
  BY <1>1, TaggersInvariant, PTL
=============================================================================

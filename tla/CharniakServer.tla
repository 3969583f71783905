--------------------------- MODULE CharniakServer ---------------------------
(***************************************************************************)
(* CharniakServer_new, charniakThriftServer.C: the parser service.  A      *)
(* TSimpleServer takes one record at a time; parseRecord puts the record   *)
(* into globals, creates threads that run mainLoop and joins them.  Each   *)
(* thread takes a few sentences at a time from the shared SENTENCE_INDEX,  *)
(* parses them into trees of its own and appends those to the forest.  A   *)
(* parse is not modelled beyond the sentence it is of.                     *)
(***************************************************************************)
EXTENDS Naturals, Sequences, Functions

CONSTANTS
  NumThreads,      \* NUM_THREAD of the configuration, at most MAX_NUM_THREADS
  Increment,       \* SENTENCE_INCRE
  MaxSentences,    \* bound: sentences of a record
  MaxRecords,      \* bound: records one process of the server parses
  MayFail          \* may a parse throw an AnnotationFailedException?

Thread == 1 .. NumThreads

ASSUME CharniakAssumption ==
  /\ NumThreads \in 1 .. 4
  /\ Increment \in Nat \ {0}
  /\ MaxSentences \in Nat
  /\ MaxRecords \in Nat
  /\ MayFail \in BOOLEAN

VARIABLES
  sentenceNum,     \* SENTENCE_NUM
  sentenceIndex,   \* SENTENCE_INDEX
  trees,           \* global_parses->trees, each as the sentence it is a parse of
  readlock, writelock,
  main,            \* the thread that serves: parseRecord
  spawned,         \* how many threads it has created
  pc, grab,        \* a thread's place in mainLoop, the sentences it has grabbed
  parsed,          \* its local parseTree array, what of it is not yet appended
  slot,            \* where in the vector it is about to write a tree
  served,          \* how many records this process has had
  begun            \* history: SENTENCE_INDEX when the record came in

vars == <<sentenceNum, sentenceIndex, trees, readlock, writelock, main, spawned,
          pc, grab, parsed, slot, served, begun>>

service == <<served, begun>>

Unlocked == 0
Nothing == [start |-> 0, end |-> 0]

\* A process of the server that has just been started.
Fresh ==
  [sentenceNum |-> 0, sentenceIndex |-> 0, trees |-> << >>,
   pc |-> [t \in Thread |-> "off"],
   grab |-> [t \in Thread |-> Nothing],
   parsed |-> [t \in Thread |-> << >>],
   slot |-> [t \in Thread |-> 0]]

Init ==
  /\ sentenceNum = Fresh.sentenceNum
  /\ sentenceIndex = Fresh.sentenceIndex
  /\ trees = Fresh.trees
  /\ readlock = Unlocked /\ writelock = Unlocked
  /\ main = "idle" /\ spawned = 0
  /\ pc = Fresh.pc
  /\ grab = Fresh.grab
  /\ parsed = Fresh.parsed /\ slot = Fresh.slot
  /\ served = 0 /\ begun = 0

Goto(t, l) == pc' = [pc EXCEPT ![t] = l]

-----------------------------------------------------------------------------
\* parseRecord is called with a record of n sentences.  SENTENCE_INDEX stays what
\* it is.  A record without sentences is answered with an exception.
ParseRecord(n) ==
  /\ main = "idle" /\ served < MaxRecords
  /\ served' = served + 1
  /\ trees' = << >>
  /\ sentenceNum' = n
  /\ main' = IF n = 0 THEN "idle" ELSE "spawn"
  /\ begun' = sentenceIndex
  /\ UNCHANGED <<sentenceIndex, readlock, writelock, spawned, pc, grab, parsed, slot>>

\* pthread_create, one thread after the other.
Spawn ==
  /\ main = "spawn"
  /\ spawned' = spawned + 1
  /\ Goto(spawned', "lock")
  /\ main' = IF spawned' = NumThreads THEN "join" ELSE main
  /\ UNCHANGED <<sentenceNum, sentenceIndex, trees, readlock, writelock, grab, parsed,
                 slot, service>>

\* pthread_join of all of them; the forest goes to the client.
Join ==
  /\ main = "join" /\ \A t \in Thread : pc[t] = "ended"
  /\ main' = "answered"
  /\ UNCHANGED <<sentenceNum, sentenceIndex, trees, readlock, writelock, spawned, pc, grab,
                 parsed, slot, service>>

\* The server turns to its next client.
Return ==
  /\ main = "answered"
  /\ main' = "idle" /\ spawned' = 0
  /\ pc' = Fresh.pc
  /\ UNCHANGED <<sentenceNum, sentenceIndex, trees, readlock, writelock, grab, parsed,
                 slot, service>>

-----------------------------------------------------------------------------
\* Mutation: readlock is not taken.
LockReadNot(t) ==
  /\ pc[t] = "lock"
  /\ readlock' = t
  /\ Goto(t, "grab")
  /\ UNCHANGED <<sentenceNum, sentenceIndex, trees, writelock, main, spawned, grab, parsed,
                 slot, service>>

LockRead(t) ==
  /\ pc[t] = "lock" /\ readlock = Unlocked
  /\ readlock' = t
  /\ Goto(t, "grab")
  /\ UNCHANGED <<sentenceNum, sentenceIndex, trees, writelock, main, spawned, grab, parsed,
                 slot, service>>

\* Mutation: the loop does not break when nothing is left.
GrabWithoutBreak(t) ==
  /\ pc[t] = "grab"
  /\ IF sentenceIndex < sentenceNum
     THEN /\ grab' = [grab EXCEPT ![t] =
                        [start |-> sentenceIndex,
                         end |-> IF sentenceIndex + Increment >= sentenceNum
                                 THEN sentenceNum
                                 ELSE sentenceIndex + Increment]]
          /\ Goto(t, "advance")
          /\ UNCHANGED readlock
     ELSE /\ Goto(t, "lock")
          /\ readlock' = Unlocked
          /\ UNCHANGED grab
  /\ UNCHANGED <<sentenceNum, sentenceIndex, trees, writelock, main, spawned, parsed, slot,
                 service>>

\* start_index and end_index are computed, or there is nothing left to grab.
Grab(t) ==
  /\ pc[t] = "grab"
  /\ IF sentenceIndex < sentenceNum
     THEN /\ grab' = [grab EXCEPT ![t] =
                        [start |-> sentenceIndex,
                         end |-> IF sentenceIndex + Increment >= sentenceNum
                                 THEN sentenceNum
                                 ELSE sentenceIndex + Increment]]
          /\ Goto(t, "advance")
          /\ UNCHANGED readlock
     ELSE /\ Goto(t, "ended")
          /\ readlock' = Unlocked
          /\ UNCHANGED grab
  /\ UNCHANGED <<sentenceNum, sentenceIndex, trees, writelock, main, spawned, parsed, slot,
                 service>>

\* SENTENCE_INDEX = end_index, and readlock is unlocked.
Advance(t) ==
  /\ pc[t] = "advance"
  /\ sentenceIndex' = grab[t].end
  /\ readlock' = Unlocked
  /\ Goto(t, "parse")
  /\ UNCHANGED <<sentenceNum, trees, writelock, main, spawned, grab, parsed, slot,
                 service>>

\* The grabbed sentences are parsed, none of them with an exception.
Parse(t) ==
  /\ pc[t] = "parse"
  /\ parsed' = [parsed EXCEPT ![t] =
                  [k \in 1 .. grab[t].end - grab[t].start |-> grab[t].start + k - 1]]
  /\ Goto(t, "push")
  /\ UNCHANGED <<sentenceNum, sentenceIndex, trees, readlock, writelock, main, spawned,
                 grab, slot, service>>

\* An exception leaves mainLoop: nobody catches it, and the process is terminated.
ParseFails(t) ==
  /\ MayFail /\ pc[t] = "parse"
  /\ main' = "down"
  /\ pc' = Fresh.pc
  /\ UNCHANGED <<sentenceNum, sentenceIndex, trees, readlock, writelock, spawned, grab,
                 parsed, slot, service>>

\* Mutation: writelock is not taken.
LockWriteNot(t) ==
  /\ pc[t] = "push"
  /\ writelock' = t
  /\ Goto(t, "append")
  /\ UNCHANGED <<sentenceNum, sentenceIndex, trees, readlock, main, spawned, grab, parsed,
                 slot, service>>

LockWrite(t) ==
  /\ pc[t] = "push" /\ writelock = Unlocked
  /\ writelock' = t
  /\ Goto(t, "append")
  /\ UNCHANGED <<sentenceNum, sentenceIndex, trees, readlock, main, spawned, grab, parsed,
                 slot, service>>

\* push_back finds the end of the vector ...
FindEnd(t) ==
  /\ pc[t] = "append" /\ parsed[t] # << >>
  /\ slot' = [slot EXCEPT ![t] = Len(trees) + 1]
  /\ Goto(t, "write")
  /\ UNCHANGED <<sentenceNum, sentenceIndex, trees, readlock, writelock, main, spawned,
                 grab, parsed, service>>

\* ... and writes there.
PushBack(t) ==
  /\ pc[t] = "write"
  /\ trees' = [i \in DOMAIN trees \cup {slot[t]} |->
                 IF i = slot[t] THEN Head(parsed[t]) ELSE trees[i]]
  /\ parsed' = [parsed EXCEPT ![t] = Tail(@)]
  /\ slot' = [slot EXCEPT ![t] = 0]
  /\ Goto(t, "append")
  /\ UNCHANGED <<sentenceNum, sentenceIndex, readlock, writelock, main, spawned, grab,
                 service>>

UnlockWrite(t) ==
  /\ pc[t] = "append" /\ parsed[t] = << >>
  /\ writelock' = Unlocked
  /\ Goto(t, "lock")
  /\ UNCHANGED <<sentenceNum, sentenceIndex, trees, readlock, main, spawned, grab, parsed,
                 slot, service>>

-----------------------------------------------------------------------------
\* Somebody starts the server again.
Restart ==
  /\ main \in {"down", "idle"} /\ served > 0
  /\ sentenceNum' = Fresh.sentenceNum
  /\ sentenceIndex' = Fresh.sentenceIndex
  /\ trees' = Fresh.trees
  /\ readlock' = Unlocked /\ writelock' = Unlocked
  /\ main' = "idle" /\ spawned' = 0
  /\ pc' = Fresh.pc
  /\ grab' = Fresh.grab
  /\ parsed' = Fresh.parsed /\ slot' = Fresh.slot
  /\ served' = 0 /\ begun' = 0

MainStep == Spawn \/ Join \/ Return

ThreadStep(t) ==
  \/ LockRead(t) \/ Grab(t) \/ Advance(t) \/ Parse(t) \/ ParseFails(t)
  \/ LockWrite(t) \/ FindEnd(t) \/ PushBack(t) \/ UnlockWrite(t)

Next ==
  \/ \E n \in 0 .. MaxSentences : ParseRecord(n)
  \/ MainStep
  \/ \E t \in Thread : ThreadStep(t)
  \/ Restart

Spec == Init /\ [][Next]_vars

\* The threads run, and a mutex that is free again and again is had in the end.
FairSpec ==
  /\ Spec
  /\ WF_vars(MainStep)
  /\ \A t \in Thread :
       WF_vars(ThreadStep(t)) /\ SF_vars(LockRead(t)) /\ SF_vars(LockWrite(t))

-----------------------------------------------------------------------------
Sentence == 0 .. MaxSentences

TypeOK ==
  /\ sentenceNum \in Sentence
  /\ sentenceIndex \in Sentence
  /\ trees \in Seq(Sentence)
  /\ readlock \in Thread \cup {Unlocked}
  /\ writelock \in Thread \cup {Unlocked}
  /\ main \in {"idle", "spawn", "join", "answered", "down"}
  /\ spawned \in 0 .. NumThreads
  /\ pc \in [Thread -> {"off", "lock", "grab", "advance", "parse", "push", "append", "write",
                       "ended"}]
  /\ grab \in [Thread -> [start : Sentence, end : Sentence]]
  /\ parsed \in [Thread -> Seq(Sentence)]
  /\ slot \in [Thread -> 0 .. MaxSentences]
  /\ served \in 0 .. MaxRecords
  /\ begun \in Sentence

\* No sentence is parsed by two threads, or twice by one: its tree is in the forest
\* at most once, however the threads share SENTENCE_INDEX.
EachSentenceOnce == IsInjective(trees)

\* The first record of a process gets a forest with a tree of each of its sentences,
\* whichever threads came to which and however they appended them.
ForestComplete ==
  main = "answered" /\ served = 1 => Range(trees) = 0 .. sentenceNum - 1

\* parseRecord: "parse each one, add to parse Forest", of every record.
EverySentenceParsed == main = "answered" => Range(trees) = 0 .. sentenceNum - 1

\* Every record is answered, or a parse that throws has ended the process.
RecordIsAnswered == main = "spawn" ~> main \in {"answered", "down"}
=============================================================================

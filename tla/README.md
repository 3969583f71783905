# Curator: a TLA+ model

The Curator is a broker of text annotations. A client asks for an annotation (a *view*) of a
text; the Curator keeps the annotations of a text together in a *record*, takes what it can from
an archive, has annotation servers make the rest, in the order their requirements ask for, and
stores the record again. The Curator is Java (`curator-server`); its annotation servers are Java
handlers around libraries, and a C++ parser that is in the repository (`CharniakServer_new`). A
Perl script starts and kills the servers of a host.

This directory holds TLA+ modules of the parts that carry state shared by threads or kept over
time, and of the conversions that are more than a copy; TLC configurations that check them on
small instances; and proofs checked by TLAPS. `PROJECT.json` lists the runs, the theorems, the
source lines each definition stands for, the places where the code differs from what its
documentation says, and the hazards the properties are aimed at. Below, `CS` stands for
`src/curator-server/src/edu/illinois/cs/cogcomp`, `PARSE` for
`src/curator-annotators/CharniakServer_new/parser/PARSE`.

    tlc -workers 2 -config Clients_calls.cfg MCClients
    tlapm ClientPoolProofs.tla

and so on for the runs of section 3 and the eight modules `*Proofs` of section 6.

## 1. Inventory

| Component | State | Operations | Talks to | What is hard |
|---|---|---|---|---|
| Client pool (`CS/curator/ClientPool.java`, `Pool.java`) | list of holders, each with an atomic flag and a transport | `getClient`, `releaseClient` | annotation servers; the handler's threads | an unlocked walk over shared entries; `wait`/`notify`; connections that fail |
| Curator handler (`CS/curator/CuratorHandler.java`) | the maps `pools`, `requirements`, `multiFields`, the known source identifiers, counters | `provide`, `wsprovide`, `getRecord`, `getRecordById`, `getMultiRecord`, ...; the version updater and the reporter | archive, pools, a master Curator | recursive calls that read, change and store a whole record while other threads do the same; stale records; partial failure |
| Database archive (`CS/archive/*.java`) | the collection, `accessLog`, `isRunning` | `get`, `getById`, `store`, `updateAccess`, `expire`; listener and maintenance threads | MongoDB; the handler | three kinds of threads, one method without the monitor, errors of the database half way |
| Whitespacer, `StringUtil`, `WhiteSpaceTokenizer` | none | spans of tokens and sentences | the handler | offsets at boundaries |
| Curator server (`CuratorServer.java`) | the Thrift server | start, shutdown | the handler | shutdown while requests run |
| Legacy client (`CS/legacy`) | socket, session, sleeping time | `SRLHandler.parseRecord` over a line protocol | old servers | retries on the same socket, late answers, streams that end |
| Charniak server (`PARSE/charniakThriftServer.C`) | globals for the record being parsed, two mutexes | `parseRecord`, `mainLoop` | the Charniak parser | threads that share an index and a result; globals that outlive a record |
| Charniak parser (`PARSE/Bchart.C`, `EdgeHeap.C`, `MeChart.C`, `Bst.C`, ...) | the chart: items, edges, waiting edges; the heap of edges; the trees given so far and the heaps of those that may come next | `parse`: pop an edge, add it, extend it, change merits; `findMapParse`, `next`: the best tree, and the next ones | none | an order of work that probabilities decide; links that must follow every dropped edge; a heap whose entries are changed in place |
| k-best Charniak server (`CharniakServer2.0/parser05May26fixed/PARSE`) | queues of the k best trees | `parseRecord`, `findMapParse` | the handler | queues at their limit, loops that end early, fewer trees than asked for |
| Java annotators (tokenizer, POS, chunker, Stanford, k-best Stanford, Berkeley) | the wrapped library | `labelRecord`, `parseRecord` | the handler | sentences and tokens put together from spans, trees and dependencies turned into lists of nodes; answers that are short or empty |
| Java annotators of entities and roles (coreference, SRL, wikifier, lemmatizer, quantities) | the wrapped library | `clusterRecord`, `labelRecord`, `parseRecord` | the handler | mostly copies of spans |
| Server monitor (`server_monitor.pl`) | per session: list of running components, password | `start`, `kill`, `pass`, `getProcessInformation`, `quit` | processes of the host | decisions on a list made when the session began; kill commands that are inherited |
| Clients, Thrift interfaces, converters, scripts, vendored parsers | none that is shared | | | |

What makes each part correct:

* **Pool**: a client has one user at a time; it is marked busy exactly while it has one, on every
  error path; it is offered only with its transport closed; an exception means that all clients
  refused; who waits is woken when a client is free.
* **Handler**: an annotator sees the views it requires; a request that is answered has the view it
  asked for; what was known to be outdated is not served; what is stored fits together and is not
  lost; every request is answered.
* **Archive**: no access time is forgotten; only what was unused is expired; the log of accesses
  does not grow for ever; there is one update thread.
* **Charniak server**: every sentence of a record has one tree (of a process's first record: section 4).
* **Charniak parser**: edges and items that fit meet, once; the finished chart is closed under the
  grammar; the heap gives the best edge, whatever was changed in it; the trees it answers with are the
  best of all it could make of its chart, none twice.
* **Annotators**: views of one record fit together: tokens in sentences, chunks over tokens,
  trees over tokens, with the shape the library answered.
* **Legacy client**: a sentence's tree is made of the answer to that sentence; the retries end.
* **Server monitor**: a component is started once, killed alone, and a kill is refused only where there is nothing to kill.

## 2. Modules

| Module | Models | Proved in |
|---|---|---|
| `ClientLending` | the contract of `Pool.java`, without any mechanism | |
| `ClientPool` | `ClientPool.java`, implements `ClientLending` | `ClientPoolProofs` |
| `CuratorHandler`, `MCCuratorHandler` | `CuratorHandler.java` for one text, the configurations of its runs | `CuratorHandlerProofs` |
| `DatabaseArchive` | `DatabaseArchive.java`, `DatabaseStore.java` for one store | `DatabaseArchiveProofs` |
| `LegacySession` | `CogcompClient.java`, `SRLHandler.java` | `LegacySessionProofs` |
| `MCClients` | `ClientPool` and `LegacySession` for one run | |
| `ServerMonitor`, `MCServerMonitor` | `server_monitor.pl` | `ServerMonitorProofs` |
| `CharniakServer` | `charniakThriftServer.C` | `AnnotatorProofs` |
| `Agenda` | what `Bchart::parse` asks of its `EdgeHeap` | |
| `EdgeHeap`, `MCEdgeHeap` | `EdgeHeap.C` and the part of `redoP` that moves edges in it, implements `Agenda` | `EdgeHeapProofs` |
| `BestFirstChart` | `Bchart.C`, `Edge.C`, `GotIter.C`, parts of `ChartBase.C`, `BchartSm.C` | `BestFirstChartProofs` |
| `MCCharniakParser` | `CharniakServer` and `BestFirstChart` for one run, with the grammar of the chart | |
| `TokenViews` | from texts to the spans of words, as functions, without recursion | |
| `RecordViews` | a record that is labelled by `Whitespacer.java` or by the tokenizer's handler, and then handed to another | `AnnotatorProofs` |
| `Taggers` | the handlers of the part-of-speech tagger and of the chunker, over `RecordViews` | `AnnotatorProofs` |
| `PackedParses` | the chart as the second pass of the Charniak parsers sees it; what "the best trees" are | |
| `LazyBests` | `Bst.C`, `ValHeap.C` and `bestParse`, `bestParseGivenHead` of `MeChart.C`, as functions | |
| `KBestAnswers` | the same of the k-best server: `CombineBests.C`, `MeChart.C` of `CharniakServer2.0` | |
| `ParseViews` | the conversions of parses and dependencies of the Java parsers, and those of the Charniak servers, as functions | |
| `ParserHandlers` | the handlers of three Java parsers and two Charniak servers, over `RecordViews` and the functions above | |
| `Annotators`, `MCAnnotators` | `Taggers` and `ParserHandlers` beside each other: a record that any one handler is asked for | |

Operators marked "Mutation" beside a definition are deliberately wrong variants of
it; no specification uses them. They show that each checked property depends on the code it is about: put in
the place of the definition, the run that checks the property fails.

### ClientPool

A thread's `pc` says where it is in `getClient` (`scan`, `open`, `failed`, `wait`), with the client
(`use`), or in `releaseClient` (`release`, `notify`); `at` is the entry its for loop has come to.
`Skip` and `Take` are the two outcomes of `compareAndSet`, `Open` and `OpenFails` those of
`transport.open()`, `Refuse` is the release in its catch block together with the catch block of
`getClient`. Java's monitor is held only around `wait()` and `notify()`, each of which is one step.
`wait()` may return spuriously, as the Java language allows. Hosts go down and come back at any
time. The history variable `refused` says which entries failed in the current walk.

The refinement to `ClientLending` maps `scan` and `wait` to "searching", `open` and `failed` to
"trying", and computes who has what from `pc` and `at` alone: that the flag `available` agrees with it is
what makes `Take` a legal `Reserve`.

### CuratorHandler

The model follows the requests for one text. The Java stack of `provide()` calls is `stack[t]`, a
sequence of frames with the view, `forceUpdate` and the position in the requirement list. Every
call of the archive and of an annotator, and every pass through `removeStaleFields`, is one step;
between them other threads, the version updater and the archive's maintenance run. A record is the
function from the views it has to what is known of their making: the annotator's release, and the releases
of the required views it was made from. `Outdated` is the comparison of source
identifiers in `updateRequired`, including names that differ and versions that cannot be parsed.
`RemoveStaleIn` is `removeStaleFields` for one of the four maps of the record with its one-level cascade.
The pool appears as what it does to its caller: it lends a client or throws. The text is not
empty. It may be given as sentences (`whitespaced`): then `sentences` and `tokens` are made by the
`Whitespacer`, in `wsgetRecord` (`Complete`) and in `wsprovide` (`Decide`), with a source
identifier that is never an annotator's. A record may also be asked for by its
identifier, which throws where the text would have made a new record. `Throw` is an exception that leaves
every `provide()` on the stack. `ArchiveThrows` is one that is no `ArchiveException` (`getRecord` catches nothing else, `CuratorHandler.java:505`): a
`MongoException` of `archive.get`, or of `archive.store`, whether or not the record was written.

### DatabaseArchive

`db` maps a record to its `last_access`, `accessLog` likewise. `monitor` is the store's monitor;
`getById` is two steps (query, log) and `store` four inside it. A *flusher* is the listener's
thread or the maintenance thread; both run `updateAccess` one identifier at a time, and `Expire` runs
outside the monitor. An error is a `WriteResult` with an error (which the code turns into an
`ArchiveException`) or a `MongoException` (which is a `RuntimeException` and that nobody catches).
`lastUse` is a history variable: the last use the archive could know of. After a store that failed it is
what the database says, since the code removes the record's entry from the log whether or not it has
written. Time is a clock that may stand still or go on between any two steps.

### LegacySession

`place` follows `performSRL` and `getOutput`: a session, a handshake, a sentence, the rows of its answer.
The socket is a pair of queues, `asked` and `inbox`; a line is known by the record, sentence and row it
belongs to. `ReadFails` is the read that times out after 30 seconds or finds the connection reset;
`SleepOrThrow` is the retry, over the same socket, with the sleeping time `pause` doubled.
`ServerEnds` cuts the stream anywhere: between two lines, or within one, of which `readLine` returns the part that is there (`CutLine`). `late` is a history variable: reading timed out in
the session of this sentence.

### ServerMonitor

`config` is any file of groups the script accepts, `KillOf` what a component's kill command stops,
with the value `$kill` carries from one component to the next. `Spawn` is the fork that serves a connection: it
takes the list of processes (`snapshot`) that all later commands of the session go by. Each
command is an action; `Disconnect` and `Spin` are the client that goes away and the loop in
`ReceiveFrom` that then never ends. `running` counts the processes of each component; processes may end by
themselves (`Crash`). What `system()` returns of a kill or start command is ignored by the script: `RunKill` stops some, all or none of the processes
the command is for, `RunScript` starts one or none, and the answer is the same. Two history variables: `started` has what a session has run the start
script of, `decided` whether the last step was a kill, and whether it was run or refused.

### CharniakServer

`ParseRecord` sets the globals, `Spawn` and `Join` are the two loops of `parseRecord`, and
`LockRead`, `Grab`, `Advance`, `Parse`, `LockWrite`, `FindEnd`, `PushBack`, `UnlockWrite` are `mainLoop`. The
shared index is read and written in separate steps, so that `readlock` matters; `push_back` finds the end of
the vector and then writes there, so that `writelock` does. A tree is the
number of its sentence. An exception of a parse ends the process. A process serves one record after the
other; `begun` remembers where `SENTENCE_INDEX` stood when a record came in.

### Agenda, EdgeHeap, BestFirstChart

`EdgeHeap` has the array, `heapPos` of every edge, and `merit`. Each swap of `upheap` and `downHeap` is a
step; `pc` says which operation they are part of. `Redo` takes an edge from the middle (`del`), after which
`Reinsert` puts it back with another merit: this is what `redoP` does to edges that wait, while
`RedoPopped` only changes a merit. An insert that takes the last place of the array stops the process, as its assertion does. `Agenda` is a set from
which an edge of greatest merit is taken; the refinement counts an edge that `redoP` is
moving as waiting.

`BestFirstChart` is one sentence. An edge is the term it may become and the items it has so far, in the order they
were attached (`got`, the chain of `pred_`); one iteration of the loop in `parse` is a step, and any edge
of the agenda may be the one that is popped. `AddEdge` is `add_edge`, `AddTag` and `AddConstituent` are
`addFinishedEdge`; the extension of edges with their links `needme` and `sucs` is `ExtendRules`.
Edges whose merit is zero are those that no rule extends. A grammar is any finite set of rules in which, as in
`terms.txt`, no tag is the parent of anything and STOP is neither. `Finish` ends the loop when nothing is left
or `ruleiCounts_` is past its limit, which the first parse that is found shortens.

### PackedParses, LazyBests, KBestAnswers

An item of the chart has the edges that build it, each with a probability and its children on both sides of the
head; `hhprob` gives the probability of a head word. Both parsers go through the possible heads of an item (`BestParse`) and through the
edges that can have that head (`BestParseGivenHead`), and combine the children's answers. `KBestAnswers` does so with
queues of the size that was asked for; `LazyBests` makes the best only, and each next one from those given
before, by a heap. `Derivations` is what they are compared with: all trees, without any order of work. A `Bst` of
`LazyBests` is asked for all its trees at once, while the code asks as it goes; what it answers when it is asked for the n-th depends
on n only. Probabilities are positive integers, since only their products and order matter.

### TokenViews, RecordViews, Taggers

A text is a sequence of blanks and other characters. `TokenViews` has what turns texts to spans of words. `RecordViews` is a
record that gets its sentences and tokens: from the `Whitespacer`, which joins the sentences it was given while it labels
them, or from the tokenizer's handler, whose splitter may cut the text in any way, and fail. `Ask` hands it to one more handler.

`Taggers` has the two handlers that compute what sentences have which tokens from offsets alone, token by token. `PosToken` is the loop of
`IllinoisPOSHandler.tokensAsStrings`, `ChunkerTag` the two nested loops of `recordToLBJTokensPos`, and `ChunkToken` the loop of the
chunker's `labelRecord`, in which the tagger's next answer is any type. `lists` are what the tagger is given, `taken` how many tokens are in
them, `chunk` the chunker's locals. The action of a handler that throws leads to `place = "failed"`.

### ParseViews, ParserHandlers, Annotators

`ParseViews` has what turns a parse to a Curator tree and dependencies to trees of dependencies, recursive where the code is.
`ParserHandlers` goes on with a record of `RecordViews`, sentence by sentence; what a library answers is chosen from a few values, among them
the shortest and the empty ones. What the Charniak servers answer is not chosen but computed: the chart's items are chosen (`Packed`),
the trees are those of `LazyBests`, or the `NumParses` of `KBestAnswers`, and become Curator trees by `CharniakTree`, which also marks
the head among the children of each node. `CharniakServer` has the same server's threads and no trees. `Annotators` puts both kinds of handlers
together: one handler is asked for a record, and its steps leave the variables of the others alone, so a behaviour that asks a tagger is one
of `TaggersSpec`.

## 3. Runs

| Run | Instance | Checks |
|---|---|---|
| `clients_calls` | the pool: 3 threads, 2 hosts with a client each, both may fail; the legacy client: one call after the other, 2 sentences of 2 rows, the server late, ended or reset anywhere in its lines | exclusion, no leak, closed transports, error counting, `ClientLending`, every client comes back; no line of another sentence, rows in order unless late, calls end |
| `pool_lost_wakeup` | 2 threads, 1 client, no failure | *violated*: nobody sleeps beside a free client |
| `handler_stale` | 2 threads (symmetric), `pos` requires `tokens`, text plain or whitespaced, 2 releases, archive failures and exceptions, expiry, restarts, upgrades at any time, annotators that answer or throw the unexpected, nothing forced | nothing stale is served |
| `handler_answers` | the same with 1 release, requests that force, and annotators that fail in every way; fairness | every request is answered |
| `handler_alone` | 1 thread, a multi-annotator and a parser on it, plain or whitespaced, 3 releases, upgrades between requests | requirements performed, archive consistent, view provided, nothing lost, cascade |
| `handler_race` | 2 threads, a view with two requirements, nothing fails | *violated*: requirements performed |
| `archive_safety` | 1 request thread, 2 listener slots, maintenance, 2 records, clock to 3, failing writes and updates, exceptions | no access forgotten, one update thread, only long unused records expire, a long log is updated |
| `charniak_parser` | the server: 3 threads, two records of up to 5 sentences per process, grabs of 2, parses that end the process; the chart: 3 words, the last with two tags, 6 rules, limits of 9 and 28 edges | each sentence once, forest of the first record complete, every record answered; no edge twice, every pair has met, complete chart, what `redoP` reaches |
| `charniak_second_record` | 2 threads, two records of up to 2 sentences, no parse fails | *violated*: every sentence parsed |
| `monitor_sessions` | groups of 2 and 1 components, every file that loads, 2 session processes, up to 2 processes each, kill and start commands that may fail | first start, kills stay in the group, a refused kill is right |
| `heap_agenda` | 7 edges, 3 merits, 7 places, edges symmetric | positions, the flag, heap order, `Agenda` |
| `annotators` | 5 texts given as sentences of up to 3 words, 3 given as they are and split in every way, 8 handlers, 2 kinds of chunks with every answer of the tagger, k = 2, 3 shapes of parses, up to 3 dependencies; for the Charniak parsers 5 trees of items with up to 24 | sentences, tokens and the taggers' lists agree, chunks are runs, forests mirror the parses and cover the tokens, dependency trees, the best trees |

A run marked *violated* shows a disagreement between the code and what the repository says of it;
`PROJECT.json` quotes the line for each under "findings".

Two runs check two modules each: `clients_calls`, of `MCClients`, the pool and the legacy client, and `charniak_parser`, of `MCCharniakParser`, the
server's threads and the chart of one parse. The two parts of such a run share no variable, and `moving` says which one moves in a behaviour while the other
rests in its initial state: the states are the sum of those of the parts, not their product, and each property speaks of one part.

**Why the bounds are enough.** *Pool, handler, archive*: two threads are enough for every race over one client, one record or one
lock; the third thread of the pool run lets one thread wait while two others exchange a client, and
two hosts separate "all refused" from "one refused". The parser of `handler_alone` requires both fields of
one annotator, so that removing one leaves the other to the cascade; two requirements are the fewest between which a
record can be lost; and a third release lets an annotator change its name after it has changed its version. With
`ExpireAge` 1 and a clock to 3 a record can be stored, used, updated, expired and stored again.

`handler_answers` has annotators that answer in full, refuse, are not reached or throw the unexpected (the reply `"exception"`, after which the record is stored and
returned without the view). A multi-annotator's reply that stops after its first field (`"first"`) is, for the question whether the recursion ends, the same as that: the requested view
may be missing in the end. With one thread and the multi-annotator of `handler_alone` TLC finds the same, `"first"` included.
Releases only change which views are missing or stale when a frame looks, which expiry and forced updates do as well; so it has one.

*Charniak server*: five sentences and grabs of two give three threads three grabs, the last of them short, so that each
may have one or one of them all; the second record begins at the index where the first has ended: it is answered, with no sentence twice, but `ForestComplete` is of the first only.

*Legacy client*: two sentences are enough for a line of one to get to the other, two rows for half an answer; the
retries run to the number the code allows. A line that was cut is not a row of the answer, and can only be the last that is read of it.

*Monitor*: in a group of two components one may inherit the command of the other or of the group, the second group is what a
kill must spare. Sessions follow one another (`Overlap = FALSE`), beside sessions that spin.

*Heap*: seven places hold a tree of three levels less the place that stays free, in which the last
edge can come from another branch than the hole, and must sink or rise there. *Chart*: the
grammar grows edges on both sides of a head, twice on one side, builds a constituent in two ways, and has an edge that nothing
completes and a unit rule that is ruled out; the limit of 9 ends the loop with most of the work undone, that of 28 close to its end.

*Annotators*: sentences without a word, at the end and in the middle, and a sentence that ends in a blank; words that the splitter
cuts in two; two kinds of chunks, so that an I may agree with the chunk before it or not. Parses are flat,
binarized, or of a root with several children, and a sentence may have none at all; a word may have two copies. The items of the Charniak parsers have words of two
tags, two heads for every phrase and two ways to put three words together, so that there are fewer trees than the five asked for and up to 24,
with many of the same probability; and there are flat clauses and PPs of up to three children, for the heads. A handler keeps nothing from one record to the next, so one record is enough.

The theorems of section 6 remove these bounds for every safety property of the pool (also for legacy clients, which no run has),
the archive, the handler, the Charniak server, the legacy client, the monitor, the heap, the chart and the taggers; section 6 ends with
what is only model-checked.

**What runs only without concurrency.** `handler_alone` checks its properties for one request at a
time because concurrent requests break them (`handler_race`): what it shows is that the recursion, the
cascade and the decision to update are right in themselves.

**Deadlock** is not checked where the system may stop: a heap whose process was stopped by its assertion, a
chart whose loop has ended, a handler that has answered.

## 4. What the properties and runs leave out

Some runs exclude an event because the code does not cope with it, and some properties have a condition for that reason. Lines
of the first table were seen with TLC by lifting the restriction named; the code does what the counterexample says.

| Lift | Then fails | Because |
|---|---|---|
| `handler_alone` with the reply `"exception"` | `ProvidesTheView` | `performAnnotation` logs any exception that is not a `TException` and returns (and stores) the record without the view (`CuratorHandler.java:748`) |
| `handler_alone` with `Upgrades = "anytime"` | `ArchiveFitsTogether` | a forced update, or one by an annotator whose upgrade the version updater has not seen, does not remove what was made from the old view |
| `handler_alone` with `ArchiveFails = TRUE` | `NoAnnotationLost` | the record starts empty, and the store at the end of the request replaces what was stored (`CuratorHandler.java:506`) |
| a requirement list that names direct requirements only | `NothingLeftOnRemovedViews` | `cascadeRemoveStaleFields` goes one level deep (`:667`); the lists of `annotators-example.xml` name all levels |
| a stale record is one used within `expiretime` before it is expired, not before the maintenance began | `ExpiresOnlyLongUnused` | an access between the update of the access times and `expire` is in the log only (`DatabaseArchive.java:299-301`) |
| a record that was stored is there until it expires | (was a property of `DatabaseArchive`) | `store` chooses between save and update by a query (`DatabaseStore.java:93-100`); `expire`, outside the monitor, removes the record in between, and the update of nothing succeeds |
| a long log is updated also after a `MongoException` | `LongLogIsUpdated` | the exception leaves `isRunning` true for ever and ends the maintenance thread (`DatabaseArchive.java:261-268`, `299-304`) |
| `ForestComplete` also of a later record of a process | `EverySentenceParsed` (run `charniak_second_record`) | no record resets `SENTENCE_INDEX` (`charniakThriftServer.C:559`): the second record of a process lacks as many of its first sentences as were parsed before, contrary to "parse each one, add to parse Forest" (`:545`) |
| a sentence has all the rows of its answer, and whole ones | `RowsUnlessLate` | a stream that ends within an answer ends it as an empty line does, and the part of a line before the end is taken for a row (`CogcompClient.java:191-199`) |
| rows also after a timeout | `RowsUnlessLate` | the request is sent again over the same socket, and the rows of the late answer come twice, or the handshake's line among them (`CogcompClient.java:124-152`) |
| any start, or sessions that overlap | `FirstStartOnly` | a second start in one session, or in another that began before, goes by the old list and makes a second process |
| a kill leaves the other components of its group alone | `SparesOtherGroups` | `$kill` is set by one component and read by the next: a component without `kill_cmd` after one with it kills that one (`server_monitor.pl:533`) |
| what was killed, and answered with "Operation successful", does not run | (was a property of `ServerMonitor`) | the result of `system` is not looked at (`server_monitor.pl:290`): the command may fail, or the process may outlive its signal; nor is that of the start script (`:322`) |
| a kill is refused only of what does not run, also of what the session has started | `RefusedKillIsRight` | the list is that of the session's beginning: "Could not kill" is answered of a component the session has started and that runs |
| sentences without a token, or ending in a blank | `SentencesAgree` | `tokensAsStrings` goes on by one sentence per token, so an empty one moves the rest; `recordToLBJTokensPos` takes tokens up to the one that reaches the sentence's end, and runs into the next sentence |
| Berkeley parser, a sentence without tokens | `ForestsCoverTokens` | the parsed lines are the sentences that have tokens, the offsets are those of all: the trees get spans of another sentence |
| a parse whose root has several children, k-best | `ForestsCoverTokens` | only the first child is made a tree (`KBestStanfordParserHandler.java:149-153`), with the warning "More than one child in the top Tree": the words of the others are lost. `ForestsMirrorParses` takes for the parse what the handler kept |
| a sentence that cannot be parsed, both Stanford handlers | `ForestsCoverTokens` | `parseK` makes a tree of each word, whose leaf is `newLeaf(obj.toString())` and has no positions (`KBestStanfordParserHandler.java:188-209`, "taken from the LexicalizedParser source"): `generateNode` gives its nodes the span -1 to -1, moved by the sentence's offset, or throws (`:112-113`); the k-best handler keeps the first word of them, and throws if there is none |
| two copies of a word | `DependencyTreesMirror` | nodes of copies are found by the word's position alone: two copies share a node, which may then hang from two heads, and `extractNode` renumbers its children in place twice |

What the code does besides, as read; the models show it or have no property that would:

* Pool: a thread that waits is also left asleep when the connection it waited for cannot be opened: the
  thread that tried it makes the client available without `notify()` and throws. A pool without clients makes
  `getClient` wait for ever.
* Handler: requirements in a cycle make `provide` recurse for ever. A source identifier without `-` makes
  `updateRequired` throw, and one in the version updater ends its thread. `getRecordUsing` looks a method up without
  its parameter types, so a slave never has an answer, stores null, and throws. The status counters are read and
  reset while requests add to them. An annotator of several fields that returns fewer labelings than fields leaves the rest away.
* Archive: a restart loses the access log. A `MongoException` of `get` or `store` passes through `provide`, which catches `ArchiveException` only, and ends the request without an answer Thrift knows of.
* Server monitor: a start after a kill in the same session is answered "Operation successful" and starts nothing; a kill and a start are answered so whatever their commands did (`RunKill`, `RunScript`). A
  client that goes leaves its process in `ReceiveFrom` for ever. The handler of `SIGCHLD` reaps one child per signal.
* Charniak parser: `add_edge` looks up `stops[loc]` before it tests `loc` against `MAXSENTLEN` (`Bchart.C:276`, `292`); a
  merit that is infinite or no number is noticed only when the edge is popped.
* Charniak k-best server: it answers with as many trees as were asked for; those that were not found are one node without a label, with the
  span from 100000000 to -1 (`extraMain.C:85-86`), which `ForestsCoverTokens` excepts. All trees of a sentence get the score of the best one
  (`CharniakParser.C:182`). `bestParse` marks what it is working on by the probability 0, which would count as a tree where an item contains itself.
* Charniak parsers, second pass: `fillInHeads` goes over the items of one span a fixed number of times, so a longer chain of unit
  rules would miss heads; the models have none, nor an item that contains itself.
* Chunker: a chunk may go on into the next sentence; the label of the last chunk outlives an O, so an I of the same kind after
  an O is in no chunk (`ChunksAreRuns` says so).
* Stanford handlers: dependencies in a circle are left out, or, when a head leads to them, overflow the stack, which is caught and costs the sentence
  its trees; a forest of rank k lacks the sentences with fewer parses, so trees of two forests are not of the same sentence by their position. `stanford-parser/README.dist:18-24` says
  "Each Tree corresponds to one sentence" of both forests: the first has a tree for each child of a parse's root, so several for a sentence that is not parsed, and none for an empty one
  (`StanfordParserHandler.java:126`); the second has a tree for each word without a head, so several or none. `ForestsMirrorParses` and `DependencyTreesMirror` say which trees there are instead.
* Berkeley handler: a sentence without a parse becomes the leaf `ROOT`, whose span map is empty, and `next()` on it throws (`BerkeleyParserHandler.java:124-125`, `309`): the request fails. Part-of-speech tags read for one sentence are not reset for the next; requests share one parser without a lock; fewer
  parses than asked for throw.
* Coreference (`IllinoisCorefHandler.adjustSpan`): spans of the last of several records are never adjusted, and the index
  of the record is one too large; the Curator does not call `clusterRecords`.
* Wikifier: its annotator component is static and shared by requests that run side by side.

## 5. Fairness

* `ClientPool`: each thread that is inside the pool, or has a client, goes on (`WF` of its steps). The
  time limit of the client's socket ends every call of a server, and all paths of
  `performAnnotation` release the client. `Call`, the spurious wakeup and the servers are not fair.
* `CuratorHandler`: each step of a request that is being served is weakly fair: calls of annotators end by
  `client.timeout`. New requests, expiry and failures are not fair.
* `DatabaseArchive`: threads that run go on; a flusher that wants the store's monitor gets it
  if it is free again and again (`SF`): Java does not promise it of a monitor, but a listener that never enters is outside what
  this code decides. Nobody has to make requests, and the clock may stop.
* `LegacySession`: the client goes on (`WF`): `readLine` returns or times out. The server owes nothing.
* `CharniakServer`: the threads go on and get a mutex that is free again and again.
* `ServerMonitor`, `EdgeHeap`, `BestFirstChart` and `Annotators` have no liveness property.

## 6. Proofs

`ClientPoolProofs` proves, for every set of threads, every number of hosts and clients (zero included),
both kinds of holders and every set of failing hosts, from `PoolAssumption` alone:

| Theorem | States |
|---|---|
| `TypeCorrect` | `Spec => []TypeOK` |
| `Exclusion` | `Spec => []MutualExclusion` |
| `NoLeak` | `Spec => []BusyIffOwned` |
| `TransportClosed` | `Spec => []OpenOnlyInUse` |
| `ThrowJustified` | `Spec => ThrowsOnlyIfAllRefused` |
| `PoolImplementsLending` | `Spec => LendingSpec` |

All follow from one inductive invariant `IInv`. Mutual exclusion is not inductive by itself: a thread
whose `compareAndSet` succeeds must find a client that nobody has, which is `BusyIffOwned`; a
thread that gives its client back makes it available, which is right only if no other thread has
it, which is mutual exclusion. `OwnersAtEntries` adds that a thread with a client has an entry of
the list, and `ErrorsAreRefusals` that `errorCount` counts the refusals of this walk, so that
reaching the size of the pool means that all entries refused: from it `ThrowingRefusal` derives what
the exception means, and `StepRefines` uses both to map each step to a step of `ClientLending` or a stutter.

`DatabaseArchiveProofs` proves, for any server threads, records, listener threads, `updatecount` and
`expiretime`, and whatever writes, updates, queries and expirations fail or throw, from `ArchiveAssumption`:

| Theorem | States |
|---|---|
| `TypeCorrect` | `Spec => []TypeOK` |
| `ListenerRunsOnce` | `Spec => []OneUpdateThread` |
| `UseRemembered` | `Spec => []NoUseForgotten` |
| `ExpiryJustified` | `Spec => ExpiresOnlyLongUnused` |

`ListenerRunsOnce` needs that `isRunning` is true while a thread of the listener lives: the thread
that resets it is the only one. The other two rest on `UseInv`. That `updateAccess` may remove
what it has done from the log is `DoneIsInDatabase`, preserved because only the holder of the monitor
writes to the log (`InMonitor`); that `store` may remove its entry rests on `CallsAreRecent`: nothing is used
after the call in the monitor began, so the time it writes is not older than any use. `MaintenanceSees`
carries what `updateAccess` has brought to the database over to `expire`, which runs outside the monitor while
others store and update.

`EdgeHeapProofs` proves, for any set of edges, any size of the array and any merits, from `HeapAssumption`:

| Theorem | States |
|---|---|
| `TypeCorrect` | `Spec => []TypeOK` |
| `PositionsTheorem` | `Spec => []Positions` |
| `FlagIsTrueTheorem` | `Spec => []FlagIsTrue` |
| `HeapOrderedTheorem` | `Spec => []HeapOrdered` |
| `HeapIsAgenda` | `Spec => IsAgenda` |

The inductive invariant is `Types /\ Positions /\ Room /\ GoneIsOut /\ FlagsButGone /\ Order`. `Order` is the heap order
during an operation: it may be broken at one edge only, at `pos`, towards its parent while the edge
rises and towards its children while it sinks, and the children of `pos` are no better than its parent, which is what the next swap
needs. After `del` both are possible until `upheap` has returned. `HeapIsAgenda` needs in addition that
the root of a heap is an edge of greatest merit (`TopIsBest`, by way of the first position that holds such an edge).

`CuratorHandlerProofs` proves, for any threads, views, annotators, releases and configurations that `HandlerAssumption`
admits. The second column is what is assumed besides:

| Theorem | Under | States |
|---|---|---|
| `TypeCorrect` | | `Spec => []TypeOK` |
| `NothingStale` | `ReleasesTell` | `Spec => []NothingStaleServed` |
| `RemovedViewsLeaveNothing` | `ListsAreClosed`, `TokensFirst` | `Spec => NothingLeftOnRemovedViews` |
| `RequirementsComeFirst` | `Alone` | `Spec => []RequirementsPerformed` |
| `TheViewIsProvided` | `Alone` | `Spec => []ProvidesTheView` |
| `TheArchiveFits` | `Alone` | `Spec => []ArchiveFitsTogether` |
| `NothingIsLost` | `Alone` | `Spec => NoAnnotationLost` |

* `ReleasesTell`: a later release can be told from an earlier one by the source identifiers; otherwise
  `updateRequired` sees nothing. `handler_stale` has releases that can be told apart; those of `handler_alone` change
  the version, and then the name.
* `ListsAreClosed` and `TokensFirst` say what the lists of `annotators-example.xml` are like: they name what is required indirectly as
  well, which an annotator does not make itself, and tokens and sentences require nothing. The first line on it in the table of section 4 is what
  happens without.
* `Alone` is one thread, closed lists, releases that tell, an archive that neither fails nor expires nor forgets, annotators that
  answer in full or fail with an exception the code expects (not "first" or "exception"), and no upgrade in the middle of a request.
  Each of these is needed: `handler_race` breaks `RequirementsPerformed` with two threads, and section 4 names what else fails, and where
  the code makes it so. Any number of views, requirements and releases is left, and every depth of the recursion.

`NothingStale` holds of any number of concurrent requests, and with everything failing. Its invariant `FreshInv` has two
parts: what the Curator knows of an annotator is not newer than the annotator (`KnowsThePast`), and a record is never older than what its request knew
when it came in (`CleanedIsFresh`), which cleaning establishes and neither a store by another request nor a recursion undoes, because each
frame reads and cleans the record again. `AloneInv` adds that the archive is whole (a view is there with
its requirements, made from what is beside it), that `Usable`, the views cleaning would leave now, only grows while a request
recurses, and `FramesFit`: each frame of the stack has its first requirements in `Usable`, up to the one the next frame is making. All properties
under `Alone` follow from it. That one pass over the four maps is enough is `RemoveStaleFacts`.

`AnnotatorProofs` is about two of the annotators. The Charniak server, from `CharniakAssumption` (up to the 4 threads the code allows, any `SENTENCE_INCRE` but 0):

| Theorem | States |
|---|---|
| `TypeCorrect` | `Spec => []TypeOK` |
| `NoSentenceTwice` | `Spec => []EachSentenceOnce` |
| `ForestIsComplete` | `Spec => []ForestComplete` |
| `MutexesExclude` | no two threads between taking and releasing `readlock`, nor `writelock` |

The argument is ownership. A thread owns the sentences it has taken and not yet appended (`Own`). Owners are disjoint from each other and from
the forest (`Apart`), only sentences that `SENTENCE_INDEX` has passed are owned or in the forest (`Inside`), and, while the process lives,
all of them are (`NoneLost`). `Intervals` keeps what a thread has read of the index and the end of the vector true until it writes, which is
what the two mutexes are for (`Locks`).

The handlers of the taggers, for every text, given as sentences or as it is, every way the splitter may cut it and every answer of the
tagger, from `RecordAssumption` alone:

| Theorem | States |
|---|---|
| `TaggersInvariant` | `TaggersSpec => []TaggersInv` |
| `SentencesAndListsAgree` | `TaggersSpec => []SentencesAgree` |
| `ChunksAreTheRuns` | `TaggersSpec => []ChunksAreRuns` |

`TaggersInv` is the inductive invariant. For the record it says that the tokens are the words of the text, in order and apart, none left out
(`AreWords`), that the sentences are in order and apart (`Rising`), and that each token lies in one (`InSentences`); while the text is being joined,
that `offset` is where the next sentence begins (`Joining`). For the lists it is `Sorted`: what was taken so far is a prefix of the
tokens, each in the list of its sentence, and all sentences but the last that was begun are complete. The tagger's loop keeps that only where the next
token behind the end of a sentence is of the very next one, and the chunker's only where the sentence's end is that of its last
token: this is where the conditions of `SentencesAgree` come from. For the chunks it is `ChunksOf`: `clabel` is the kind of the last chunk that began
(`KindBefore`), the open chunk is a run that reaches the last type, and the labels are those of all runs before it, each of which is over,
whatever follows (`IsOver`). `InOrder` is a `CHOOSE`; that it has a value, and what it becomes when a greatest element is added, is
proved of all finite sets of numbers by the least, or smallest, for which it would fail.

`ServerMonitorProofs`, for every file of groups and any sessions, from `MonitorAssumption`:

| Theorem | Under | States |
|---|---|---|
| `TypeCorrect` | | `Spec => []TypeOK` |
| `OtherGroupsAreSpared` | | `Spec => SparesOtherGroups` |
| `RefusalsAreRight` | `~Overlap` | `Spec => []RefusedKillIsRight` |
| `StartsTheOnlyOne` | `~Overlap` | `Spec => FirstStartOnly` |

The first two need only that the file was accepted and that components have different names: how `$kill` is carried over is worked
out for a group of any length, by its first component for which a claim fails. The other two need that what a
session has neither in its list nor started does not run (`ListIsGood`), which another open session could make false: hence
`~Overlap`, without which TLC finds the second process (section 4). A kill keeps it whether or not its command does anything, since it takes nothing off the list: put `KillAndForget` in
its place and a survivor of a failed command can neither be killed again nor is kept from being doubled.

`LegacySessionProofs`, for any records, number of sentences and rows, from `SessionAssumption`:

| Theorem | States |
|---|---|
| `TypeCorrect` | `CallSpec => []CallTypeOK` |
| `NoStrangeLine` | `CallSpec => []OwnSentenceOnly` |
| `RowsInOrderUnlessLate` | `CallSpec => []RowsUnlessLate` |

That no line of another sentence is read follows from the socket being opened for each sentence (`OwnSocket`). For the order of rows the
invariant follows the protocol: what was read and what is on its way continue each other (`RowsInOrder`), and nothing is under way when a request is
sent, unless reading has timed out (`HelloInOrder`).

`BestFirstChartProofs`, for every finite grammar, every sentence and tags, every limit, and any order in which edges are popped, from
`ChartAssumption`:

| Theorem | States |
|---|---|
| `TypeCorrect` | `ChartSpec => []ChartTypeOK` |
| `EdgesAreMadeOnce` | `ChartSpec => []NoEdgeTwice` |
| `PairsAlwaysMeet` | `ChartSpec => []EveryPairHasMet` |
| `NothingIsLeftToTry` | `ChartSpec => []ChartIsClosed` |
| `TheChartIsComplete` | `ChartSpec => []ChartIsComplete` |
| `LinksTellTheTruth` | `ChartSpec => []LinksAreTrue` |
| `NeedmeReachesTheItem` | `ChartSpec => []IteratorIsRight` |
| `NeedmeIterIsRight` | `ChartSpec => []NeedmeIterReaches` |

What an edge was made from can be read off it (`ExtendInjective`: the last of `got`, and the rest). So an edge made twice would have been made from the same pair
twice; but one of the two was new each time: an edge is popped once (`Origins`, `NoEdgeTwice`), and an item comes once and meets only
those that wait (`GrowersWait`). That is also why every pair has met (`PairsMet`). `AllIsTried` adds words, heads and STOP. `LinksAreTrue` says that `needme`, `sucs` and `ineed` are
functions of the edges that were made; the least set that `NeedmeIter` can reach is then found by the shortest edge it would miss (`IteratorIsRight`). `NeedmeIterReaches` says the
same of the function that computes it by recursion, `AndSucs`, which goes on until nothing is new. That it ends at the least closed set is proved without an
induction scheme: among the sets of edges that were made and for which it would not, one that no other of them contains goes in one step to a larger set, for which it
does, or is closed (`AndSucsIsClosure`). For completeness, `Grown`
writes down the edges by which a rule comes to its parent: each is what `Extend` makes of the one before (`GrownBegins`, `GrownLeft`, `GrownStopsLeft`,
`GrownRight`, `GrownStopsRight`); each has a merit, because `LeftRight` puts its items back into the order of the sentence (`LeftRightIs`,
`GrownIsPossible`); and so, by `ChartIsClosed`, each was made.

**Only model-checked:**

* liveness, for which the prover would have to handle `ENABLED` under fairness: `ClientComesBack` (pool), `EveryRequestIsAnswered`
  (handler), `LongLogIsUpdated` (archive), `RecordIsAnswered` (Charniak server) and `CallEnds` (legacy client);
* the handler's properties where `Alone` does not hold and they still might: each part of it is needed for one of them at least, not for each;
* `ForestsMirrorParses`, `ForestsCoverTokens`, `DependencyTreesMirror` and `KBestAreBest`: `ParserHandlers` and the modules of functions it uses
  (`ParseViews`, `PackedParses`, `LazyBests`, `KBestAnswers`) have `RECURSIVE` operators, since the code recurses over trees; the prover does not
  support them, and what they compute for every tree would need an induction over trees. `Taggers` is a module
  of its own so that this does not keep it from being proved.

## 7. Plan

Written so far: the modules of section 2. Next, in this order:

1. Proofs: `RequirementsPerformed` and `ArchiveFitsTogether` from less than `Alone`, each from what it needs; `RecordInv` for the parsers' handlers, whose part of the proof of `Taggers` does not depend on the tagger.
2. Handler: `getMultiRecord`, `storeMultiRecord`, slave mode; the status counters as a module of their own (what is reported adds up to what was done).
3. A composition of handler and pool with the version updater's use of clients, and one of handler and archive.
4. Charniak parser: the heads of items that a chain of unit rules builds, and items that contain themselves; the trees `parseIt.C` leaves out because they equal an earlier one (`Link`).
5. The handlers of entities and roles, where they combine several records.

## 8. Not modelled

* Of the Charniak parser: probabilities (only the order of merits and "zero or not" remain), the limits on
  what is popped without progress and on demerits, guided parsing, the history a probability depends on in the second pass and the answers that are remembered by it, the tokenizer, training, and of the older copy of the same sources
  (`CharniakServer2.0`) all but its second pass and its server.
* The Stanford parser's classes and the libraries behind the other annotators: third party, or not in the repository. Their servers
  are seen through the replies the handlers can get.
* Of the monitor: ports, the command lines it builds and the text of its answers.
* Of the handler: see the plan; the construction from its configuration.
* Thrift, MongoDB and the JVM: modelled where the code depends on them (`up`, `open`, the
  collection, monitors), and marked external in the map when nothing in the source stands for them.
* Start-up, command lines, logging, the Java and PHP example clients with their vendored Thrift extension and template engine, converters, build and start scripts.
* Configurations: cycles among requirements; source identifiers without a version on the Curator's side; and an
  `INCREMENT` of zero, with which `mainLoop` never ends.

A large part of the repository is of these kinds (copies of the parser's sources, third-party classes, generated and vendored code), which is
why the map names a small share of its lines.

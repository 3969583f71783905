----------------------------- MODULE ClientPool -----------------------------
(***************************************************************************)
(* curator/ClientPool.java: the clients of one annotation service, shared  *)
(* by the threads of CuratorServer.  A client is an entry of the list      *)
(* `pool`; its ClientHolder keeps the flag `available` and the transport   *)
(* to the annotation server.  getClient walks over the list with no lock,  *)
(* reserves a client by compareAndSet, and calls wait() on the pool when   *)
(* the walk found none; releaseClient closes, sets the flag and calls      *)
(* notify().  Each read or write of shared state is a step of its own.     *)
(***************************************************************************)
EXTENDS Naturals

CONSTANTS
  Thread,      \* threads that call getClient and releaseClient
  NumHosts,    \* host:port entries of the service's configuration
  PerHost,     \* clients that are made for each of them
  Legacy,      \* are they LegacyClientHolders (addLegacyClients)?
  MayFail      \* the hosts (of 1..NumHosts) whose server goes down and comes back

N == NumHosts * PerHost

Host == 1 .. NumHosts
Holder == 1 .. N

\* addClient nests the hosts inside the count.
HostOf(h) == 1 + ((h - 1) % NumHosts)

ASSUME PoolAssumption ==
  /\ NumHosts \in Nat
  /\ PerHost \in Nat
  /\ Legacy \in BOOLEAN
  /\ MayFail \subseteq Host

VARIABLES
  available,   \* ClientHolder.available
  open,        \* transport.isOpen() of a ThriftClientHolder
  up,          \* whether the annotation server of a host accepts connections
  pc,          \* where a thread is in getClient or releaseClient
  at,          \* the entry the loop over `pool` has come to, N + 1 at its end
  errorCount,  \* getClient's local of that name
  refused      \* history: the entries whose transport failed in this walk

vars == <<available, open, up, pc, at, errorCount, refused>>

(***************************************************************************)
(* "idle"     outside the pool                                             *)
(* "scan"     in the for loop of getClient, or past it and about to wait   *)
(* "open"     has won the compareAndSet, calls transport.open()            *)
(* "failed"   transport.open() has thrown, calls this.release()            *)
(* "wait"     in wait()                                                    *)
(* "use"      getClient has returned the client                            *)
(* "release"  releaseClient has closed the transport                       *)
(* "notify"   releaseClient has made the client available                  *)
(***************************************************************************)
Location == {"idle", "scan", "open", "failed", "wait", "use", "release", "notify"}

Owning == {"open", "failed", "use", "release"}

Owns(t, h) == pc[t] \in Owning /\ at[t] = h

Init ==
  /\ available = [h \in Holder |-> TRUE]
  /\ open = [h \in Holder |-> FALSE]
  /\ up \in [Host -> BOOLEAN]
  /\ \A s \in Host \ MayFail : up[s]
  /\ pc = [t \in Thread |-> "idle"]
  /\ at = [t \in Thread |-> 1]
  /\ errorCount = [t \in Thread |-> 0]
  /\ refused = [t \in Thread |-> {}]

Goto(t, l) == pc' = [pc EXCEPT ![t] = l]

\* The start of getClient's while loop: a walk from the first entry.
StartWalk(t) ==
  /\ Goto(t, "scan")
  /\ at' = [at EXCEPT ![t] = 1]
  /\ errorCount' = [errorCount EXCEPT ![t] = 0]
  /\ refused' = [refused EXCEPT ![t] = {}]

Call(t) ==
  /\ pc[t] = "idle"
  /\ StartWalk(t)
  /\ UNCHANGED <<available, open, up>>

\* compareAndSet fails: the client is busy, h.getClient() returns null.
Skip(t) ==
  /\ pc[t] = "scan"
  /\ at[t] \in Holder
  /\ ~available[at[t]]
  /\ at' = [at EXCEPT ![t] = @ + 1]
  /\ UNCHANGED <<available, open, up, pc, errorCount, refused>>

\* Mutation: the flag is set without being compared.
TakeUnchecked(t) ==
  /\ pc[t] = "scan"
  /\ at[t] \in Holder
  /\ available' = [available EXCEPT ![at[t]] = FALSE]
  /\ Goto(t, IF Legacy THEN "use" ELSE "open")
  /\ UNCHANGED <<open, up, at, errorCount, refused>>

\* compareAndSet succeeds.
Take(t) ==
  /\ pc[t] = "scan"
  /\ at[t] \in Holder
  /\ available[at[t]]
  /\ available' = [available EXCEPT ![at[t]] = FALSE]
  /\ Goto(t, IF Legacy THEN "use" ELSE "open")
  /\ UNCHANGED <<open, up, at, errorCount, refused>>

\* transport.open() succeeds.  Thrift refuses to open an open socket.
Open(t) ==
  /\ pc[t] = "open"
  /\ up[HostOf(at[t])]
  /\ ~open[at[t]]
  /\ open' = [open EXCEPT ![at[t]] = TRUE]
  /\ Goto(t, "use")
  /\ UNCHANGED <<available, up, at, errorCount, refused>>

\* transport.open() throws TTransportException.
OpenFails(t) ==
  /\ pc[t] = "open"
  /\ ~up[HostOf(at[t])] \/ open[at[t]]
  /\ Goto(t, "failed")
  /\ UNCHANGED <<available, open, up, at, errorCount, refused>>

\* Mutation: the exception leaves ClientHolder.getClient without this.release().
RefuseLeaks(t) ==
  /\ pc[t] = "failed"
  /\ errorCount' = [errorCount EXCEPT ![t] = @ + 1]
  /\ refused' = [refused EXCEPT ![t] = @ \cup {at[t]}]
  /\ IF errorCount'[t] >= N
     THEN Goto(t, "idle") /\ UNCHANGED at
     ELSE Goto(t, "scan") /\ at' = [at EXCEPT ![t] = @ + 1]
  /\ UNCHANGED <<available, open, up>>

\* Mutation: getClient throws one error too early.
RefuseTooEarly(t) ==
  /\ pc[t] = "failed"
  /\ open' = [open EXCEPT ![at[t]] = FALSE]
  /\ available' = [available EXCEPT ![at[t]] = TRUE]
  /\ errorCount' = [errorCount EXCEPT ![t] = @ + 1]
  /\ refused' = [refused EXCEPT ![t] = @ \cup {at[t]}]
  /\ IF errorCount'[t] >= N - 1
     THEN Goto(t, "idle") /\ UNCHANGED at
     ELSE Goto(t, "scan") /\ at' = [at EXCEPT ![t] = @ + 1]
  /\ UNCHANGED up

\* ClientHolder.getClient releases the client it could not connect, nobody is
\* notified, and getClient counts the error: it throws, or takes the next entry.
Refuse(t) ==
  /\ pc[t] = "failed"
  /\ open' = [open EXCEPT ![at[t]] = FALSE]
  /\ available' = [available EXCEPT ![at[t]] = TRUE]
  /\ errorCount' = [errorCount EXCEPT ![t] = @ + 1]
  /\ refused' = [refused EXCEPT ![t] = @ \cup {at[t]}]
  /\ IF errorCount'[t] >= N
     THEN Goto(t, "idle") /\ UNCHANGED at
     ELSE Goto(t, "scan") /\ at' = [at EXCEPT ![t] = @ + 1]
  /\ UNCHANGED up

\* The walk found no client.  The decision to wait was made outside the monitor.
Wait(t) ==
  /\ pc[t] = "scan"
  /\ at[t] \notin Holder
  /\ Goto(t, "wait")
  /\ UNCHANGED <<available, open, up, at, errorCount, refused>>

\* Object.wait may return without a notify.
SpuriousWakeup(t) ==
  /\ pc[t] = "wait"
  /\ StartWalk(t)
  /\ UNCHANGED <<available, open, up>>

\* Mutation: release() only sets the flag.
CloseForgotten(t) ==
  /\ pc[t] = "use"
  /\ Goto(t, "release")
  /\ UNCHANGED <<available, open, up, at, errorCount, refused>>

\* releaseClient: release() closes the transport, whether or not the server
\* is still there, ...
Close(t) ==
  /\ pc[t] = "use"
  /\ open' = [open EXCEPT ![at[t]] = FALSE]
  /\ Goto(t, "release")
  /\ UNCHANGED <<available, up, at, errorCount, refused>>

\* ... makes the client available ...
MakeAvailable(t) ==
  /\ pc[t] = "release"
  /\ available' = [available EXCEPT ![at[t]] = TRUE]
  /\ Goto(t, "notify")
  /\ UNCHANGED <<open, up, at, errorCount, refused>>

\* ... and notify() wakes one waiting thread, any one of them.
Notify(t) ==
  /\ pc[t] = "notify"
  /\ \/ /\ \A w \in Thread : pc[w] # "wait"
        /\ Goto(t, "idle")
        /\ UNCHANGED <<at, errorCount, refused>>
     \/ \E w \in Thread :
          /\ pc[w] = "wait"
          /\ pc' = [pc EXCEPT ![t] = "idle", ![w] = "scan"]
          /\ at' = [at EXCEPT ![w] = 1]
          /\ errorCount' = [errorCount EXCEPT ![w] = 0]
          /\ refused' = [refused EXCEPT ![w] = {}]
  /\ UNCHANGED <<available, open, up>>

\* The annotation server on host s stops or is started again.
ServerChanges(s) ==
  /\ s \in MayFail
  /\ up' = [up EXCEPT ![s] = ~@]
  /\ UNCHANGED <<available, open, pc, at, errorCount, refused>>

ThreadStep(t) ==
  \/ Skip(t) \/ Take(t) \/ Open(t) \/ OpenFails(t) \/ Refuse(t) \/ Wait(t)
  \/ Close(t) \/ MakeAvailable(t) \/ Notify(t)

Next ==
  \/ \E t \in Thread : Call(t) \/ SpuriousWakeup(t) \/ ThreadStep(t)
  \/ \E s \in Host : ServerChanges(s)

Spec == Init /\ [][Next]_vars

\* A thread inside the pool keeps running and gives back what it was lent; it
\* need not call again, servers need not change, wait() need not return by itself.
FairSpec == Spec /\ \A t \in Thread : WF_vars(ThreadStep(t))

-----------------------------------------------------------------------------
TypeOK ==
  /\ available \in [Holder -> BOOLEAN]
  /\ open \in [Holder -> BOOLEAN]
  /\ up \in [Host -> BOOLEAN]
  /\ pc \in [Thread -> Location]
  /\ at \in [Thread -> 1 .. N + 1]
  /\ errorCount \in [Thread -> 0 .. N]
  /\ refused \in [Thread -> SUBSET Holder]

\* Two threads never have the same client (its TFramedTransport and protocol are
\* not thread safe), although the walk over the pool takes no lock.
MutualExclusion ==
  \A t, u \in Thread : \A h \in Holder : Owns(t, h) /\ Owns(u, h) => t = u

\* A client is marked busy exactly as long as a thread has it, on every path:
\* a connection that cannot be opened, a failed walk and a release included.
\* No client leaks and no busy client is offered.
BusyIffOwned ==
  \A h \in Holder : available[h] <=> \A t \in Thread : ~Owns(t, h)

\* A connection is open only while a thread works with it, and it was closed
\* before the client is offered again: transport.open() is never called on an
\* open transport, which Thrift would answer with an exception.
OpenOnlyInUse ==
  \A h \in Holder : open[h] => \E t \in Thread : pc[t] = "use" /\ at[t] = h

\* The entries that refused are counted one by one: what errorCount says is
\* how many entries of this walk failed, and they are entries already passed.
ErrorsAreRefusals ==
  \A t \in Thread : pc[t] \in {"scan", "open", "failed"} =>
    /\ refused[t] \subseteq 1 .. at[t] - 1
    /\ errorCount[t] <= at[t] - 1
    /\ errorCount[t] = at[t] - 1 => refused[t] = 1 .. at[t] - 1

\* getClient throws only if all the clients threw in one and the same walk: a
\* pool that has a busy client waits, even if all the others are offline.
ThrowsOnlyIfAllRefused ==
  [][\A t \in Thread :
        pc[t] = "failed" /\ pc'[t] = "idle" => refused'[t] = Holder]_vars

\* A client that was taken comes back: whatever happens to the servers, getClient
\* and releaseClient leave the flag set.
ClientComesBack ==
  \A h \in Holder : ~available[h] ~> available[h]

-----------------------------------------------------------------------------
\* The pool lends out clients as ClientLending says: a thread that is out of
\* getClient or waits in it has no client.
Lending == INSTANCE ClientLending WITH
  Borrower <- Thread,
  Client <- Holder,
  stage <- [t \in Thread |->
              CASE pc[t] \in {"idle", "notify"} -> "out"
                [] pc[t] \in {"scan", "wait"} -> "searching"
                [] pc[t] \in {"open", "failed"} -> "trying"
                [] OTHER -> "using"],
  lent <- [t \in Thread |-> IF pc[t] \in Owning THEN at[t] ELSE 0],
  refused <- refused

LendingSpec == Lending!Spec

-----------------------------------------------------------------------------
Quiet(t) == pc[t] \in {"idle", "wait"}

\* Pool.getClient "Will keep looping until either an available client is found or
\* all clients are offline": when every thread is out of the pool or asleep in
\* it, nobody is asleep although a client is available.
NobodySleepsByAvailableClient ==
  (\A t \in Thread : Quiet(t)) =>
    \A t \in Thread : pc[t] = "wait" => \A h \in Holder : ~available[h]
=============================================================================

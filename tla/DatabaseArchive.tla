--------------------------- MODULE DatabaseArchive ---------------------------
(***************************************************************************)
(* archive/DatabaseArchive.java and DatabaseStore.java: the records the    *)
(* Curator keeps in MongoDB, with the time each was last accessed.  store, *)
(* getById and updateAccess are synchronized on the store; expire is not.  *)
(* A getById only notes its time in accessLog.  updateAccess brings those  *)
(* times to the database: the listener's thread calls it when the log has  *)
(* grown beyond updatecount, the maintenance thread before it expires.     *)
(* One store is modelled; the archive's own monitor, which get and store   *)
(* take first, excludes nobody that the store's does not exclude.          *)
(***************************************************************************)
EXTENDS Naturals, FiniteSets

CONSTANTS
  Thread,       \* server threads
  Id,           \* identifiers of texts
  Listener,     \* threads a DatabaseAccessListener may start
  Maintenance,  \* the thread of the DatabaseMaintenanceWorker
  UpdateCount,  \* database.updatecount
  ExpireAge,    \* database.expiretime
  MaxTime,      \* bound: the clock stops there
  WriteErrors,  \* may the WriteResult of store have an error?
  UpdateErrors, \* may those of updateAccess and expire?
  Exceptions    \* may the driver throw a MongoException?

Free == "free"
Flusher == Listener \cup {Maintenance}
Time == 1 .. MaxTime
Never == 0      \* not in the database, not in the log

ASSUME ArchiveAssumption ==
  /\ UpdateCount \in Nat /\ ExpireAge \in Nat \ {0} /\ MaxTime \in Nat \ {0}
  /\ WriteErrors \in BOOLEAN /\ UpdateErrors \in BOOLEAN /\ Exceptions \in BOOLEAN
  /\ Thread \cap Flusher = {} /\ Maintenance \notin Listener
  /\ Free \notin Thread \cup Flusher
  /\ IsFiniteSet(Id) /\ Id # {}

VARIABLES
  now,         \* the clock
  db,          \* the collection: last_access of a record that is there
  accessLog,   \* accesses the database does not know of yet
  monitor,     \* who is in a synchronized method of the store
  pc,          \* a server thread's place in getById or store
  call,        \* its locals: method, identifier, was there a datum, when it began
  isRunning,   \* DatabaseAccessListener.isRunning
  work, done,  \* a flusher's place, and doneIdents
  lastUse,     \* history: when a record was last got or stored (see Unlog)
  usedBefore   \* history: lastUse when the maintenance began

vars == <<now, db, accessLog, monitor, pc, call, isRunning, work, done,
          lastUse, usedBefore>>

threadVars == <<pc, call>>
flusherVars == <<isRunning, work, done, usedBefore>>

Place == {"idle", "find", "log", "write", "stored", "not stored"}
Phase == {"off", "sleep", "start", "update", "end", "expire", "dead"}
Calls == [op : {"none", "get", "store"}, id : Id, found : BOOLEAN, began : Time]
NoCall == [op |-> "none", id |-> CHOOSE i \in Id : TRUE, found |-> FALSE, began |-> 1]

Init ==
  /\ now = 1
  /\ db = [i \in Id |-> Never]
  /\ accessLog = [i \in Id |-> Never]
  /\ monitor = Free
  /\ pc = [t \in Thread |-> "idle"]
  /\ call = [t \in Thread |-> NoCall]
  /\ isRunning = FALSE
  /\ work = [f \in Flusher |-> IF f = Maintenance THEN "sleep" ELSE "off"]
  /\ done = [f \in Flusher |-> {}]
  /\ lastUse = [i \in Id |-> Never]
  /\ usedBefore = [i \in Id |-> Never]

Logged(log) == {i \in Id : log[i] # Never}

Goto(t, l) == pc' = [pc EXCEPT ![t] = l]

Leave(t) ==
  /\ Goto(t, "idle")
  /\ call' = [call EXCEPT ![t] = NoCall]
  /\ monitor' = Free

-----------------------------------------------------------------------------
\* A server thread enters getById or store.
Enter(t, o, i) ==
  /\ pc[t] = "idle" /\ monitor = Free
  /\ monitor' = t
  /\ Goto(t, "find")
  /\ call' = [call EXCEPT ![t] = [op |-> o, id |-> i, found |-> FALSE, began |-> now]]
  /\ UNCHANGED <<now, db, accessLog, lastUse, flusherVars>>

\* getById, from store too: the query.
Find(t) ==
  /\ pc[t] = "find"
  /\ call' = [call EXCEPT ![t].found = db[call[t].id] # Never]
  /\ Goto(t, "log")
  /\ UNCHANGED <<now, db, accessLog, monitor, lastUse, flusherVars>>

\* The query throws, or the datum cannot be deserialized: getById or store throws
\* an ArchiveException before the access is logged.
FindThrows(t) ==
  /\ Exceptions /\ pc[t] = "find"
  /\ Leave(t)
  /\ UNCHANGED <<now, db, accessLog, lastUse, flusherVars>>

\* Mutation: update starts a thread whether or not one is running.
NotifyAlways(log) ==
  IF Cardinality(Logged(log)) > UpdateCount /\ \E l \in Listener : work[l] = "off"
  THEN /\ isRunning' = TRUE
       /\ \E l \in Listener : work[l] = "off" /\ work' = [work EXCEPT ![l] = "start"]
  ELSE UNCHANGED <<isRunning, work>>

\* notifyObservers: DatabaseAccessListener.update starts a thread if the log has
\* grown too long and none is running.
NotifyListener(log) ==
  IF ~isRunning /\ Cardinality(Logged(log)) > UpdateCount
  THEN /\ isRunning' = TRUE
       /\ \E l \in Listener : work[l] = "off" /\ work' = [work EXCEPT ![l] = "start"]
  ELSE UNCHANGED <<isRunning, work>>

\* getById notes the access, whether or not there is such a record.
Log(t) ==
  /\ pc[t] = "log"
  /\ accessLog' = [accessLog EXCEPT ![call[t].id] = now]
  /\ NotifyListener(accessLog')
  /\ IF call[t].op = "get"
     THEN /\ Leave(t)
          /\ lastUse' = IF call[t].found THEN [lastUse EXCEPT ![call[t].id] = now] ELSE lastUse
     ELSE Goto(t, "write") /\ UNCHANGED <<call, monitor, lastUse>>
  /\ UNCHANGED <<now, db, done, usedBefore>>

\* store saves the new record, or updates the one getById has found; an update of
\* a record that is no longer there changes nothing and is no error.
Write(t) ==
  /\ pc[t] = "write"
  /\ IF call[t].found /\ db[call[t].id] = Never
     THEN UNCHANGED db
     ELSE db' = [db EXCEPT ![call[t].id] = call[t].began]
  /\ Goto(t, "stored")
  /\ UNCHANGED <<now, accessLog, monitor, call, lastUse, flusherVars>>

\* The WriteResult has an error: store goes on and will return false.
WriteError(t) ==
  /\ WriteErrors /\ pc[t] = "write"
  /\ Goto(t, "not stored")
  /\ UNCHANGED <<now, db, accessLog, monitor, call, lastUse, flusherVars>>

\* A MongoException leaves store.
WriteThrows(t) ==
  /\ Exceptions /\ pc[t] = "write"
  /\ Leave(t)
  /\ UNCHANGED <<now, db, accessLog, lastUse, flusherVars>>

\* Mutation: the whole log is cleared.
UnlogEverything(t) ==
  /\ pc[t] \in {"stored", "not stored"}
  /\ accessLog' = [i \in Id |-> Never]
  /\ lastUse' = [lastUse EXCEPT ![call[t].id] =
                   IF pc[t] = "stored" THEN call[t].began ELSE db[call[t].id]]
  /\ Leave(t)
  /\ UNCHANGED <<now, db, flusherVars>>

\* store takes the identifier out of the log and returns; also if the write has
\* failed, and then the record's last use is what the database says.
Unlog(t) ==
  /\ pc[t] \in {"stored", "not stored"}
  /\ accessLog' = [accessLog EXCEPT ![call[t].id] = Never]
  /\ lastUse' = [lastUse EXCEPT ![call[t].id] =
                   IF pc[t] = "stored" THEN call[t].began ELSE db[call[t].id]]
  /\ Leave(t)
  /\ UNCHANGED <<now, db, flusherVars>>

-----------------------------------------------------------------------------
SetWork(f, l) == work' = [work EXCEPT ![f] = l]

\* The listener's thread, or the maintenance after its sleep, enters updateAccess.
EnterUpdate(f) ==
  /\ work[f] \in {"start", "sleep"} /\ monitor = Free
  /\ monitor' = f
  /\ SetWork(f, "update")
  /\ usedBefore' = IF f = Maintenance THEN lastUse ELSE usedBefore
  /\ UNCHANGED <<now, db, accessLog, isRunning, done, lastUse, threadVars>>

\* updateAccess sets last_access for one identifier of the log.
UpdateOne(f, i) ==
  /\ work[f] = "update" /\ i \in Logged(accessLog) \ done[f]
  /\ db' = [db EXCEPT ![i] = IF @ = Never THEN Never ELSE accessLog[i]]
  /\ done' = [done EXCEPT ![f] = @ \cup {i}]
  /\ UNCHANGED <<now, accessLog, monitor, isRunning, work, lastUse, usedBefore, threadVars>>

\* Mutation: the identifiers that are done are removed at the first error, too,
\* with the one that failed.
UpdateErrorForgets(f) ==
  /\ UpdateErrors
  /\ work[f] = "update" /\ Logged(accessLog) \ done[f] # {}
  /\ accessLog' = [i \in Id |-> Never]
  /\ SetWork(f, IF f = Maintenance THEN "sleep" ELSE "end")
  /\ monitor' = Free
  /\ done' = [done EXCEPT ![f] = {}]
  /\ usedBefore' = IF f = Maintenance THEN [i \in Id |-> Never] ELSE usedBefore
  /\ UNCHANGED <<now, db, isRunning, lastUse, threadVars>>

\* A WriteResult has an error: updateAccess throws an ArchiveException and removes
\* nothing from the log; the maintenance will not expire this time.
UpdateError(f) ==
  /\ UpdateErrors
  /\ work[f] = "update" /\ Logged(accessLog) \ done[f] # {}
  /\ SetWork(f, IF f = Maintenance THEN "sleep" ELSE "end")
  /\ monitor' = Free
  /\ done' = [done EXCEPT ![f] = {}]
  /\ usedBefore' = IF f = Maintenance THEN [i \in Id |-> Never] ELSE usedBefore
  /\ UNCHANGED <<now, db, accessLog, isRunning, lastUse, threadVars>>

\* A MongoException ends the thread; the listener's isRunning remains true.
UpdateThrows(f) ==
  /\ Exceptions
  /\ work[f] = "update" /\ Logged(accessLog) \ done[f] # {}
  /\ SetWork(f, IF f = Maintenance THEN "dead" ELSE "off")
  /\ monitor' = Free
  /\ done' = [done EXCEPT ![f] = {}]
  /\ usedBefore' = IF f = Maintenance THEN [i \in Id |-> Never] ELSE usedBefore
  /\ UNCHANGED <<now, db, accessLog, isRunning, lastUse, threadVars>>

\* Mutation: what was done is not removed from the log.
EndUpdateKeepsLog(f) ==
  /\ work[f] = "update" /\ Logged(accessLog) \ done[f] = {}
  /\ SetWork(f, IF f = Maintenance THEN "expire" ELSE "end")
  /\ monitor' = Free
  /\ done' = [done EXCEPT ![f] = {}]
  /\ UNCHANGED <<now, db, accessLog, isRunning, lastUse, usedBefore, threadVars>>

\* updateAccess removes what it has done from the log.
EndUpdate(f) ==
  /\ work[f] = "update" /\ Logged(accessLog) \ done[f] = {}
  /\ accessLog' = [i \in Id |-> IF i \in done[f] THEN Never ELSE accessLog[i]]
  /\ SetWork(f, IF f = Maintenance THEN "expire" ELSE "end")
  /\ monitor' = Free
  /\ done' = [done EXCEPT ![f] = {}]
  /\ UNCHANGED <<now, db, isRunning, lastUse, usedBefore, threadVars>>

\* The end of DatabaseAccessListener.run.
EndListener(l) ==
  /\ work[l] = "end"
  /\ SetWork(l, "off")
  /\ isRunning' = FALSE
  /\ UNCHANGED <<now, db, accessLog, monitor, done, lastUse, usedBefore, threadVars>>

\* Mutation: the age is compared the wrong way at its boundary.
TooOldAtAge(i) == db[i] # Never /\ db[i] + ExpireAge <= now

TooOld(i) == db[i] # Never /\ db[i] + ExpireAge < now

\* expire, outside the monitor, removes whatever the database says is too old.
Expire ==
  /\ work[Maintenance] = "expire"
  /\ db' = [i \in Id |-> IF TooOld(i) THEN Never ELSE db[i]]
  /\ SetWork(Maintenance, "sleep")
  /\ lastUse' = [i \in Id |-> IF TooOld(i) THEN Never ELSE lastUse[i]]
  /\ usedBefore' = [i \in Id |-> Never]
  /\ UNCHANGED <<now, accessLog, monitor, isRunning, done, threadVars>>

\* The WriteResult has an error: an ArchiveException, which the maintenance logs.
ExpireError ==
  /\ UpdateErrors
  /\ work[Maintenance] = "expire"
  /\ SetWork(Maintenance, "sleep")
  /\ usedBefore' = [i \in Id |-> Never]
  /\ UNCHANGED <<now, db, accessLog, monitor, isRunning, done, lastUse, threadVars>>

\* A MongoException ends the maintenance thread.
ExpireThrows ==
  /\ Exceptions
  /\ work[Maintenance] = "expire"
  /\ SetWork(Maintenance, "dead")
  /\ usedBefore' = [i \in Id |-> Never]
  /\ UNCHANGED <<now, db, accessLog, monitor, isRunning, done, lastUse, threadVars>>

Tick ==
  /\ now < MaxTime
  /\ now' = now + 1
  /\ UNCHANGED <<db, accessLog, monitor, isRunning, work, done, lastUse, usedBefore, threadVars>>

ThreadStep(t) ==
  Find(t) \/ FindThrows(t) \/ Log(t) \/ Write(t) \/ WriteError(t) \/ WriteThrows(t) \/ Unlog(t)

FlusherStep(f) ==
  \/ \E i \in Id : UpdateOne(f, i)
  \/ UpdateError(f) \/ UpdateThrows(f) \/ EndUpdate(f)

Next ==
  \/ \E t \in Thread :
       \/ \E o \in {"get", "store"}, i \in Id : Enter(t, o, i)
       \/ ThreadStep(t)
  \/ \E f \in Flusher : EnterUpdate(f) \/ FlusherStep(f)
  \/ \E l \in Listener : EndListener(l)
  \/ Expire \/ ExpireError \/ ExpireThrows
  \/ Tick

Spec == Init /\ [][Next]_vars

\* Every thread that runs goes on, and whoever waits for the monitor while it is
\* free again and again enters it in the end.  Nobody needs to make a request.
FairSpec ==
  /\ Spec
  /\ \A t \in Thread : WF_vars(ThreadStep(t))
  /\ \A f \in Flusher : SF_vars(EnterUpdate(f)) /\ WF_vars(FlusherStep(f))
  /\ \A l \in Listener : WF_vars(EndListener(l))
  /\ WF_vars(Expire \/ ExpireError \/ ExpireThrows)

-----------------------------------------------------------------------------
TypeOK ==
  /\ now \in Time
  /\ db \in [Id -> Time \cup {Never}]
  /\ accessLog \in [Id -> Time \cup {Never}]
  /\ monitor \in Thread \cup Flusher \cup {Free}
  /\ pc \in [Thread -> Place]
  /\ call \in [Thread -> Calls]
  /\ isRunning \in BOOLEAN
  /\ work \in [Flusher -> Phase]
  /\ done \in [Flusher -> SUBSET Id]
  /\ lastUse \in [Id -> Time \cup {Never}]
  /\ usedBefore \in [Id -> Time \cup {Never}]

\* The listener never has two threads at work on the log, although update is
\* called from every getById and isRunning is reset outside the monitor.
OneUpdateThread ==
  \A l, m \in Listener : work[l] # "off" /\ work[m] # "off" => l = m

\* The last use of a record that is there is in the database or in the log: no
\* getById, store, update or failed update forgets it (a store whose write fails
\* does, by removing the access from the log: Unlog).
NoUseForgotten ==
  \A i \in Id : db[i] # Never => db[i] >= lastUse[i] \/ accessLog[i] >= lastUse[i]

\* A record is not expired for a use that the maintenance, which updates the access
\* times first, should have seen: one from before it began.
ExpiresOnlyLongUnused ==
  [][\A i \in Id : db[i] # Never /\ db'[i] = Never => usedBefore[i] + ExpireAge < now]_vars

\* Again and again the access log is short: an access that it holds is brought to
\* the database, unless updates go on failing or an exception has ended the
\* maintenance.
LongLogIsUpdated ==
  \/ []<>(Cardinality(Logged(accessLog)) <= UpdateCount)
  \/ []<><<\E f \in Flusher : UpdateError(f)>>_vars
  \/ <>[](work[Maintenance] = "dead")
=============================================================================

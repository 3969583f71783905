------------------------ MODULE DatabaseArchiveProofs ------------------------
(***************************************************************************)
(* Proofs about DatabaseArchive for any server threads, records and        *)
(* listener threads, any updatecount and expiretime, whatever fails.       *)
(***************************************************************************)
EXTENDS DatabaseArchive, TLAPS

\* The locals of a thread outside getById and store have their types too.
LEMMA NoCallType == NoCall \in Calls
BY ArchiveAssumption DEF NoCall, Calls, Time

\* Nobody is both a server thread and a flusher, and the free monitor is nobody's.
LEMMA Separate ==
  /\ Maintenance \in Flusher /\ Listener \subseteq Flusher /\ Maintenance \notin Listener
  /\ \A t \in Thread : t \notin Flusher /\ t # Free
  /\ \A f \in Flusher : f # Free
BY ArchiveAssumption DEF Flusher

\* The times are natural numbers, Never is none of them and before them all.
LEMMA Times ==
  /\ Never = 0 /\ ExpireAge \in Nat
  /\ \A c \in Time : c < MaxTime => c + 1 \in Time
  /\ \A c \in Time : c \in Nat /\ c # Never /\ c > 0
  /\ \A c \in Time \cup {Never} : c \in Nat
BY ArchiveAssumption DEF Time, Never

\* The fields of a call.
LEMMA CallFields ==
  /\ \A c \in Calls : c.id \in Id /\ c.began \in Time
  /\ \A c \in Calls, b \in BOOLEAN : [c EXCEPT !.found = b] \in Calls
  /\ \A o \in {"get", "store"}, i \in Id, b \in Time :
       [op |-> o, id |-> i, found |-> FALSE, began |-> b] \in Calls
BY DEF Calls

\* What most steps below need of the types.
Shape ==
  /\ now \in Nat
  /\ db \in [Id -> Nat] /\ accessLog \in [Id -> Nat]
  /\ lastUse \in [Id -> Nat] /\ usedBefore \in [Id -> Nat]
  /\ pc \in [Thread -> Place] /\ call \in [Thread -> Calls]
  /\ \A t \in Thread : call[t].id \in Id /\ call[t].began \in Nat \ {0}
  /\ work \in [Flusher -> Phase] /\ done \in [Flusher -> SUBSET Id]

\* It follows from the types.
LEMMA ShapeOfTypes == TypeOK => Shape
<1> SUFFICES ASSUME TypeOK PROVE Shape
  OBVIOUS
<1>1. now \in Nat
  BY Times DEF TypeOK
<1>2. db \in [Id -> Nat] /\ accessLog \in [Id -> Nat]
  BY Times DEF TypeOK
<1>3. lastUse \in [Id -> Nat] /\ usedBefore \in [Id -> Nat]
  BY Times DEF TypeOK
<1>4. ASSUME NEW t \in Thread PROVE call[t].id \in Id /\ call[t].began \in Nat \ {0}
  <2>1. call[t] \in Calls
    BY DEF TypeOK
  <2> QED
    BY <2>1, CallFields, Times
<1>5. /\ pc \in [Thread -> Place] /\ call \in [Thread -> Calls]
      /\ work \in [Flusher -> Phase] /\ done \in [Flusher -> SUBSET Id]
  BY DEF TypeOK
<1> QED
  BY <1>1, <1>2, <1>3, <1>4, <1>5 DEF Shape

-----------------------------------------------------------------------------
\* No action disturbs the types.
LEMMA NextTypeOK == TypeOK /\ [Next]_vars => TypeOK'
<1> SUFFICES ASSUME TypeOK, [Next]_vars PROVE TypeOK'
  OBVIOUS
<1>1. ASSUME NEW t \in Thread, NEW o \in {"get", "store"}, NEW i \in Id, Enter(t, o, i)
      PROVE  TypeOK'
  BY <1>1, CallFields, Separate DEF TypeOK, Place, Enter, Goto, flusherVars
<1>2. ASSUME NEW t \in Thread, Find(t) PROVE TypeOK'
  BY <1>2, CallFields DEF TypeOK, Place, Find, Goto, flusherVars
<1>3. ASSUME NEW t \in Thread, FindThrows(t) PROVE TypeOK'
  BY <1>3, NoCallType DEF TypeOK, Place, FindThrows, Leave, Goto, flusherVars
<1>4. ASSUME NEW t \in Thread, Log(t) PROVE TypeOK'
  <2>1. /\ accessLog' \in [Id -> Time \cup {Never}]
        /\ lastUse' \in [Id -> Time \cup {Never}]
    BY <1>4, CallFields DEF TypeOK, Log, Leave, Goto
  <2>2. isRunning' \in BOOLEAN /\ work' \in [Flusher -> Phase]
    BY <1>4 DEF TypeOK, Phase, Log, NotifyListener
  <2>3. /\ pc' \in [Thread -> Place]
        /\ call' \in [Thread -> Calls] /\ monitor' \in Thread \cup Flusher \cup {Free}
    BY <1>4, NoCallType DEF TypeOK, Place, Log, Leave, Goto
  <2> QED
    BY <1>4, <2>1, <2>2, <2>3 DEF TypeOK, Log
<1>5. ASSUME NEW t \in Thread, Write(t) PROVE TypeOK'
  BY <1>5, CallFields DEF TypeOK, Place, Write, Goto, flusherVars
<1>6. ASSUME NEW t \in Thread, WriteError(t) PROVE TypeOK'
  BY <1>6 DEF TypeOK, Place, WriteError, Goto, flusherVars
<1>7. ASSUME NEW t \in Thread, WriteThrows(t) PROVE TypeOK'
  BY <1>7, NoCallType DEF TypeOK, Place, WriteThrows, Leave, Goto, flusherVars
<1>8. ASSUME NEW t \in Thread, Unlog(t) PROVE TypeOK'
  <2>1. /\ accessLog' \in [Id -> Time \cup {Never}]
        /\ lastUse' \in [Id -> Time \cup {Never}]
    BY <1>8, CallFields DEF TypeOK, Unlog
  <2> QED
    BY <1>8, <2>1, NoCallType DEF TypeOK, Place, Unlog, Leave, Goto, flusherVars
<1>9. ASSUME NEW f \in Flusher, EnterUpdate(f) PROVE TypeOK'
  BY <1>9, Separate DEF TypeOK, Phase, EnterUpdate, SetWork, threadVars
<1>10. ASSUME NEW f \in Flusher, NEW i \in Id, UpdateOne(f, i) PROVE TypeOK'
  BY <1>10, Separate DEF TypeOK, UpdateOne, Logged, threadVars
<1>11. ASSUME NEW f \in Flusher, UpdateError(f) PROVE TypeOK'
  BY <1>11, Separate DEF TypeOK, Phase, UpdateError, SetWork, threadVars
<1>12. ASSUME NEW f \in Flusher, UpdateThrows(f) PROVE TypeOK'
  BY <1>12, Separate DEF TypeOK, Phase, UpdateThrows, SetWork, threadVars
<1>13. ASSUME NEW f \in Flusher, EndUpdate(f) PROVE TypeOK'
  BY <1>13, Separate DEF TypeOK, Phase, EndUpdate, SetWork, Logged, threadVars
<1>14. ASSUME NEW l \in Listener, EndListener(l) PROVE TypeOK'
  BY <1>14, Separate DEF TypeOK, Phase, EndListener, SetWork, threadVars
<1>15. ASSUME Expire PROVE TypeOK'
  BY <1>15, Separate DEF TypeOK, Phase, Expire, TooOld, SetWork, threadVars
<1>16. ASSUME ExpireError PROVE TypeOK'
  BY <1>16, Separate DEF TypeOK, Phase, ExpireError, SetWork, threadVars
<1>17. ASSUME ExpireThrows PROVE TypeOK'
  BY <1>17, Separate DEF TypeOK, Phase, ExpireThrows, SetWork, threadVars
<1>18. ASSUME Tick PROVE TypeOK'
  <2>1. now' \in Time
    BY <1>18, Times DEF TypeOK, Tick
  <2> QED
    BY <1>18, <2>1 DEF TypeOK, Tick, threadVars
<1>19. CASE UNCHANGED vars
  BY <1>19 DEF TypeOK, vars
<1> QED
  BY <1>1, <1>2, <1>3, <1>4, <1>5, <1>6, <1>7, <1>8, <1>9, <1>10, <1>11, <1>12, <1>13, <1>14,
     <1>15, <1>16, <1>17, <1>18, <1>19 DEF Next, ThreadStep, FlusherStep

\* Nothing is stored, logged or running at the start.
LEMMA InitTypeOK == Init => TypeOK
<1> SUFFICES ASSUME Init PROVE TypeOK
  OBVIOUS
<1>1. now \in Time
  BY ArchiveAssumption DEF Init, Time
<1>2. /\ db \in [Id -> Time \cup {Never}] /\ accessLog \in [Id -> Time \cup {Never}]
      /\ lastUse \in [Id -> Time \cup {Never}] /\ usedBefore \in [Id -> Time \cup {Never}]
  BY DEF Init
<1>3. /\ monitor \in Thread \cup Flusher \cup {Free} /\ isRunning \in BOOLEAN
      /\ work \in [Flusher -> Phase]
      /\ done \in [Flusher -> SUBSET Id]
  BY DEF Init, Phase
<1>4. /\ pc \in [Thread -> Place]
      /\ call \in [Thread -> Calls]
  BY NoCallType DEF Init, Place
<1> QED
  BY <1>1, <1>2, <1>3, <1>4 DEF TypeOK

\* Every variable keeps its type: the clock stops at its bound, and nothing in the
\* database or the log is later than that.
THEOREM TypeCorrect == Spec => []TypeOK
BY InitTypeOK, NextTypeOK, PTL DEF Spec

-----------------------------------------------------------------------------
\* While a listener's thread is alive, isRunning is true; the listener needs this
\* to know that it may not start another.
RunningIsNoted == \A l \in Listener : work[l] # "off" => isRunning

\* DatabaseAccessListener never has two threads at work, although isRunning is
\* tested in every getById and reset outside the monitor.
THEOREM ListenerRunsOnce == Spec => []OneUpdateThread
<1> DEFINE Inv == TypeOK /\ RunningIsNoted /\ OneUpdateThread
<1>1. Init => RunningIsNoted /\ OneUpdateThread
  BY Separate DEF Init, RunningIsNoted, OneUpdateThread
<1>2. Inv /\ [Next]_vars => RunningIsNoted' /\ OneUpdateThread'
  <2> SUFFICES ASSUME Inv, [Next]_vars PROVE RunningIsNoted' /\ OneUpdateThread'
    OBVIOUS
  <2> USE Separate DEF TypeOK, RunningIsNoted, OneUpdateThread
  <2>1. ASSUME NEW t \in Thread, Log(t) PROVE RunningIsNoted' /\ OneUpdateThread'
    BY <2>1 DEF Log, NotifyListener
  <2>2. ASSUME NEW l \in Listener, EndListener(l) PROVE RunningIsNoted' /\ OneUpdateThread'
    BY <2>2 DEF EndListener, SetWork
  <2>3. ASSUME NEW f \in Flusher, EnterUpdate(f) \/ FlusherStep(f), isRunning' = isRunning,
               \A l \in Listener : work'[l] = "off" \/ work[l] # "off"
        PROVE  RunningIsNoted' /\ OneUpdateThread'
    BY <2>3
  <2>4. ASSUME NEW f \in Flusher, EnterUpdate(f) \/ FlusherStep(f)
        PROVE  /\ isRunning' = isRunning
               /\ \A l \in Listener : work'[l] = "off" \/ work[l] # "off"
    BY <2>4 DEF EnterUpdate, FlusherStep, UpdateOne, UpdateError, UpdateThrows, EndUpdate, SetWork
  <2>5. CASE Expire \/ ExpireError \/ ExpireThrows
    BY <2>5 DEF Expire, ExpireError, ExpireThrows, SetWork
  <2>6. ASSUME UNCHANGED <<isRunning, work>> PROVE RunningIsNoted' /\ OneUpdateThread'
    BY <2>6
  <2>7. CASE UNCHANGED vars \/ Tick
    BY <2>6, <2>7 DEF vars, Tick
  <2>8. ASSUME NEW t \in Thread, NEW o \in {"get", "store"}, NEW i \in Id, Enter(t, o, i)
        PROVE  RunningIsNoted' /\ OneUpdateThread'
    BY <2>6, <2>8 DEF Enter, flusherVars
  <2>9. ASSUME NEW t \in Thread,
               Find(t) \/ FindThrows(t) \/ Write(t) \/ WriteError(t) \/ WriteThrows(t) \/ Unlog(t)
        PROVE  RunningIsNoted' /\ OneUpdateThread'
    BY <2>6, <2>9 DEF Find, FindThrows, Write, WriteError, WriteThrows, Unlog, flusherVars
  <2>10. ASSUME NEW f \in Flusher, EnterUpdate(f) \/ FlusherStep(f)
         PROVE  RunningIsNoted' /\ OneUpdateThread'
    BY <2>3, <2>4, <2>10
  <2> QED
    <3> HIDE DEF RunningIsNoted, OneUpdateThread, TypeOK
    <3> QED
      BY <2>1, <2>2, <2>5, <2>7, <2>8, <2>9, <2>10 DEF Next, ThreadStep
<1> QED
  BY <1>1, <1>2, TypeCorrect, PTL DEF Spec

-----------------------------------------------------------------------------
\* Whoever is in a synchronized method of the store has its monitor.
InMonitor ==
  /\ \A t \in Thread : pc[t] # "idle" => monitor = t
  /\ \A f \in Flusher : work[f] = "update" => monitor = f

\* The log is never behind the last use.
LogIsCurrent ==
  \A i \in Id : accessLog[i] # Never =>
    accessLog[i] >= lastUse[i] /\ accessLog[i] >= usedBefore[i]

\* What the histories, the database and the log remember is in the past.
UsesArePast ==
  \A i \in Id :
    /\ usedBefore[i] <= now /\ lastUse[i] <= now /\ db[i] <= now /\ accessLog[i] <= now
    /\ work[Maintenance] = "update" => usedBefore[i] <= lastUse[i]

\* While a thread is in the monitor, nothing is used after it began.
CallsAreRecent ==
  \A t \in Thread : pc[t] # "idle" =>
    /\ call[t].began <= now
    /\ \A i \in Id : lastUse[i] <= call[t].began /\ usedBefore[i] <= call[t].began

\* What store has written is there, unless it has expired.
StoreIsWritten ==
  \A t \in Thread : pc[t] = "stored" => db[call[t].id] \in {Never, call[t].began}

\* What updateAccess will remove from the log is in the database.
DoneIsInDatabase ==
  \A f \in Flusher :
    /\ work[f] # "update" => done[f] = {}
    /\ \A i \in done[f] : accessLog[i] # Never /\ db[i] \in {Never, accessLog[i]}

\* When the maintenance expires, the database knows the uses from before it began.
MaintenanceSees ==
  work[Maintenance] = "expire" => \A i \in Id : db[i] # Never => db[i] >= usedBefore[i]

(***************************************************************************)
(* The inductive invariant for NoUseForgotten.  That removing what is done *)
(* from the log forgets no use is DoneIsInDatabase, which is preserved     *)
(* because only the thread in the monitor writes; that store may remove    *)
(* its entry is StoreIsWritten and CallsAreRecent.                         *)
(***************************************************************************)
UseInv ==
  /\ TypeOK /\ InMonitor /\ LogIsCurrent /\ NoUseForgotten /\ UsesArePast
  /\ CallsAreRecent /\ StoreIsWritten /\ DoneIsInDatabase /\ MaintenanceSees

\* At the start the database and the log are empty.
LEMMA InitUseInv == Init => UseInv
<1> SUFFICES ASSUME Init PROVE UseInv
  OBVIOUS
<1> USE Separate, Times DEF Init
<1>1. TypeOK
  BY InitTypeOK
<1>2. InMonitor /\ LogIsCurrent /\ NoUseForgotten /\ UsesArePast
  BY DEF InMonitor, LogIsCurrent, NoUseForgotten, UsesArePast
<1>3. CallsAreRecent /\ StoreIsWritten /\ DoneIsInDatabase /\ MaintenanceSees
  BY DEF CallsAreRecent, StoreIsWritten, DoneIsInDatabase, MaintenanceSees
<1> QED
  BY <1>1, <1>2, <1>3 DEF UseInv

\* Every action preserves it.
LEMMA NextUseInv == UseInv /\ [Next]_vars => UseInv'
<1> SUFFICES ASSUME UseInv, [Next]_vars PROVE UseInv'
  OBVIOUS
<1>0. TypeOK' /\ Shape
  BY NextTypeOK, ShapeOfTypes DEF UseInv
<1>1. ASSUME NEW t \in Thread, NEW o \in {"get", "store"}, NEW i \in Id, Enter(t, o, i)
      PROVE  UseInv'
  <2>1. InMonitor'
    BY <1>1, <1>0, Separate DEF UseInv, Shape, InMonitor, Enter, Goto, flusherVars
  <2>2. CallsAreRecent'
    BY <1>1, <1>0, Separate DEF UseInv, Shape, CallsAreRecent, UsesArePast, Never, Enter, Goto,
      flusherVars
  <2>3. StoreIsWritten'
    BY <1>1, <1>0, Separate DEF UseInv, Shape, StoreIsWritten, Never, Enter, Goto, flusherVars
  <2>4. TypeOK'
    BY <1>0
  <2>5. LogIsCurrent' /\ NoUseForgotten' /\ UsesArePast' /\ DoneIsInDatabase' /\ MaintenanceSees'
    BY <1>1 DEF UseInv, LogIsCurrent, NoUseForgotten, UsesArePast, DoneIsInDatabase,
      MaintenanceSees, Enter, Goto, flusherVars
  <2> QED
    BY <2>1, <2>2, <2>3, <2>4, <2>5 DEF UseInv
<1>2. ASSUME NEW t \in Thread, Find(t) PROVE UseInv'
  <2>1. InMonitor'
    BY <1>2, <1>0, Separate DEF UseInv, Shape, InMonitor, Find, Goto, flusherVars
  <2>2. CallsAreRecent'
    BY <1>2, <1>0, Separate DEF UseInv, Shape, CallsAreRecent, Never, Find, Goto, flusherVars
  <2>3. StoreIsWritten'
    BY <1>2, <1>0, Separate DEF UseInv, Shape, StoreIsWritten, Never, Find, Goto, flusherVars
  <2>4. TypeOK'
    BY <1>0
  <2>5. LogIsCurrent' /\ NoUseForgotten' /\ UsesArePast' /\ DoneIsInDatabase' /\ MaintenanceSees'
    BY <1>2 DEF UseInv, LogIsCurrent, NoUseForgotten, UsesArePast, DoneIsInDatabase,
      MaintenanceSees, Find, Goto, flusherVars
  <2> QED
    BY <2>1, <2>2, <2>3, <2>4, <2>5 DEF UseInv
<1>3. ASSUME NEW t \in Thread, FindThrows(t) PROVE UseInv'
  <2>1. InMonitor'
    BY <1>3, <1>0, Separate DEF UseInv, Shape, InMonitor, FindThrows, Leave, Goto, flusherVars
  <2>2. CallsAreRecent'
    BY <1>3, <1>0, Separate DEF UseInv, Shape, CallsAreRecent, Never, FindThrows, Leave, Goto,
      flusherVars
  <2>3. StoreIsWritten'
    BY <1>3, <1>0, Separate DEF UseInv, Shape, StoreIsWritten, Never, FindThrows, Leave, Goto,
      flusherVars
  <2>4. TypeOK'
    BY <1>0
  <2>5. LogIsCurrent' /\ NoUseForgotten' /\ UsesArePast' /\ DoneIsInDatabase' /\ MaintenanceSees'
    BY <1>3 DEF UseInv, LogIsCurrent, NoUseForgotten, UsesArePast, DoneIsInDatabase,
      MaintenanceSees, FindThrows, Leave, Goto, flusherVars
  <2> QED
    BY <2>1, <2>2, <2>3, <2>4, <2>5 DEF UseInv
<1>4. ASSUME NEW t \in Thread, Log(t) PROVE UseInv'
  <2>1. InMonitor'
    BY <1>4, <1>0, Separate DEF UseInv, Shape, InMonitor, Log, NotifyListener, Leave, Goto
  <2>2. LogIsCurrent'
    BY <1>4, <1>0 DEF UseInv, Shape, LogIsCurrent, UsesArePast, Never, Log, NotifyListener,
      Leave, Goto
  <2>3. NoUseForgotten'
    BY <1>4, <1>0 DEF UseInv, Shape, NoUseForgotten, UsesArePast, Never, Log, NotifyListener,
      Leave, Goto
  <2>4. UsesArePast'
    BY <1>4, <1>0, Separate DEF UseInv, Shape, UsesArePast, Never, Log, NotifyListener, Leave, Goto
  <2>5. CallsAreRecent'
    BY <1>4, <1>0, Separate DEF UseInv, Shape, CallsAreRecent, InMonitor, Never, Log,
      NotifyListener, Leave, Goto
  <2>6. StoreIsWritten'
    BY <1>4, <1>0, Separate DEF UseInv, Shape, StoreIsWritten, Never, Log, NotifyListener, Leave,
      Goto
  <2>7. DoneIsInDatabase'
    BY <1>4, <1>0, Separate DEF UseInv, Shape, DoneIsInDatabase, InMonitor, Never, Log,
      NotifyListener, Leave, Goto
  <2>8. MaintenanceSees'
    BY <1>4, <1>0, Separate DEF UseInv, Shape, MaintenanceSees, Never, Log, NotifyListener,
      Leave, Goto
  <2>9. TypeOK'
    BY <1>0
  <2> QED
    BY <2>1, <2>2, <2>3, <2>4, <2>5, <2>6, <2>7, <2>8, <2>9 DEF UseInv
<1>5. ASSUME NEW t \in Thread, Write(t) PROVE UseInv'
  <2>1. InMonitor'
    BY <1>5, <1>0, Separate DEF UseInv, Shape, InMonitor, Write, Goto, flusherVars
  <2>2. NoUseForgotten'
    BY <1>5, <1>0 DEF UseInv, Shape, NoUseForgotten, CallsAreRecent, Never, Write, Goto,
      flusherVars
  <2>3. CallsAreRecent'
    BY <1>5, <1>0, Separate DEF UseInv, Shape, CallsAreRecent, Never, Write, Goto, flusherVars
  <2>4. StoreIsWritten'
    BY <1>5, <1>0, Separate DEF UseInv, Shape, StoreIsWritten, InMonitor, Never, Write, Goto,
      flusherVars
  <2>5. DoneIsInDatabase'
    BY <1>5, <1>0, Separate DEF UseInv, Shape, DoneIsInDatabase, InMonitor, Never, Write, Goto,
      flusherVars
  <2>6. MaintenanceSees'
    BY <1>5, <1>0, Separate DEF UseInv, Shape, MaintenanceSees, CallsAreRecent, UsesArePast,
      Never, Write, Goto, flusherVars
  <2>7. TypeOK'
    BY <1>0
  <2>8. LogIsCurrent'
    BY <1>5 DEF UseInv, LogIsCurrent, Write, Goto, flusherVars
  <2>9. UsesArePast'
    BY <1>5, <1>0 DEF UseInv, Shape, UsesArePast, CallsAreRecent, Never, Write, Goto, flusherVars
  <2> QED
    BY <2>1, <2>2, <2>3, <2>4, <2>5, <2>6, <2>7, <2>8, <2>9 DEF UseInv
<1>6. ASSUME NEW t \in Thread, WriteThrows(t) PROVE UseInv'
  <2>1. InMonitor'
    BY <1>6, <1>0, Separate DEF UseInv, Shape, InMonitor, WriteThrows, Leave, Goto, flusherVars
  <2>2. CallsAreRecent'
    BY <1>6, <1>0, Separate DEF UseInv, Shape, CallsAreRecent, Never, WriteThrows, Leave, Goto,
      flusherVars
  <2>3. StoreIsWritten'
    BY <1>6, <1>0, Separate DEF UseInv, Shape, StoreIsWritten, Never, WriteThrows, Leave, Goto,
      flusherVars
  <2>4. TypeOK'
    BY <1>0
  <2>5. LogIsCurrent' /\ NoUseForgotten' /\ UsesArePast' /\ DoneIsInDatabase' /\ MaintenanceSees'
    BY <1>6 DEF UseInv, LogIsCurrent, NoUseForgotten, UsesArePast, DoneIsInDatabase,
      MaintenanceSees, WriteThrows, Leave, Goto, flusherVars
  <2> QED
    BY <2>1, <2>2, <2>3, <2>4, <2>5 DEF UseInv
<1>7. ASSUME NEW t \in Thread, Unlog(t) PROVE UseInv'
  <2>0. /\ pc[t] # "idle" /\ monitor = t
        /\ lastUse' = [lastUse EXCEPT ![call[t].id] =
                         IF pc[t] = "stored" THEN call[t].began ELSE db[call[t].id]]
        /\ accessLog' = [accessLog EXCEPT ![call[t].id] = Never]
        /\ \A u \in Thread \ {t} : pc[u] = "idle"
        /\ \A f \in Flusher : work[f] # "update"
        /\ call[t].began <= now /\ \A i \in Id : lastUse[i] <= call[t].began
        /\ pc[t] = "stored" => db[call[t].id] \in {Never, call[t].began}
    <3>1. /\ pc[t] \in {"stored", "not stored"} /\ pc[t] # "idle"
          /\ lastUse' = [lastUse EXCEPT ![call[t].id] =
                           IF pc[t] = "stored" THEN call[t].began ELSE db[call[t].id]]
          /\ accessLog' = [accessLog EXCEPT ![call[t].id] = Never]
      BY <1>7 DEF Unlog
    <3>2. /\ monitor = t
          /\ \A u \in Thread \ {t} : pc[u] = "idle"
          /\ \A f \in Flusher : work[f] # "update"
      BY <1>0, <3>1, Separate DEF UseInv, InMonitor
    <3>3. call[t].began <= now /\ \A i \in Id : lastUse[i] <= call[t].began
      BY <1>0, <3>1 DEF UseInv, CallsAreRecent
    <3>4. pc[t] = "stored" => db[call[t].id] \in {Never, call[t].began}
      BY <1>0 DEF UseInv, StoreIsWritten
    <3> QED
      BY <3>1, <3>2, <3>3, <3>4
  <2>1. InMonitor'
    <3>1. work' = work /\ pc' = [pc EXCEPT ![t] = "idle"]
      BY <1>7 DEF Unlog, Leave, Goto, flusherVars
    <3>2. \A u \in Thread : pc'[u] = "idle"
      BY <2>0, <3>1, <1>0 DEF Shape
    <3> QED
      BY <2>0, <3>1, <3>2 DEF InMonitor
  <2>2. LogIsCurrent'
    BY <1>7, <2>0, <1>0 DEF UseInv, Shape, LogIsCurrent, Never, Unlog, Leave, Goto, flusherVars
  <2>10. /\ db' = db /\ now' = now /\ usedBefore' = usedBefore /\ work' = work
         /\ \A i \in Id : i # call[t].id => lastUse'[i] = lastUse[i] /\ accessLog'[i] = accessLog[i]
         /\ accessLog'[call[t].id] = Never
         /\ pc[t] = "stored" => lastUse'[call[t].id] = call[t].began
         /\ pc[t] # "stored" => lastUse'[call[t].id] = db[call[t].id]
    BY <1>7, <2>0, <1>0 DEF Shape, Unlog, flusherVars
  <2>3. NoUseForgotten'
    <3> SUFFICES ASSUME NEW i \in Id, db[i] # Never
                 PROVE  db[i] >= lastUse'[i] \/ accessLog'[i] >= lastUse'[i]
      BY <2>10 DEF NoUseForgotten
    <3>1. CASE i # call[t].id
      BY <3>1, <2>10 DEF UseInv, NoUseForgotten
    <3>2. CASE i = call[t].id
      BY <3>2, <2>0, <2>10, <1>0 DEF Shape
    <3> QED
      BY <3>1, <3>2
  <2>4. UsesArePast'
    BY <2>0, <2>10, <1>0, Separate DEF UseInv, Shape, UsesArePast, Never
  <2>5. CallsAreRecent'
    BY <1>7, <2>0, <1>0, Separate DEF UseInv, Shape, CallsAreRecent, Never, Unlog, Leave, Goto,
      flusherVars
  <2>6. StoreIsWritten'
    BY <1>7, <2>0, <1>0, Separate DEF UseInv, Shape, StoreIsWritten, Never, Unlog, Leave, Goto,
      flusherVars
  <2>7. DoneIsInDatabase'
    BY <1>7, <2>0, <1>0, Separate DEF UseInv, Shape, DoneIsInDatabase, Never, Unlog, Leave, Goto,
      flusherVars
  <2>8. TypeOK'
    BY <1>0
  <2>9. MaintenanceSees'
    BY <1>7 DEF UseInv, MaintenanceSees, Unlog, Leave, Goto, flusherVars
  <2> QED
    BY <2>1, <2>2, <2>3, <2>4, <2>5, <2>6, <2>7, <2>8, <2>9 DEF UseInv
<1>8. ASSUME NEW f \in Flusher, EnterUpdate(f) PROVE UseInv'
  <2>1. InMonitor'
    BY <1>8, <1>0, Separate DEF UseInv, Shape, InMonitor, EnterUpdate, SetWork, threadVars
  <2>2. UsesArePast'
    BY <1>8, <1>0 DEF UseInv, Shape, UsesArePast, Never, EnterUpdate, SetWork, threadVars
  <2>3. DoneIsInDatabase'
    BY <1>8, <1>0, Separate DEF UseInv, Shape, DoneIsInDatabase, Never, EnterUpdate, SetWork,
      threadVars
  <2>4. MaintenanceSees'
    BY <1>8, <1>0, Separate DEF UseInv, Shape, MaintenanceSees, Never, EnterUpdate, SetWork,
      threadVars
  <2>5. TypeOK'
    BY <1>0
  <2>6. NoUseForgotten' /\ StoreIsWritten'
    BY <1>8 DEF UseInv, NoUseForgotten, StoreIsWritten, EnterUpdate, SetWork, threadVars
  <2>7. LogIsCurrent'
    BY <1>8, <1>0 DEF UseInv, Shape, LogIsCurrent, Never, EnterUpdate, SetWork, threadVars
  <2>8. CallsAreRecent'
    BY <1>8, <1>0, Separate DEF UseInv, Shape, CallsAreRecent, InMonitor, Never, EnterUpdate,
      SetWork, threadVars
  <2> QED
    BY <2>1, <2>2, <2>3, <2>4, <2>5, <2>6, <2>7, <2>8 DEF UseInv
<1>9. ASSUME NEW f \in Flusher, NEW i \in Id, UpdateOne(f, i) PROVE UseInv'
  <2>1. NoUseForgotten'
    BY <1>9, <1>0 DEF UseInv, Shape, NoUseForgotten, LogIsCurrent, Never, UpdateOne, Logged,
      threadVars
  <2>2. StoreIsWritten'
    BY <1>9, <1>0, Separate DEF UseInv, Shape, StoreIsWritten, InMonitor, Never, UpdateOne,
      Logged, threadVars
  <2>3. DoneIsInDatabase'
    BY <1>9, <1>0, Separate DEF UseInv, Shape, DoneIsInDatabase, InMonitor, Never, UpdateOne,
      Logged, threadVars
  <2>4. MaintenanceSees'
    BY <1>9, <1>0, Separate DEF UseInv, Shape, MaintenanceSees, LogIsCurrent, UsesArePast, Never,
      UpdateOne, Logged, threadVars
  <2>5. TypeOK'
    BY <1>0
  <2>6. InMonitor' /\ LogIsCurrent' /\ CallsAreRecent'
    BY <1>9 DEF UseInv, InMonitor, LogIsCurrent, CallsAreRecent, UpdateOne, Logged, threadVars
  <2>7. UsesArePast'
    BY <1>9, <1>0 DEF UseInv, Shape, UsesArePast, Never, UpdateOne, Logged, threadVars
  <2> QED
    BY <2>1, <2>2, <2>3, <2>4, <2>5, <2>6, <2>7 DEF UseInv
<1>10. ASSUME NEW f \in Flusher, UpdateError(f) PROVE UseInv'
  <2>1. InMonitor'
    BY <1>10, <1>0, Separate DEF UseInv, Shape, InMonitor, UpdateError, SetWork, threadVars
  <2>2. DoneIsInDatabase'
    BY <1>10, <1>0, Separate DEF UseInv, Shape, DoneIsInDatabase, Never, UpdateError, SetWork,
      threadVars
  <2>3. MaintenanceSees'
    BY <1>10, <1>0, Separate DEF UseInv, Shape, MaintenanceSees, Never, UpdateError, SetWork,
      threadVars
  <2>4. TypeOK'
    BY <1>0
  <2>5. NoUseForgotten' /\ StoreIsWritten'
    BY <1>10 DEF UseInv, NoUseForgotten, StoreIsWritten, UpdateError, SetWork, threadVars
  <2>6. LogIsCurrent'
    BY <1>10, <1>0 DEF UseInv, Shape, LogIsCurrent, Never, UpdateError, SetWork, threadVars
  <2>7. UsesArePast'
    BY <1>10, <1>0, Separate DEF UseInv, Shape, UsesArePast, Never, UpdateError, SetWork, threadVars
  <2>8. CallsAreRecent'
    BY <1>10, <1>0, Separate DEF UseInv, Shape, CallsAreRecent, Never, UpdateError, SetWork, threadVars
  <2> QED
    BY <2>1, <2>2, <2>3, <2>4, <2>5, <2>6, <2>7, <2>8 DEF UseInv
<1>11. ASSUME NEW f \in Flusher, UpdateThrows(f) PROVE UseInv'
  <2>1. InMonitor'
    BY <1>11, <1>0, Separate DEF UseInv, Shape, InMonitor, UpdateThrows, SetWork, threadVars
  <2>2. DoneIsInDatabase'
    BY <1>11, <1>0, Separate DEF UseInv, Shape, DoneIsInDatabase, Never, UpdateThrows, SetWork,
      threadVars
  <2>3. MaintenanceSees'
    BY <1>11, <1>0, Separate DEF UseInv, Shape, MaintenanceSees, Never, UpdateThrows, SetWork,
      threadVars
  <2>4. TypeOK'
    BY <1>0
  <2>5. NoUseForgotten' /\ StoreIsWritten'
    BY <1>11 DEF UseInv, NoUseForgotten, StoreIsWritten, UpdateThrows, SetWork, threadVars
  <2>6. LogIsCurrent'
    BY <1>11, <1>0 DEF UseInv, Shape, LogIsCurrent, Never, UpdateThrows, SetWork, threadVars
  <2>7. UsesArePast'
    BY <1>11, <1>0, Separate DEF UseInv, Shape, UsesArePast, Never, UpdateThrows, SetWork, threadVars
  <2>8. CallsAreRecent'
    BY <1>11, <1>0, Separate DEF UseInv, Shape, CallsAreRecent, Never, UpdateThrows, SetWork, threadVars
  <2> QED
    BY <2>1, <2>2, <2>3, <2>4, <2>5, <2>6, <2>7, <2>8 DEF UseInv
<1>12. ASSUME NEW f \in Flusher, EndUpdate(f) PROVE UseInv'
  <2>1. InMonitor'
    BY <1>12, <1>0, Separate DEF UseInv, Shape, InMonitor, EndUpdate, SetWork, Logged, threadVars
  <2>2. LogIsCurrent'
    BY <1>12, <1>0 DEF UseInv, Shape, LogIsCurrent, Never, EndUpdate, SetWork, Logged, threadVars
  <2>3. NoUseForgotten'
    BY <1>12, <1>0 DEF UseInv, Shape, NoUseForgotten, LogIsCurrent, DoneIsInDatabase, Never,
      EndUpdate, SetWork, Logged, threadVars
  <2>4. DoneIsInDatabase'
    BY <1>12, <1>0, Separate DEF UseInv, Shape, DoneIsInDatabase, InMonitor, Never, EndUpdate,
      SetWork, Logged, threadVars
  <2>5. MaintenanceSees'
    BY <1>12, <1>0, Separate DEF UseInv, Shape, MaintenanceSees, NoUseForgotten, LogIsCurrent,
      DoneIsInDatabase, UsesArePast, Never, EndUpdate, SetWork, Logged, threadVars
  <2>6. TypeOK'
    BY <1>0
  <2>7. CallsAreRecent' /\ StoreIsWritten'
    BY <1>12 DEF UseInv, CallsAreRecent, StoreIsWritten, EndUpdate, SetWork, Logged, threadVars
  <2>8. UsesArePast'
    BY <1>12, <1>0 DEF UseInv, Shape, UsesArePast, Never, EndUpdate, SetWork, Logged, threadVars
  <2> QED
    BY <2>1, <2>2, <2>3, <2>4, <2>5, <2>6, <2>7, <2>8 DEF UseInv
<1>13. ASSUME NEW l \in Listener, EndListener(l) PROVE UseInv'
  <2>1. InMonitor'
    BY <1>13, <1>0, Separate DEF UseInv, Shape, InMonitor, EndListener, SetWork, threadVars
  <2>2. DoneIsInDatabase'
    BY <1>13, <1>0, Separate DEF UseInv, Shape, DoneIsInDatabase, Never, EndListener, SetWork,
      threadVars
  <2>3. MaintenanceSees'
    BY <1>13, <1>0, Separate DEF UseInv, Shape, MaintenanceSees, Never, EndListener, SetWork,
      threadVars
  <2>4. TypeOK'
    BY <1>0
  <2>5. LogIsCurrent' /\ NoUseForgotten' /\ UsesArePast' /\ CallsAreRecent' /\ StoreIsWritten'
    BY <1>13 DEF UseInv, LogIsCurrent, NoUseForgotten, UsesArePast, CallsAreRecent,
      StoreIsWritten, EndListener, SetWork, threadVars
  <2> QED
    BY <2>1, <2>2, <2>3, <2>4, <2>5 DEF UseInv
<1>14. ASSUME Expire PROVE UseInv'
  <2>1. InMonitor'
    BY <1>14, <1>0, Separate DEF UseInv, Shape, InMonitor, Expire, TooOld, SetWork, threadVars
  <2>2. LogIsCurrent'
    BY <1>14, <1>0 DEF UseInv, Shape, LogIsCurrent, Never, Expire, TooOld, SetWork, threadVars
  <2>3. NoUseForgotten'
    BY <1>14, <1>0 DEF UseInv, Shape, NoUseForgotten, Never, Expire, TooOld, SetWork, threadVars
  <2>4. UsesArePast'
    BY <1>14, <1>0 DEF UseInv, Shape, UsesArePast, Never, Expire, TooOld, SetWork, threadVars
  <2>5. CallsAreRecent'
    BY <1>14, <1>0, Separate DEF UseInv, Shape, CallsAreRecent, Never, Expire, TooOld, SetWork,
      threadVars
  <2>6. StoreIsWritten'
    BY <1>14, <1>0, Separate DEF UseInv, Shape, StoreIsWritten, Never, Expire, TooOld, SetWork,
      threadVars
  <2>7. DoneIsInDatabase'
    BY <1>14, <1>0, Separate DEF UseInv, Shape, DoneIsInDatabase, Never, Expire, TooOld, SetWork,
      threadVars
  <2>8. MaintenanceSees'
    BY <1>14, <1>0, Separate DEF UseInv, Shape, MaintenanceSees, Never, Expire, TooOld, SetWork,
      threadVars
  <2>9. TypeOK'
    BY <1>0
  <2> QED
    BY <2>1, <2>2, <2>3, <2>4, <2>5, <2>6, <2>7, <2>8, <2>9 DEF UseInv
<1>15. ASSUME ExpireError PROVE UseInv'
  <2>1. InMonitor'
    BY <1>15, <1>0, Separate DEF UseInv, Shape, InMonitor, ExpireError, SetWork, threadVars
  <2>2. UsesArePast'
    BY <1>15, <1>0 DEF UseInv, Shape, UsesArePast, Never, ExpireError, SetWork, threadVars
  <2>3. DoneIsInDatabase'
    BY <1>15, <1>0, Separate DEF UseInv, Shape, DoneIsInDatabase, Never, ExpireError, SetWork,
      threadVars
  <2>4. MaintenanceSees'
    BY <1>15, <1>0, Separate DEF UseInv, Shape, MaintenanceSees, Never, ExpireError, SetWork,
      threadVars
  <2>5. TypeOK'
    BY <1>0
  <2>6. NoUseForgotten' /\ StoreIsWritten'
    BY <1>15 DEF UseInv, NoUseForgotten, StoreIsWritten, ExpireError, SetWork, threadVars
  <2>7. LogIsCurrent'
    BY <1>15, <1>0 DEF UseInv, Shape, LogIsCurrent, Never, ExpireError, SetWork, threadVars
  <2>8. CallsAreRecent'
    BY <1>15, <1>0, Separate DEF UseInv, Shape, CallsAreRecent, Never, ExpireError, SetWork,
      threadVars
  <2> QED
    BY <2>1, <2>2, <2>3, <2>4, <2>5, <2>6, <2>7, <2>8 DEF UseInv
<1>16. ASSUME ExpireThrows PROVE UseInv'
  <2>1. InMonitor'
    BY <1>16, <1>0, Separate DEF UseInv, Shape, InMonitor, ExpireThrows, SetWork, threadVars
  <2>2. DoneIsInDatabase'
    BY <1>16, <1>0, Separate DEF UseInv, Shape, DoneIsInDatabase, Never, ExpireThrows, SetWork,
      threadVars
  <2>3. MaintenanceSees'
    BY <1>16, <1>0, Separate DEF UseInv, Shape, MaintenanceSees, Never, ExpireThrows, SetWork,
      threadVars
  <2>4. TypeOK'
    BY <1>0
  <2>5. NoUseForgotten' /\ StoreIsWritten'
    BY <1>16 DEF UseInv, NoUseForgotten, StoreIsWritten, ExpireThrows, SetWork, threadVars
  <2>6. LogIsCurrent'
    BY <1>16, <1>0 DEF UseInv, Shape, LogIsCurrent, Never, ExpireThrows, SetWork, threadVars
  <2>7. UsesArePast'
    BY <1>16, <1>0, Separate DEF UseInv, Shape, UsesArePast, Never, ExpireThrows, SetWork, threadVars
  <2>8. CallsAreRecent'
    BY <1>16, <1>0, Separate DEF UseInv, Shape, CallsAreRecent, Never, ExpireThrows, SetWork, threadVars
  <2> QED
    BY <2>1, <2>2, <2>3, <2>4, <2>5, <2>6, <2>7, <2>8 DEF UseInv
<1>17. ASSUME Tick PROVE UseInv'
  <2>1. UsesArePast'
    BY <1>17, <1>0 DEF UseInv, Shape, UsesArePast, Never, Tick, threadVars
  <2>2. CallsAreRecent'
    BY <1>17, <1>0, Separate DEF UseInv, Shape, CallsAreRecent, Never, Tick, threadVars
  <2>3. TypeOK'
    BY <1>0
  <2>4. /\ InMonitor' /\ LogIsCurrent' /\ NoUseForgotten'
        /\ StoreIsWritten' /\ DoneIsInDatabase' /\ MaintenanceSees'
    BY <1>17 DEF UseInv, InMonitor, LogIsCurrent, NoUseForgotten, StoreIsWritten,
      DoneIsInDatabase, MaintenanceSees, Tick, threadVars
  <2> QED
    BY <2>1, <2>2, <2>3, <2>4 DEF UseInv
<1>18. CASE UNCHANGED vars
  BY <1>18 DEF vars, UseInv, TypeOK, InMonitor, LogIsCurrent, NoUseForgotten, UsesArePast,
     CallsAreRecent, StoreIsWritten, DoneIsInDatabase, MaintenanceSees
<1>19. ASSUME NEW t \in Thread, WriteError(t) PROVE UseInv'
  <2>1. InMonitor'
    BY <1>19, <1>0, Separate DEF UseInv, Shape, InMonitor, WriteError, Goto, flusherVars
  <2>2. CallsAreRecent'
    BY <1>19, <1>0, Separate DEF UseInv, Shape, CallsAreRecent, Never, WriteError, Goto, flusherVars
  <2>3. StoreIsWritten'
    BY <1>19, <1>0, Separate DEF UseInv, Shape, StoreIsWritten, Never, WriteError, Goto, flusherVars
  <2>4. TypeOK'
    BY <1>0
  <2>5. LogIsCurrent' /\ NoUseForgotten' /\ UsesArePast' /\ DoneIsInDatabase' /\ MaintenanceSees'
    BY <1>19 DEF UseInv, LogIsCurrent, NoUseForgotten, UsesArePast, DoneIsInDatabase,
      MaintenanceSees, WriteError, Goto, flusherVars
  <2> QED
    BY <2>1, <2>2, <2>3, <2>4, <2>5 DEF UseInv
<1> QED
  BY <1>1, <1>2, <1>3, <1>4, <1>5, <1>6, <1>7, <1>8, <1>9, <1>10, <1>11, <1>12, <1>13, <1>14,
     <1>15, <1>16, <1>17, <1>18, <1>19 DEF Next, ThreadStep, FlusherStep

\* No use of a record is ever forgotten, whichever updates, queries and expirations
\* fail or throw.
THEOREM UseRemembered == Spec => []NoUseForgotten
<1>1. UseInv /\ [Next]_vars => UseInv'
  BY NextUseInv
<1>2. UseInv => NoUseForgotten
  BY DEF UseInv
<1> QED
  BY InitUseInv, <1>1, <1>2, PTL DEF Spec

\* expire removes no record whose last use the maintenance, which updates the access
\* times first, should have seen, although expire does not take the monitor.
THEOREM ExpiryJustified == Spec => ExpiresOnlyLongUnused
<1>1. UseInv /\ [Next]_vars => UseInv'
  BY NextUseInv
<1>2. UseInv /\ [Next]_vars =>
        [\A i \in Id : db[i] # Never /\ db'[i] = Never => usedBefore[i] + ExpireAge < now]_vars
  <2> SUFFICES ASSUME UseInv, Next, NEW i \in Id, db[i] # Never, db'[i] = Never
               PROVE  usedBefore[i] + ExpireAge < now
    OBVIOUS
  <2>0. Shape
    BY ShapeOfTypes DEF UseInv
  <2> USE Times, <2>0 DEF Shape
  <2>1. ASSUME NEW t \in Thread PROVE ~Write(t)
    BY <2>1 DEF Write
  <2>2. ASSUME NEW f \in Flusher, NEW j \in Id PROVE ~UpdateOne(f, j)
    BY <2>2 DEF UpdateOne, Logged
  <2>3. Expire
    BY <2>1, <2>2 DEF Next, ThreadStep, FlusherStep, Enter, Find, FindThrows, Log, WriteError,
       WriteThrows, Unlog, EnterUpdate, UpdateError, UpdateThrows, EndUpdate, EndListener,
       ExpireError, ExpireThrows, Tick
  <2> QED
    BY <2>3 DEF UseInv, Expire, TooOld, MaintenanceSees
<1> QED
  BY InitUseInv, <1>1, <1>2, PTL DEF Spec, ExpiresOnlyLongUnused
=============================================================================

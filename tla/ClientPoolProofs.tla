-------------------------- MODULE ClientPoolProofs --------------------------
(***************************************************************************)
(* Proofs about ClientPool for any set of threads, any number of hosts and *)
(* clients, legacy or not, and any set of hosts that may fail.             *)
(***************************************************************************)
EXTENDS ClientPool, TLAPS

\* The size of the pool is a natural number (zero if nothing is configured).
LEMMA NType == N \in Nat
BY PoolAssumption, SMT DEF N

\* Whoever has a client is at its entry of the list.
OwnersAtEntries ==
  \A t \in Thread : pc[t] \in Owning => at[t] \in Holder

(***************************************************************************)
(* The inductive invariant.  MutualExclusion alone is not inductive: that  *)
(* nobody has a client whose compareAndSet succeeds is BusyIffOwned, which *)
(* in turn needs MutualExclusion when a thread gives its client back.      *)
(***************************************************************************)
IInv ==
  /\ TypeOK
  /\ OwnersAtEntries
  /\ MutualExclusion
  /\ BusyIffOwned
  /\ OpenOnlyInUse
  /\ ErrorsAreRefusals

\* The empty-handed start satisfies every part of the invariant.
LEMMA InitIInv == Init => IInv
<1> SUFFICES ASSUME Init PROVE IInv
  OBVIOUS
<1> USE NType DEF Init, Holder
<1>1. TypeOK
  BY DEF TypeOK, Location
<1>2. OwnersAtEntries /\ MutualExclusion /\ BusyIffOwned /\ OpenOnlyInUse
  BY DEF OwnersAtEntries, MutualExclusion, BusyIffOwned, OpenOnlyInUse, Owns, Owning
<1>3. ErrorsAreRefusals
  BY DEF ErrorsAreRefusals
<1> QED
  BY <1>1, <1>2, <1>3 DEF IInv

\* Every action of a thread or a server preserves every part of it.
LEMMA NextIInv == IInv /\ [Next]_vars => IInv'
<1> SUFFICES ASSUME IInv, [Next]_vars PROVE IInv'
  OBVIOUS
<1> USE NType DEF Holder
<1>1. ASSUME NEW t \in Thread, Call(t) PROVE IInv'
  <2>1. TypeOK'
    BY <1>1 DEF IInv, TypeOK, Location, Call, StartWalk, Goto, Holder
  <2>2. OwnersAtEntries'
    BY <1>1 DEF IInv, TypeOK, Location, Call, StartWalk, Goto, OwnersAtEntries, Owning
  <2>3. MutualExclusion'
    BY <1>1 DEF IInv, TypeOK, Location, Call, StartWalk, Goto, MutualExclusion, Owns, Owning
  <2>4. BusyIffOwned'
    BY <1>1 DEF IInv, TypeOK, Location, Call, StartWalk, Goto, BusyIffOwned, MutualExclusion, OwnersAtEntries, Owns, Owning
  <2>5. OpenOnlyInUse'
    BY <1>1 DEF IInv, TypeOK, Location, Call, StartWalk, Goto, OpenOnlyInUse
  <2>6. ErrorsAreRefusals'
    BY <1>1 DEF IInv, TypeOK, Location, Call, StartWalk, Goto, ErrorsAreRefusals
  <2> QED
    BY <2>1, <2>2, <2>3, <2>4, <2>5, <2>6 DEF IInv
<1>2. ASSUME NEW t \in Thread, SpuriousWakeup(t) PROVE IInv'
  <2>1. TypeOK'
    BY <1>2 DEF IInv, TypeOK, Location, SpuriousWakeup, StartWalk, Goto, Holder
  <2>2. OwnersAtEntries'
    BY <1>2 DEF IInv, TypeOK, Location, SpuriousWakeup, StartWalk, Goto, OwnersAtEntries, Owning
  <2>3. MutualExclusion'
    BY <1>2 DEF IInv, TypeOK, Location, SpuriousWakeup, StartWalk, Goto, MutualExclusion, Owns, Owning
  <2>4. BusyIffOwned'
    BY <1>2 DEF IInv, TypeOK, Location, SpuriousWakeup, StartWalk, Goto, BusyIffOwned, MutualExclusion, OwnersAtEntries, Owns, Owning
  <2>5. OpenOnlyInUse'
    BY <1>2 DEF IInv, TypeOK, Location, SpuriousWakeup, StartWalk, Goto, OpenOnlyInUse
  <2>6. ErrorsAreRefusals'
    BY <1>2 DEF IInv, TypeOK, Location, SpuriousWakeup, StartWalk, Goto, ErrorsAreRefusals
  <2> QED
    BY <2>1, <2>2, <2>3, <2>4, <2>5, <2>6 DEF IInv
<1>3. ASSUME NEW t \in Thread, Skip(t) PROVE IInv'
  <2>1. TypeOK'
    BY <1>3 DEF IInv, TypeOK, Location, Skip, Holder
  <2>2. OwnersAtEntries'
    BY <1>3 DEF IInv, TypeOK, Location, Skip, OwnersAtEntries, Owning
  <2>3. MutualExclusion'
    BY <1>3 DEF IInv, TypeOK, Location, Skip, MutualExclusion, Owns, Owning
  <2>4. BusyIffOwned'
    BY <1>3 DEF IInv, TypeOK, Location, Skip, BusyIffOwned, MutualExclusion, OwnersAtEntries, Owns, Owning
  <2>5. OpenOnlyInUse'
    BY <1>3 DEF IInv, TypeOK, Location, Skip, OpenOnlyInUse
  <2>6. ErrorsAreRefusals'
    BY <1>3 DEF IInv, TypeOK, Location, Skip, ErrorsAreRefusals
  <2> QED
    BY <2>1, <2>2, <2>3, <2>4, <2>5, <2>6 DEF IInv
<1>4. ASSUME NEW t \in Thread, Take(t) PROVE IInv'
  <2>1. TypeOK'
    BY <1>4 DEF IInv, TypeOK, Location, Take, Goto, Holder
  <2>2. OwnersAtEntries'
    BY <1>4 DEF IInv, TypeOK, Location, Take, Goto, OwnersAtEntries, Owning
  <2>3. MutualExclusion'
    BY <1>4 DEF IInv, TypeOK, Location, Take, Goto, MutualExclusion, BusyIffOwned, Owns, Owning
  <2>4. BusyIffOwned'
    BY <1>4 DEF IInv, TypeOK, Location, Take, Goto, BusyIffOwned, MutualExclusion, OwnersAtEntries, Owns, Owning
  <2>5. OpenOnlyInUse'
    BY <1>4 DEF IInv, TypeOK, Location, Take, Goto, OpenOnlyInUse
  <2>6. ErrorsAreRefusals'
    BY <1>4 DEF IInv, TypeOK, Location, Take, Goto, ErrorsAreRefusals
  <2> QED
    BY <2>1, <2>2, <2>3, <2>4, <2>5, <2>6 DEF IInv
<1>5. ASSUME NEW t \in Thread, Open(t) PROVE IInv'
  <2>1. TypeOK'
    BY <1>5 DEF IInv, TypeOK, Location, Open, Goto, Holder
  <2>2. OwnersAtEntries'
    BY <1>5 DEF IInv, TypeOK, Location, Open, Goto, OwnersAtEntries, Owning
  <2>3. MutualExclusion'
    BY <1>5 DEF IInv, TypeOK, Location, Open, Goto, MutualExclusion, Owns, Owning
  <2>4. BusyIffOwned'
    BY <1>5 DEF IInv, TypeOK, Location, Open, Goto, BusyIffOwned, MutualExclusion, OwnersAtEntries, Owns, Owning
  <2>5. OpenOnlyInUse'
    BY <1>5 DEF IInv, TypeOK, Location, Open, Goto, OpenOnlyInUse
  <2>6. ErrorsAreRefusals'
    BY <1>5 DEF IInv, TypeOK, Location, Open, Goto, ErrorsAreRefusals
  <2> QED
    BY <2>1, <2>2, <2>3, <2>4, <2>5, <2>6 DEF IInv
<1>6. ASSUME NEW t \in Thread, OpenFails(t) PROVE IInv'
  <2>1. TypeOK'
    BY <1>6 DEF IInv, TypeOK, Location, OpenFails, Goto, Holder
  <2>2. OwnersAtEntries'
    BY <1>6 DEF IInv, TypeOK, Location, OpenFails, Goto, OwnersAtEntries, Owning
  <2>3. MutualExclusion'
    BY <1>6 DEF IInv, TypeOK, Location, OpenFails, Goto, MutualExclusion, Owns, Owning
  <2>4. BusyIffOwned'
    BY <1>6 DEF IInv, TypeOK, Location, OpenFails, Goto, BusyIffOwned, MutualExclusion, OwnersAtEntries, Owns, Owning
  <2>5. OpenOnlyInUse'
    BY <1>6 DEF IInv, TypeOK, Location, OpenFails, Goto, OpenOnlyInUse
  <2>6. ErrorsAreRefusals'
    BY <1>6 DEF IInv, TypeOK, Location, OpenFails, Goto, ErrorsAreRefusals
  <2> QED
    BY <2>1, <2>2, <2>3, <2>4, <2>5, <2>6 DEF IInv
<1>7. ASSUME NEW t \in Thread, Refuse(t) PROVE IInv'
  <2>1. /\ at[t] \in Holder /\ errorCount[t] \in Nat /\ errorCount[t] <= at[t] - 1
        /\ pc[t] = "failed" /\ pc'[t] \in {"idle", "scan"}
    BY <1>7 DEF IInv, TypeOK, OwnersAtEntries, Owning, ErrorsAreRefusals, Refuse, Goto
  <2>2. \A u \in Thread \ {t} : pc'[u] = pc[u] /\ at'[u] = at[u]
    BY <1>7 DEF IInv, TypeOK, Refuse, Goto
  <2>3. TypeOK'
    <3>1. pc' \in [Thread -> Location] /\ at' \in [Thread -> 1 .. N + 1]
      <4>1. CASE errorCount'[t] >= N
        BY <1>7, <4>1 DEF IInv, TypeOK, Location, Refuse, Goto
      <4>2. CASE ~(errorCount'[t] >= N)
        <5>1. pc' = [pc EXCEPT ![t] = "scan"] /\ at' = [at EXCEPT ![t] = at[t] + 1]
          BY <1>7, <4>2 DEF Refuse, Goto
        <5>2. at[t] + 1 \in 1 .. N + 1
          BY <2>1
        <5> QED
          BY <5>1, <5>2 DEF IInv, TypeOK, Location
      <4> QED
        BY <4>1, <4>2
    <3>2. errorCount' \in [Thread -> 0 .. N] /\ refused' \in [Thread -> SUBSET Holder]
      BY <1>7, <2>1 DEF IInv, TypeOK, Refuse
    <3> QED
      BY <1>7, <3>1, <3>2 DEF IInv, TypeOK, Refuse
  <2>4. OwnersAtEntries' /\ MutualExclusion'
    BY <2>1, <2>2 DEF IInv, OwnersAtEntries, MutualExclusion, Owns, Owning
  <2>5. BusyIffOwned'
    <3> SUFFICES ASSUME NEW h \in Holder
                 PROVE  available'[h] <=> \A u \in Thread : ~Owns(u, h)'
      BY DEF BusyIffOwned
    <3>1. CASE h = at[t]
      <4>1. available'[h]
        BY <1>7, <3>1 DEF IInv, TypeOK, Refuse
      <4>2. \A u \in Thread : ~Owns(u, h)'
        BY <2>1, <2>2, <3>1 DEF IInv, MutualExclusion, Owns, Owning
      <4> QED
        BY <4>1, <4>2
    <3>2. CASE h # at[t]
      <4>1. available'[h] = available[h]
        BY <1>7, <3>2 DEF IInv, TypeOK, Refuse
      <4>2. \A u \in Thread : Owns(u, h)' <=> Owns(u, h)
        BY <2>1, <2>2, <3>2 DEF Owns, Owning
      <4> QED
        BY <4>1, <4>2 DEF IInv, BusyIffOwned
    <3> QED
      BY <3>1, <3>2
  <2>6. OpenOnlyInUse'
    <3> SUFFICES ASSUME NEW h \in Holder, open'[h]
                 PROVE  \E u \in Thread : pc'[u] = "use" /\ at'[u] = h
      BY DEF OpenOnlyInUse
    <3>1. open[h]
      BY <1>7, <2>1 DEF IInv, TypeOK, Refuse
    <3>2. PICK u \in Thread : pc[u] = "use" /\ at[u] = h
      BY <3>1 DEF IInv, OpenOnlyInUse
    <3>3. u # t
      BY <2>1, <3>2
    <3> QED
      BY <2>2, <3>2, <3>3
  <2>7. ErrorsAreRefusals'
    <3> SUFFICES ASSUME NEW u \in Thread, pc'[u] \in {"scan", "open", "failed"}
                 PROVE  /\ refused'[u] \subseteq 1 .. at'[u] - 1
                        /\ errorCount'[u] <= at'[u] - 1
                        /\ errorCount'[u] = at'[u] - 1 => refused'[u] = 1 .. at'[u] - 1
      BY DEF ErrorsAreRefusals
    <3>1. CASE u # t
      BY <1>7, <2>2, <3>1 DEF IInv, TypeOK, Refuse, ErrorsAreRefusals
    <3>2. CASE u = t
      <4>1. pc'[t] = "scan"
        BY <2>1, <3>2
      <4>2. /\ at'[t] = at[t] + 1
            /\ errorCount'[t] = errorCount[t] + 1
            /\ refused'[t] = refused[t] \cup {at[t]}
        BY <1>7, <4>1 DEF IInv, TypeOK, Refuse, Goto
      <4>3. /\ refused[t] \subseteq 1 .. at[t] - 1
            /\ errorCount[t] = at[t] - 1 => refused[t] = 1 .. at[t] - 1
        BY <2>1 DEF IInv, ErrorsAreRefusals
      <4> QED
        BY <2>1, <3>2, <4>2, <4>3
    <3> QED
      BY <3>1, <3>2
  <2> QED
    BY <2>3, <2>4, <2>5, <2>6, <2>7 DEF IInv
<1>8. ASSUME NEW t \in Thread, Wait(t) PROVE IInv'
  <2>1. TypeOK'
    BY <1>8 DEF IInv, TypeOK, Location, Wait, Goto, Holder
  <2>2. OwnersAtEntries'
    BY <1>8 DEF IInv, TypeOK, Location, Wait, Goto, OwnersAtEntries, Owning
  <2>3. MutualExclusion'
    BY <1>8 DEF IInv, TypeOK, Location, Wait, Goto, MutualExclusion, Owns, Owning
  <2>4. BusyIffOwned'
    BY <1>8 DEF IInv, TypeOK, Location, Wait, Goto, BusyIffOwned, MutualExclusion, OwnersAtEntries, Owns, Owning
  <2>5. OpenOnlyInUse'
    BY <1>8 DEF IInv, TypeOK, Location, Wait, Goto, OpenOnlyInUse
  <2>6. ErrorsAreRefusals'
    BY <1>8 DEF IInv, TypeOK, Location, Wait, Goto, ErrorsAreRefusals
  <2> QED
    BY <2>1, <2>2, <2>3, <2>4, <2>5, <2>6 DEF IInv
<1>9. ASSUME NEW t \in Thread, Close(t) PROVE IInv'
  <2>1. TypeOK'
    BY <1>9 DEF IInv, TypeOK, Location, Close, Goto, Holder
  <2>2. OwnersAtEntries'
    BY <1>9 DEF IInv, TypeOK, Location, Close, Goto, OwnersAtEntries, Owning
  <2>3. MutualExclusion'
    BY <1>9 DEF IInv, TypeOK, Location, Close, Goto, MutualExclusion, Owns, Owning
  <2>4. BusyIffOwned'
    BY <1>9 DEF IInv, TypeOK, Location, Close, Goto, BusyIffOwned, MutualExclusion, OwnersAtEntries, Owns, Owning
  <2>5. OpenOnlyInUse'
    BY <1>9 DEF IInv, TypeOK, Location, Close, Goto, OpenOnlyInUse
  <2>6. ErrorsAreRefusals'
    BY <1>9 DEF IInv, TypeOK, Location, Close, Goto, ErrorsAreRefusals
  <2> QED
    BY <2>1, <2>2, <2>3, <2>4, <2>5, <2>6 DEF IInv
<1>10. ASSUME NEW t \in Thread, MakeAvailable(t) PROVE IInv'
  <2>1. TypeOK'
    BY <1>10 DEF IInv, TypeOK, Location, MakeAvailable, Goto, Holder
  <2>2. OwnersAtEntries'
    BY <1>10 DEF IInv, TypeOK, Location, MakeAvailable, Goto, OwnersAtEntries, Owning
  <2>3. MutualExclusion'
    BY <1>10 DEF IInv, TypeOK, Location, MakeAvailable, Goto, MutualExclusion, Owns, Owning
  <2>4. BusyIffOwned'
    BY <1>10 DEF IInv, TypeOK, Location, MakeAvailable, Goto, BusyIffOwned, MutualExclusion, OwnersAtEntries, Owns, Owning
  <2>5. OpenOnlyInUse'
    BY <1>10 DEF IInv, TypeOK, Location, MakeAvailable, Goto, OpenOnlyInUse
  <2>6. ErrorsAreRefusals'
    BY <1>10 DEF IInv, TypeOK, Location, MakeAvailable, Goto, ErrorsAreRefusals
  <2> QED
    BY <2>1, <2>2, <2>3, <2>4, <2>5, <2>6 DEF IInv
<1>11. ASSUME NEW t \in Thread, Notify(t) PROVE IInv'
  <2>1. CASE /\ Goto(t, "idle")
             /\ UNCHANGED <<available, open, up, at, errorCount, refused>>
    <3>1. pc[t] = "notify" /\ pc' = [pc EXCEPT ![t] = "idle"]
      BY <1>11, <2>1 DEF Notify, Goto
    <3>2. TypeOK'
      BY <2>1, <3>1 DEF IInv, TypeOK, Location
    <3>3. \A u \in Thread, h \in Holder : Owns(u, h)' <=> Owns(u, h)
      BY <2>1, <3>1 DEF IInv, TypeOK, Owns, Owning
    <3>4. MutualExclusion' /\ BusyIffOwned'
      BY <2>1, <3>3 DEF IInv, MutualExclusion, BusyIffOwned
    <3>5. OwnersAtEntries' /\ OpenOnlyInUse'
      BY <2>1, <3>1 DEF IInv, TypeOK, OwnersAtEntries, OpenOnlyInUse, Owning
    <3>6. ErrorsAreRefusals'
      BY <2>1, <3>1 DEF IInv, TypeOK, ErrorsAreRefusals
    <3> QED
      BY <3>2, <3>4, <3>5, <3>6 DEF IInv
  <2>2. ASSUME NEW w \in Thread, pc[w] = "wait",
               pc' = [pc EXCEPT ![t] = "idle", ![w] = "scan"],
               at' = [at EXCEPT ![w] = 1],
               errorCount' = [errorCount EXCEPT ![w] = 0],
               refused' = [refused EXCEPT ![w] = {}]
        PROVE  IInv'
    <3>1. pc[t] = "notify" /\ UNCHANGED <<available, open, up>>
      BY <1>11 DEF Notify
    <3>2. TypeOK'
      BY <2>2, <3>1 DEF IInv, TypeOK, Location
    <3>3. \A u \in Thread, h \in Holder : Owns(u, h)' <=> Owns(u, h)
      BY <2>2, <3>1 DEF IInv, TypeOK, Owns, Owning
    <3>4. MutualExclusion' /\ BusyIffOwned'
      BY <3>1, <3>3 DEF IInv, MutualExclusion, BusyIffOwned
    <3>5. OwnersAtEntries' /\ OpenOnlyInUse'
      BY <2>2, <3>1 DEF IInv, TypeOK, OwnersAtEntries, OpenOnlyInUse, Owning
    <3>6. ErrorsAreRefusals'
      BY <2>2, <3>1 DEF IInv, TypeOK, ErrorsAreRefusals
    <3> QED
      BY <3>2, <3>4, <3>5, <3>6 DEF IInv
  <2> QED
    BY <1>11, <2>1, <2>2 DEF Notify
<1>12. ASSUME NEW s \in Host, ServerChanges(s) PROVE IInv'
  <2>1. TypeOK'
    BY <1>12 DEF IInv, TypeOK, Location, ServerChanges, Holder
  <2>2. OwnersAtEntries'
    BY <1>12 DEF IInv, TypeOK, Location, ServerChanges, OwnersAtEntries, Owning
  <2>3. MutualExclusion'
    BY <1>12 DEF IInv, TypeOK, Location, ServerChanges, MutualExclusion, Owns, Owning
  <2>4. BusyIffOwned'
    BY <1>12 DEF IInv, TypeOK, Location, ServerChanges, BusyIffOwned, MutualExclusion, OwnersAtEntries, Owns, Owning
  <2>5. OpenOnlyInUse'
    BY <1>12 DEF IInv, TypeOK, Location, ServerChanges, OpenOnlyInUse
  <2>6. ErrorsAreRefusals'
    BY <1>12 DEF IInv, TypeOK, Location, ServerChanges, ErrorsAreRefusals
  <2> QED
    BY <2>1, <2>2, <2>3, <2>4, <2>5, <2>6 DEF IInv
<1>13. CASE UNCHANGED vars
  BY <1>13 DEF vars, IInv, TypeOK, OwnersAtEntries, MutualExclusion, BusyIffOwned, OpenOnlyInUse, ErrorsAreRefusals, Owns
<1> QED
  BY <1>1, <1>2, <1>3, <1>4, <1>5, <1>6, <1>7, <1>8, <1>9, <1>10, <1>11, <1>12, <1>13 DEF Next, ThreadStep
-----------------------------------------------------------------------------
\* In every reachable state the parts hold together.
LEMMA Invariance == Spec => []IInv
BY InitIInv, NextIInv, PTL DEF Spec

\* Every variable keeps its type; errorCount never exceeds the pool's size.
THEOREM TypeCorrect == Spec => []TypeOK
BY Invariance, PTL DEF IInv

\* No client is lent to two threads, however the walks over the list interleave
\* with each other, with releases and with servers that go down.
THEOREM Exclusion == Spec => []MutualExclusion
BY Invariance, PTL DEF IInv

\* No client leaks: it is unavailable exactly while some thread has it.
THEOREM NoLeak == Spec => []BusyIffOwned
BY Invariance, PTL DEF IInv

\* A transport is open only while the client is in use.
THEOREM TransportClosed == Spec => []OpenOnlyInUse
BY Invariance, PTL DEF IInv

\* The error that makes getClient throw is the last entry's, and all the
\* entries before it have failed too.
LEMMA ThrowingRefusal ==
  ASSUME IInv, NEW t \in Thread, Refuse(t), errorCount'[t] >= N
  PROVE  refused[t] \cup {at[t]} = Holder /\ refused'[t] = Holder
<1>1. /\ at[t] \in 1 .. N /\ errorCount[t] \in Nat
      /\ errorCount[t] <= at[t] - 1
      /\ errorCount[t] = at[t] - 1 => refused[t] = 1 .. at[t] - 1
  BY NType DEF IInv, TypeOK, OwnersAtEntries, Owning, ErrorsAreRefusals, Holder, Refuse
<1>2. errorCount[t] + 1 >= N /\ refused'[t] = refused[t] \cup {at[t]}
  BY DEF IInv, TypeOK, Refuse
<1> QED
  BY <1>1, <1>2, NType DEF Holder

\* getClient throws only after every entry of the pool refused in one walk.
THEOREM ThrowJustified == Spec => ThrowsOnlyIfAllRefused
<1>1. IInv /\ [Next]_vars =>
        [\A t \in Thread : pc[t] = "failed" /\ pc'[t] = "idle" => refused'[t] = Holder]_vars
  <2> SUFFICES ASSUME IInv, Next, NEW t \in Thread, pc[t] = "failed", pc'[t] = "idle"
               PROVE  refused'[t] = Holder
    OBVIOUS
  <2>1. Refuse(t)
    <3> USE DEF IInv, TypeOK, Goto
    <3>1. ASSUME NEW u \in Thread, Call(u) \/ SpuriousWakeup(u) PROVE FALSE
      BY <3>1 DEF Call, SpuriousWakeup, StartWalk
    <3>2. ASSUME NEW u \in Thread, Skip(u) \/ Take(u) \/ Open(u) \/ OpenFails(u) \/ Wait(u)
          PROVE  FALSE
      BY <3>2 DEF Skip, Take, Open, OpenFails, Wait
    <3>3. ASSUME NEW u \in Thread, Close(u) \/ MakeAvailable(u) PROVE FALSE
      BY <3>3 DEF Close, MakeAvailable
    <3>4. ASSUME NEW u \in Thread, Notify(u) PROVE FALSE
      BY <3>4 DEF Notify
    <3>5. ASSUME NEW u \in Thread, Refuse(u) PROVE u = t
      BY <3>5 DEF Refuse
    <3>6. ASSUME NEW s \in Host, ServerChanges(s) PROVE FALSE
      BY <3>6 DEF ServerChanges
    <3> QED
      BY <3>1, <3>2, <3>3, <3>4, <3>5, <3>6 DEF Next, ThreadStep
  <2>2. errorCount'[t] >= N
    BY <2>1 DEF IInv, TypeOK, Refuse, Goto
  <2> QED
    BY <2>1, <2>2, ThrowingRefusal
<1> QED
  BY <1>1, Invariance, PTL DEF Spec, ThrowsOnlyIfAllRefused
-----------------------------------------------------------------------------
(***************************************************************************)
(* The pool implements ClientLending.                                      *)
(***************************************************************************)
\* A client the compareAndSet finds available is lent to nobody.
LEMMA AvailableIsFree ==
  ASSUME IInv, NEW h \in Holder, available[h]
  PROVE  Lending!Free(h)
BY NType DEF IInv, BusyIffOwned, Owns, Lending!Free, Holder

\* Every step of the pool is a step of ClientLending or leaves it alone.
LEMMA StepRefines == IInv /\ [Next]_vars => [Lending!Next]_(Lending!vars)
<1> SUFFICES ASSUME IInv, [Next]_vars PROVE [Lending!Next]_(Lending!vars)
  OBVIOUS
<1> USE NType DEF IInv, TypeOK, Goto, Owning
<1>1. ASSUME NEW t \in Thread, Call(t) PROVE Lending!Search(t)
  BY <1>1 DEF Call, StartWalk, Lending!Search
<1>2. ASSUME NEW t \in Thread, SpuriousWakeup(t) PROVE Lending!Search(t)
  BY <1>2 DEF SpuriousWakeup, StartWalk, Lending!Search
<1>3. ASSUME NEW t \in Thread, Skip(t) PROVE UNCHANGED Lending!vars
  BY <1>3 DEF Skip, Lending!vars
<1>4. ASSUME NEW t \in Thread, Take(t)
      PROVE  \E as \in {"trying", "using"} : Lending!Reserve(t, at[t], as)
  BY <1>4, AvailableIsFree DEF Take, Lending!Reserve
<1>5. ASSUME NEW t \in Thread, Open(t) PROVE Lending!Lend(t)
  BY <1>5 DEF Open, Lending!Lend
<1>6. ASSUME NEW t \in Thread, OpenFails(t) PROVE UNCHANGED Lending!vars
  BY <1>6 DEF OpenFails, Lending!vars
<1>7. ASSUME NEW t \in Thread, Refuse(t) PROVE Lending!Refuse(t) \/ Lending!GiveUp(t)
  <2>1. CASE errorCount'[t] >= N
    <3>1. refused[t] \cup {at[t]} = Holder
      BY <1>7, <2>1, ThrowingRefusal
    <3>2. pc[t] = "failed" /\ pc' = [pc EXCEPT ![t] = "idle"] /\ UNCHANGED at
          /\ refused' = [refused EXCEPT ![t] = Holder]
      BY <1>7, <2>1, <3>1 DEF Refuse
    <3> QED
      BY <3>1, <3>2 DEF Lending!GiveUp, Lending!NoClient
  <2>2. CASE ~(errorCount'[t] >= N)
    <3>1. /\ pc[t] = "failed" /\ pc' = [pc EXCEPT ![t] = "scan"]
          /\ at' = [at EXCEPT ![t] = @ + 1]
          /\ refused' = [refused EXCEPT ![t] = @ \cup {at[t]}]
      BY <1>7, <2>2 DEF Refuse
    <3> QED
      BY <3>1 DEF Lending!Refuse, Lending!NoClient
  <2> QED
    BY <2>1, <2>2
<1>8. ASSUME NEW t \in Thread, Wait(t) PROVE UNCHANGED Lending!vars
  BY <1>8 DEF Wait, Lending!vars
<1>9. ASSUME NEW t \in Thread, Close(t) PROVE UNCHANGED Lending!vars
  BY <1>9 DEF Close, Lending!vars
<1>10. ASSUME NEW t \in Thread, MakeAvailable(t) PROVE Lending!Return(t)
  BY <1>10 DEF MakeAvailable, Lending!Return, Lending!NoClient
<1>11. ASSUME NEW t \in Thread, Notify(t)
       PROVE  (\E w \in Thread : Lending!Search(w)) \/ UNCHANGED Lending!vars
  <2>1. CASE \A w \in Thread : pc[w] # "wait"
    BY <1>11, <2>1 DEF Notify, Lending!vars
  <2>2. ASSUME NEW w \in Thread, pc[w] = "wait",
               pc' = [pc EXCEPT ![t] = "idle", ![w] = "scan"],
               at' = [at EXCEPT ![w] = 1],
               refused' = [refused EXCEPT ![w] = {}]
        PROVE  Lending!Search(w)
    <3>1. pc[t] = "notify"
      BY <1>11 DEF Notify
    <3> QED
      BY <2>2, <3>1 DEF Lending!Search
  <2> QED
    BY <1>11, <2>1, <2>2 DEF Notify
<1>12. ASSUME NEW s \in Host, ServerChanges(s) PROVE UNCHANGED Lending!vars
  BY <1>12 DEF ServerChanges, Lending!vars
<1>13. CASE UNCHANGED vars
  BY <1>13 DEF vars, Lending!vars
<1> QED
  BY <1>1, <1>2, <1>3, <1>4, <1>5, <1>6, <1>7, <1>8, <1>9, <1>10, <1>11, <1>12, <1>13
  DEF Next, ThreadStep, Lending!Next, Take

\* The walk without a lock, the compareAndSet and the release implement the
\* lending of clients that Pool.java describes.
THEOREM PoolImplementsLending == Spec => LendingSpec
<1>1. Init => Lending!Init
  BY DEF Init, Lending!Init, Lending!NoClient, Owning
<1> QED
  BY <1>1, Invariance, StepRefines, PTL DEF Spec, LendingSpec, Lending!Spec
=============================================================================

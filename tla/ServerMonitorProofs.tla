------------------------- MODULE ServerMonitorProofs -------------------------
(***************************************************************************)
(* For every file of groups, every number of sessions and every bound on   *)
(* the processes: what a kill command reaches, and that in sessions that   *)
(* do not overlap the list made at the beginning is as good as a new look. *)
(***************************************************************************)
EXTENDS ServerMonitor, WellFoundedInduction, SequenceTheorems, TLAPS

(* The file was accepted by buildKillCmd, and is read only once. *)
Accepted == config \in Config /\ Loads(config)

OneAtATime ==
  \A r, s \in Session : pc[r] = "open" /\ pc[s] = "open" => r = s

(* While a session is open, what is neither in its list nor in what it has started
   does not run. *)
ListIsGood ==
  \A s \in Session : pc[s] = "open" =>
    \A c \in Component : c \notin snapshot[s] \cup started[s] => running[c] = 0

(* Only what the session's list does not have is refused. *)
RefusedIsUnlisted ==
  \A s \in Session, c \in Component :
    decided = <<s, c, "refused">> => pc[s] = "open" /\ c \notin snapshot[s]

(* Without overlap, what a session takes not to run does not run until it starts it. *)
IInv == /\ TypeOK /\ Accepted /\ RefusedIsUnlisted
        /\ ~Overlap => OneAtATime /\ ListIsGood
-----------------------------------------------------------------------------
LEMMA GroupFacts ==
  ASSUME NEW c \in Component
  PROVE  /\ GroupOf(c) \in DOMAIN Groups /\ c \in Range(Groups[GroupOf(c)])
         /\ PlaceOf(c) \in DOMAIN Groups[GroupOf(c)]
         /\ Groups[GroupOf(c)][PlaceOf(c)] = c
         /\ DOMAIN Groups[GroupOf(c)] = 1 .. Len(Groups[GroupOf(c)])
         /\ Len(Groups[GroupOf(c)]) \in Nat
         /\ \A i \in DOMAIN Groups[GroupOf(c)] : Groups[GroupOf(c)][i] \in Component
<1>1. PICK g \in DOMAIN Groups : c \in Range(Groups[g]) BY DEF Component
<1>2. GroupOf(c) \in DOMAIN Groups /\ c \in Range(Groups[GroupOf(c)])
  BY <1>1 DEF GroupOf
<1>3. PICK i \in DOMAIN Groups[GroupOf(c)] : Groups[GroupOf(c)][i] = c
  BY <1>2 DEF Range
<1>4. PlaceOf(c) \in DOMAIN Groups[GroupOf(c)] /\ Groups[GroupOf(c)][PlaceOf(c)] = c
  BY <1>3 DEF PlaceOf
<1>5. Groups[GroupOf(c)] \in Seq(Component)
  BY <1>2, MonitorAssumption, LenProperties
<1> QED BY <1>2, <1>4, <1>5, LenProperties

(* A component is listed once. *)
LEMMA GroupIsTheOnlyOne ==
  ASSUME NEW g \in DOMAIN Groups, NEW d \in Range(Groups[g])
  PROVE  d \in Component /\ GroupOf(d) = g
<1>1. d \in Component BY DEF Component
<1>2. PICK i \in DOMAIN Groups[g] : Groups[g][i] = d BY DEF Range
<1>3. PlaceOf(d) \in DOMAIN Groups[GroupOf(d)] /\ Groups[GroupOf(d)][PlaceOf(d)] = d
      /\ GroupOf(d) \in DOMAIN Groups
  BY <1>1, GroupFacts
<1> QED BY <1>1, <1>2, <1>3, MonitorAssumption

LEMMA LastOne ==
  ASSUME NEW n \in Nat, NEW T \in SUBSET (1 .. n), T # {}
  PROVE  \E i \in T : \A j \in T : j <= i
<1> DEFINE R == OpToRel(<, Nat)
           U == {n - i : i \in T}
<1>1. IsWellFoundedOn(R, Nat) BY NatLessThanWellFounded
<1>2. R = {ss \in Nat \X Nat : ss[1] < ss[2]} BY DEF OpToRel
<1>3. \A y, x \in Nat : y < x => <<y, x>> \in R BY <1>2
<1> HIDE DEF R
<1>4. U \subseteq Nat /\ U # {}
  <2>1. \A i \in T : i \in 1 .. n OBVIOUS
  <2>2. \A i \in T : n - i \in Nat BY <2>1
  <2> QED BY <2>2
<1>5. PICK m \in U : \A k \in U : ~ (<<k, m>> \in R)
  <2> HIDE DEF U
  <2> QED BY <1>1, <1>4, WFMin
<1>6. PICK i \in T : m = n - i BY <1>5
<1>7. \A j \in T : ~(n - j < n - i) BY <1>3, <1>4, <1>5, <1>6
<1> QED BY <1>7

(* loadConfig, buildKillCmd: the command a component ends up with reaches only its own
   group, and only the component itself if the component has a command of its own. *)
LEMMA KillFacts ==
  ASSUME NEW cfg \in Config, Loads(cfg), NEW c \in Component
  PROVE  /\ KillOf(cfg, c) \subseteq Range(Groups[GroupOf(c)])
         /\ cfg.node[c] # "none" => KillOf(cfg, c) = {c}
<1> DEFINE g == GroupOf(c)
           n == PlaceOf(c)
           withNode == {i \in 1 .. n : cfg.node[Groups[g][i]] # "none"}
           last == CHOOSE i \in withNode : \A j \in withNode : j <= i
<1>1. /\ c \in Range(Groups[g]) /\ n \in 1 .. Len(Groups[g]) /\ Groups[g][n] = c
      /\ DOMAIN Groups[g] = 1 .. Len(Groups[g]) /\ Len(Groups[g]) \in Nat
  BY GroupFacts
<1>2. KillOf(cfg, c) = IF withNode = {} THEN GroupScript(cfg, g) ELSE {Groups[g][last]}
  BY DEF KillOf
<1> HIDE DEF g
<1>3. CASE withNode = {}
  <2>1. KillOf(cfg, c) = GroupScript(cfg, g) BY <1>2, <1>3
  <2>2. KillOf(cfg, c) # {} BY DEF Loads
  <2>3. KillOf(cfg, c) = Range(Groups[g]) BY <2>1, <2>2 DEF GroupScript
  <2>4. cfg.node[c] = "none" BY <1>1, <1>3
  <2> QED BY <1>1, <2>3, <2>4 DEF g
<1>4. CASE withNode # {}
  <2>1. last \in withNode /\ \A j \in withNode : j <= last
    <3>1. withNode \in SUBSET (1 .. n) /\ n \in Nat BY <1>1
    <3> HIDE DEF withNode, n
    <3>2. \E i \in withNode : \A j \in withNode : j <= i BY <1>4, <3>1, LastOne
    <3> QED BY <3>2
  <2>2. last \in 1 .. n /\ cfg.node[Groups[g][last]] # "none" BY <2>1
  <2>3. KillOf(cfg, c) = {Groups[g][last]} BY <1>2, <1>4
  <2> HIDE DEF last
  <2>4. n \in withNode => last = n
    <3>1. ASSUME n \in withNode PROVE n <= last BY <2>1, <3>1
    <3> QED BY <1>1, <2>2, <3>1
  <2>5. Groups[g][last] \in Range(Groups[g]) BY <1>1, <2>2 DEF Range
  <2>6. CASE cfg.node[c] # "none"
    <3>1. n \in withNode BY <1>1, <2>6
    <3> QED BY <1>1, <2>3, <2>4, <2>5, <3>1 DEF g
  <2>7. CASE cfg.node[c] = "none" BY <2>3, <2>5, <2>7 DEF g
  <2> QED BY <2>6, <2>7
<1> QED BY <1>3, <1>4

LEMMA KillStaysInGroup ==
  ASSUME NEW cfg \in Config, Loads(cfg), NEW c \in Component, NEW d \in KillOf(cfg, c)
  PROVE  d \in Component /\ GroupOf(d) = GroupOf(c)
<1>1. d \in Range(Groups[GroupOf(c)]) BY KillFacts
<1>2. GroupOf(c) \in DOMAIN Groups BY GroupFacts
<1> QED BY <1>1, <1>2, GroupIsTheOnlyOne
-----------------------------------------------------------------------------
LEMMA InitInv == Init => IInv
BY MonitorAssumption
DEF Init, IInv, TypeOK, Accepted, RefusedIsUnlisted, OneAtATime, ListIsGood, Nothing

LEMMA SpawnInv ==
  ASSUME IInv, NEW s \in Session, Spawn(s), decided' = Nothing
  PROVE  IInv'
<1> USE DEF IInv, Spawn
<1>1. TypeOK' BY DEF TypeOK, Seen
<1>2. Accepted' /\ RefusedIsUnlisted' BY DEF Accepted, RefusedIsUnlisted, Nothing
<1>3. ASSUME ~Overlap PROVE OneAtATime' /\ ListIsGood'
  <2>1. \A r \in Session : /\ pc[r] # "open"
                           /\ pc'[r] = "open" <=> r = s
    BY <1>3 DEF TypeOK
  <2>2. \A c \in Component : c \notin snapshot'[s] => running'[c] = 0
    BY DEF TypeOK, Seen
  <2> QED BY <2>1, <2>2 DEF OneAtATime, ListIsGood
<1> QED BY <1>1, <1>2, <1>3

LEMMA LeaveInv ==
  ASSUME IInv, NEW s \in Session, NEW place \in {"closed", "spinning"}, Leave(s, place),
         UNCHANGED <<config, running>>, answer' \in {answer, "error"}, decided' = Nothing
  PROVE  IInv'
<1> USE DEF IInv, Leave
<1>1. TypeOK' BY DEF TypeOK
<1>2. Accepted' /\ RefusedIsUnlisted' BY DEF Accepted, RefusedIsUnlisted, Nothing
<1>3. \A r \in Session : pc'[r] = "open" =>
        pc[r] = "open" /\ snapshot'[r] = snapshot[r] /\ started'[r] = started[r]
  BY DEF TypeOK
<1> QED BY <1>1, <1>2, <1>3 DEF OneAtATime, ListIsGood

(* A step of the session s in which nothing comes to run but what it starts. *)
LEMMA WorkInv ==
  ASSUME IInv, TypeOK', RefusedIsUnlisted', NEW s \in Session, pc[s] = "open",
         UNCHANGED <<config, pc, snapshot>>,
         \A r \in Session : r # s => started'[r] = started[r],
         started[s] \subseteq started'[s],
         \A c \in Component : c \notin started'[s] /\ running[c] = 0 => running'[c] = 0
  PROVE  IInv'
<1> USE DEF IInv
<1>1. Accepted' BY DEF Accepted
<1>2. ASSUME ~Overlap PROVE OneAtATime' /\ ListIsGood'
  <2>1. \A r \in Session : pc[r] = "open" => r = s BY <1>2 DEF OneAtATime
  <2> QED BY <1>2, <2>1 DEF OneAtATime, ListIsGood
<1> QED BY <1>1, <1>2

LEMMA PassInv ==
  ASSUME IInv, NEW s \in Session, NEW given \in {"right", "wrong"}, Pass(s, given),
         decided' = Nothing
  PROVE  IInv'
<1>1. CASE given = "right"
  <2> USE <1>1 DEF Pass, Say
  <2>1. TypeOK' /\ RefusedIsUnlisted' BY DEF IInv, TypeOK, RefusedIsUnlisted, Nothing
  <2> QED BY <2>1, WorkInv
<1>2. CASE given # "right" BY <1>2, LeaveInv DEF Pass, SayLast
<1> QED BY <1>1, <1>2

(* A kill command leaves at most the processes that were there, and touches nothing but
   what it is for. *)
LEMMA RunKillFacts ==
  ASSUME TypeOK, NEW name, RunKill(name)
  PROVE  /\ running' \in [Component -> 0 .. MaxProcesses]
         /\ \A c \in Component : running[c] = 0 => running'[c] = 0
         /\ \A c \in Component : c \notin KillOf(config, name) => running'[c] = running[c]
<1>1. PICK left \in [KillOf(config, name) -> 0 .. MaxProcesses] :
        /\ \A c \in KillOf(config, name) : left[c] <= running[c]
        /\ running' = [c \in Component |-> IF c \in KillOf(config, name) THEN left[c]
                                           ELSE running[c]]
  BY DEF RunKill
<1>2. running \in [Component -> 0 .. MaxProcesses] BY DEF TypeOK
<1>3. \A c \in KillOf(config, name) : left[c] \in 0 .. MaxProcesses BY <1>1
<1>4. running' \in [Component -> 0 .. MaxProcesses] BY <1>1, <1>2, <1>3
<1>5. ASSUME NEW c \in Component, running[c] = 0 PROVE running'[c] = 0
  BY <1>1, <1>3, <1>5, MonitorAssumption
<1>6. \A c \in Component : c \notin KillOf(config, name) => running'[c] = running[c]
  BY <1>1
<1> QED BY <1>4, <1>5, <1>6

LEMMA KillInv ==
  ASSUME IInv, NEW s \in Session, NEW name \in Name, Kill(s, name)
  PROVE  IInv'
<1>1. CASE ~password_accepted[s] BY <1>1, LeaveInv DEF Kill, SayLast
<1>2. CASE password_accepted[s] /\ name \in snapshot[s]
  <2>1. /\ pc[s] = "open" /\ answer' = "successful" /\ RunKill(name)
        /\ decided' = <<s, name, "run">>
        /\ UNCHANGED <<config, pc, snapshot, password_accepted, started>>
    BY <1>2 DEF Kill, Say
  <2>2. TypeOK BY DEF IInv
  <2>3. /\ running' \in [Component -> 0 .. MaxProcesses]
        /\ \A c \in Component : running[c] = 0 => running'[c] = 0
    BY <2>1, <2>2, RunKillFacts
  <2>4. TypeOK' BY <2>1, <2>2, <2>3 DEF TypeOK
  <2>5. RefusedIsUnlisted' BY <2>1 DEF RefusedIsUnlisted
  <2> QED BY <2>1, <2>3, <2>4, <2>5, WorkInv
<1>3. CASE password_accepted[s] /\ name \notin snapshot[s]
  <2>1. /\ pc[s] = "open" /\ answer' = "error" /\ decided' = <<s, name, "refused">>
        /\ UNCHANGED <<config, running, pc, snapshot, password_accepted, started>>
    BY <1>3 DEF Kill, Say
  <2>2. TypeOK' BY <2>1 DEF IInv, TypeOK
  <2>3. RefusedIsUnlisted' BY <1>3, <2>1 DEF RefusedIsUnlisted
  <2> QED BY <2>1, <2>2, <2>3, WorkInv
<1> QED BY <1>1, <1>2, <1>3

LEMMA StartInv ==
  ASSUME IInv, NEW s \in Session, NEW name \in Name, Start(s, name), decided' = Nothing
  PROVE  IInv'
<1>1. CASE ~password_accepted[s] BY <1>1, LeaveInv DEF Start, SayLast
<1>2. CASE password_accepted[s] /\ name \in Component \ snapshot[s]
  <2>1. /\ pc[s] = "open" /\ answer' = "successful"
        /\ UNCHANGED <<config, pc, snapshot, password_accepted>>
        /\ \/ running[name] < MaxProcesses /\ running' = [running EXCEPT ![name] = @ + 1]
           \/ UNCHANGED running
        /\ started' = [started EXCEPT ![s] = @ \cup {name}]
    BY <1>2 DEF Start, RunScript, Say
  <2>2. TypeOK' BY <1>2, <2>1, MonitorAssumption DEF IInv, TypeOK
  <2>3. RefusedIsUnlisted' BY DEF RefusedIsUnlisted, Nothing
  <2> QED BY <2>1, <2>2, <2>3, WorkInv DEF IInv, TypeOK
<1>3. CASE password_accepted[s] /\ name \notin Component \ snapshot[s]
  <2> USE <1>3 DEF Start, Say
  <2>1. TypeOK' BY DEF IInv, TypeOK
  <2>2. RefusedIsUnlisted' BY DEF RefusedIsUnlisted, Nothing
  <2> QED BY <2>1, <2>2, WorkInv
<1> QED BY <1>1, <1>2, <1>3

LEMMA CrashInv ==
  ASSUME IInv, NEW c \in Component, Crash(c), decided' = Nothing
  PROVE  IInv'
<1> USE DEF IInv, Crash
<1>1. TypeOK' BY MonitorAssumption DEF TypeOK
<1>2. Accepted' /\ RefusedIsUnlisted' BY DEF Accepted, RefusedIsUnlisted, Nothing
<1>3. \A d \in Component : running[d] = 0 => running'[d] = 0 BY DEF TypeOK
<1> QED BY <1>1, <1>2, <1>3 DEF OneAtATime, ListIsGood

LEMMA NextInv == IInv /\ [Next]_vars => IInv'
<1> SUFFICES ASSUME IInv, [Next]_vars PROVE IInv' OBVIOUS
<1>1. ASSUME NEW s \in Session, OtherCommand(s), decided' = Nothing PROVE IInv'
  <2>1. CASE GetProcessInformation(s)
    <3> USE <1>1, <2>1 DEF GetProcessInformation, Say
    <3>1. TypeOK' BY DEF IInv, TypeOK
    <3>2. RefusedIsUnlisted' BY DEF RefusedIsUnlisted, Nothing
    <3> QED BY <3>1, <3>2, WorkInv
  <2>2. CASE Unrecognized(s) BY <1>1, <2>2, LeaveInv DEF Unrecognized, SayLast
  <2>3. CASE Quit(s) BY <1>1, <2>3, LeaveInv DEF Quit
  <2>4. CASE Disconnect(s) BY <1>1, <2>4, LeaveInv DEF Disconnect
  <2> QED BY <1>1, <2>1, <2>2, <2>3, <2>4, PassInv, StartInv DEF OtherCommand
<1>2. CASE UNCHANGED vars
  BY <1>2 DEF vars, IInv, TypeOK, Accepted, RefusedIsUnlisted, OneAtATime, ListIsGood
<1>3. ASSUME NEW s \in Session, Spin(s), decided' = Nothing PROVE IInv'
  BY <1>3 DEF Spin, IInv, TypeOK, Accepted, RefusedIsUnlisted, Nothing, OneAtATime, ListIsGood
<1> QED BY <1>1, <1>2, <1>3, KillInv, SpawnInv, CrashInv DEF Next

LEMMA Inductive == Spec => []IInv
BY InitInv, NextInv, PTL DEF Spec

(* The sessions' variables stay what the script declares them to be. *)
THEOREM TypeCorrect == Spec => []TypeOK
<1>1. IInv => TypeOK BY DEF IInv
<1> QED BY <1>1, Inductive, PTL

-----------------------------------------------------------------------------
(* KillComponent: whatever the file says, a kill command leaves every other group alone,
   however commands are carried over within one, and that of a component with a kill_cmd
   leaves every other component alone. *)
THEOREM OtherGroupsAreSpared == Spec => SparesOtherGroups
<1> DEFINE A == \A s \in Session, c, d \in Component :
                  decided' = <<s, c, "run">> /\ running'[d] # running[d] =>
                    IF config.node[c] = "none" THEN GroupOf(d) = GroupOf(c) ELSE d = c
<1>1. IInv /\ [Next]_vars => [A]_vars
  <2> SUFFICES ASSUME IInv, Next, NEW s \in Session, NEW c \in Component,
                      NEW d \in Component, decided' = <<s, c, "run">>,
                      running'[d] # running[d]
               PROVE  IF config.node[c] = "none" THEN GroupOf(d) = GroupOf(c) ELSE d = c
    OBVIOUS
  <2>1. PICK r \in Session, name \in Name : Kill(r, name) BY DEF Next, Nothing
  <2>2. name = c /\ RunKill(c) BY <2>1 DEF Kill, Nothing
  <2>3. d \in KillOf(config, c) BY <2>2, RunKillFacts DEF IInv
  <2>4. config \in Config /\ Loads(config) BY DEF IInv, Accepted
  <2>5. CASE config.node[c] = "none" BY <2>3, <2>4, <2>5, KillStaysInGroup
  <2>6. CASE config.node[c] # "none" BY <2>3, <2>4, <2>6, KillFacts
  <2> QED BY <2>5, <2>6
<1> QED BY <1>1, Inductive, PTL DEF Spec, SparesOtherGroups

(* KillComponent: in sessions that do not overlap, what is refused to be killed does not
   run, unless the session has started it: what a failed command left can be killed. *)
THEOREM RefusalsAreRight == ~Overlap => (Spec => []RefusedKillIsRight)
<1> SUFFICES ASSUME ~Overlap PROVE Spec => []RefusedKillIsRight OBVIOUS
<1>1. IInv => RefusedKillIsRight
  BY DEF IInv, RefusedIsUnlisted, ListIsGood, RefusedKillIsRight
<1> QED BY <1>1, Inductive, PTL

(* StartComponent: in sessions that do not overlap, the first start of a component finds
   it as the list says, so that no second process of it is made. *)
THEOREM StartsTheOnlyOne == ~Overlap => (Spec => FirstStartOnly)
<1> SUFFICES ASSUME ~Overlap PROVE Spec => FirstStartOnly OBVIOUS
<1> DEFINE A == \A s \in Session : \A c \in started'[s] \ started[s] : running'[c] <= 1
<1>1. IInv /\ [Next]_vars => [A]_vars
  <2> SUFFICES ASSUME IInv, Next, NEW s \in Session, NEW c \in started'[s] \ started[s]
               PROVE  running'[c] <= 1
    OBVIOUS
  <2> USE DEF IInv, TypeOK
  <2>1. ASSUME NEW r \in Session, NEW name \in Name, Start(r, name) PROVE running'[c] <= 1
    <3>1. CASE password_accepted[r] /\ name \in Component \ snapshot[r]
      <4>1. /\ started' = [started EXCEPT ![r] = @ \cup {name}] /\ pc[r] = "open"
            /\ running' = [running EXCEPT ![name] = @ + 1] \/ running' = running
        BY <2>1, <3>1 DEF Start, RunScript
      <4>2. r = s /\ c = name BY <4>1
      <4>3. running[c] = 0 BY <3>1, <4>1, <4>2 DEF ListIsGood
      <4> QED BY <3>1, <4>1, <4>2, <4>3
    <3>2. CASE ~(password_accepted[r] /\ name \in Component \ snapshot[r])
      BY <2>1, <3>2 DEF Start, SayLast, Leave
    <3> QED BY <3>1, <3>2
  <2>2. ASSUME NEW r \in Session, NEW place, Leave(r, place) PROVE FALSE
    BY <2>2 DEF Leave
  <2>3. ASSUME NEW r \in Session, NEW name \in Name, Kill(r, name) PROVE FALSE
    BY <2>2, <2>3 DEF Kill, SayLast
  <2>4. ASSUME NEW r \in Session, NEW given, Pass(r, given) PROVE FALSE
    BY <2>2, <2>4 DEF Pass, SayLast
  <2>5. ASSUME NEW r \in Session, Spawn(r) PROVE FALSE
    BY <2>5 DEF Spawn
  <2>6. ASSUME NEW r \in Session, OtherCommand(r) PROVE running'[c] <= 1
    BY <2>1, <2>2, <2>4, <2>6
    DEF OtherCommand, GetProcessInformation, Unrecognized, SayLast, Quit, Disconnect
  <2> QED BY <2>3, <2>5, <2>6 DEF Next, Spin, Crash
<1> QED BY <1>1, Inductive, PTL DEF Spec, FirstStartOnly
=============================================================================

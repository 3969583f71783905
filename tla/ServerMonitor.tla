---------------------------- MODULE ServerMonitor ----------------------------
(***************************************************************************)
(* server_monitor/server_monitor.pl: a server that starts and kills the    *)
(* other servers of its host for the clients of a web page.                *)
(*                                                                         *)
(* It reads a file of groups of components (a <demo> each), forks a        *)
(* process for every connection, and has that process serve one session of *)
(* commands.  What runs is looked up once, with ps, when the session       *)
(* begins: whether a component may be started or killed is decided by that *)
(* list to the end of the session.                                         *)
(*                                                                         *)
(* Processes come from start scripts and go by kill commands or by         *)
(* themselves.  The session does not look at what system() returns: a      *)
(* script may start nothing, a command may leave what it should stop, and  *)
(* the answer is success all the same.  Only the number of processes is    *)
(* kept, at most MaxProcesses of each component.                           *)
(***************************************************************************)
EXTENDS Naturals, Sequences, FiniteSets, Functions

CONSTANTS
  Groups,       \* the components of each group, a sequence of sequences
  Session,      \* processes that serve a connection
  Overlap,      \* may two sessions be served at a time?
  Disconnects,  \* may a client go without "quit"?
  MaxProcesses  \* bound

Component == UNION {Range(Groups[g]) : g \in DOMAIN Groups}

ASSUME MonitorAssumption ==
  /\ Overlap \in BOOLEAN /\ Disconnects \in BOOLEAN
  /\ MaxProcesses \in Nat \ {0}
  /\ Groups \in Seq(Seq(Component))
  /\ \A g, h \in DOMAIN Groups : \A i \in DOMAIN Groups[g], j \in DOMAIN Groups[h] :
       Groups[g][i] = Groups[h][j] => g = h /\ i = j

VARIABLES
  config,    \* the file: for each component its kill_cmd, for each group its kill_script
  running,   \* number of processes of each component
  pc,        \* of a session: "closed", "open", "spinning"
  snapshot,  \* components the session takes to be running
  password_accepted,
  answer,    \* the last answer sent, over any session
  started,   \* history: the components the session has run the start script of
  decided    \* history: the kill command of the last step, <<session, name, verdict>>

vars == <<config, running, pc, snapshot, password_accepted, answer, started, decided>>

Nothing == << >>

Unknown == "unknown name"
NoName == "no name"

GroupOf(c) == CHOOSE g \in DOMAIN Groups : c \in Range(Groups[g])
PlaceOf(c) == CHOOSE i \in DOMAIN Groups[GroupOf(c)] : Groups[GroupOf(c)][i] = c

KillNode == {"none", "AUTO", "command"}

(***************************************************************************)
(* loadConfig and buildKillCmd: the processes a component's kill command   *)
(* stops.  AUTO is pkill with the component's own identifier, another text *)
(* is a command for it.  Without kill_cmd the command is the value $kill   *)
(* has: the group's kill_script, which stops the group, or the command of  *)
(* the component before it.                                                *)
(***************************************************************************)
GroupScript(cfg, g) == IF cfg.script[g] THEN Range(Groups[g]) ELSE {}

\* Mutation: $kill is not a variable of the loop over the groups.
KillOfFirstScript(cfg, c) ==
  LET g == GroupOf(c)
      withNode == {i \in 1 .. PlaceOf(c) : cfg.node[Groups[g][i]] # "none"}
  IN IF withNode = {} THEN UNION {GroupScript(cfg, h) : h \in 1 .. g}
     ELSE {Groups[g][CHOOSE i \in withNode : \A j \in withNode : j <= i]}

KillOf(cfg, c) ==
  LET g == GroupOf(c)
      withNode == {i \in 1 .. PlaceOf(c) : cfg.node[Groups[g][i]] # "none"}
  IN IF withNode = {} THEN GroupScript(cfg, g)
     ELSE {Groups[g][CHOOSE i \in withNode : \A j \in withNode : j <= i]}

\* It croaks if there is no command at all.
Loads(cfg) == \A c \in Component : KillOf(cfg, c) # {}

Config == [node : [Component -> KillNode], script : [DOMAIN Groups -> BOOLEAN]]

Init ==
  /\ config \in {cfg \in Config : Loads(cfg)}
  /\ running = [c \in Component |-> 0]
  /\ pc = [s \in Session |-> "closed"]
  /\ snapshot = [s \in Session |-> {}]
  /\ password_accepted = [s \in Session |-> FALSE]
  /\ answer = "none"
  /\ started = [s \in Session |-> {}]
  /\ decided = Nothing

\* The lines of ps that a component's process_identifier is found in.
Seen == {c \in Component : running[c] > 0}

\* accept and spawn: the child forgets what the parent's other children know.
Spawn(s) ==
  /\ pc[s] = "closed"
  /\ Overlap \/ \A r \in Session : pc[r] # "open"
  /\ pc' = [pc EXCEPT ![s] = "open"]
  /\ snapshot' = [snapshot EXCEPT ![s] = Seen]
  /\ password_accepted' = [password_accepted EXCEPT ![s] = FALSE]
  /\ started' = [started EXCEPT ![s] = {}]
  /\ UNCHANGED <<config, running, answer>>

\* The session's process is done, or deaf: what it knew matters no more.
Leave(s, place) ==
  /\ pc' = [pc EXCEPT ![s] = place]
  /\ snapshot' = [snapshot EXCEPT ![s] = {}]
  /\ password_accepted' = [password_accepted EXCEPT ![s] = FALSE]
  /\ started' = [started EXCEPT ![s] = {}]

\* SendTo, and the next command is received; or, if $exit is set, the session ends.
Say(message) == answer' = message /\ UNCHANGED <<config, pc, snapshot>>
SayLast(s, message) == answer' = message /\ Leave(s, "closed") /\ UNCHANGED <<config, running>>

\* Names in commands: of components, of nothing the file lists, or left out.
Name == Component \cup {Unknown, NoName}

GetProcessInformation(s) ==
  /\ pc[s] = "open"
  /\ Say("information")
  /\ UNCHANGED <<running, password_accepted, started>>

\* A password that is missing or wrong ends the session, even after a right one.
Pass(s, given) ==
  /\ pc[s] = "open"
  /\ IF given = "right"
     THEN /\ password_accepted' = [password_accepted EXCEPT ![s] = TRUE]
          /\ Say("successful") /\ UNCHANGED <<running, started>>
     ELSE SayLast(s, "error")

\* system "$kill{ $name }": some or all of the processes the command is for end.
RunKill(name) ==
  \E left \in [KillOf(config, name) -> 0 .. MaxProcesses] :
    /\ \A c \in KillOf(config, name) : left[c] <= running[c]
    /\ running' = [c \in Component |-> IF c \in KillOf(config, name) THEN left[c] ELSE running[c]]

\* Mutation: what was killed is taken off the list.
KillAndForget(s, name) ==
  /\ pc[s] = "open"
  /\ IF ~password_accepted[s] THEN SayLast(s, "error") /\ decided' = Nothing
     ELSE /\ UNCHANGED <<config, pc, password_accepted, started>>
          /\ IF name \in snapshot[s]
             THEN /\ RunKill(name) /\ decided' = <<s, name, "run">>
                  /\ answer' = "successful"
                  /\ snapshot' = [snapshot EXCEPT ![s] = @ \ {name}]
             ELSE /\ UNCHANGED <<running, snapshot>> /\ decided' = <<s, name, "refused">>
                  /\ answer' = "error"

\* kill: what is not in the session's list is not killed.  What is stays in it.
Kill(s, name) ==
  /\ pc[s] = "open"
  /\ IF ~password_accepted[s] THEN SayLast(s, "error") /\ decided' = Nothing
     ELSE /\ UNCHANGED <<password_accepted, started>>
          /\ IF name \in snapshot[s]
             THEN RunKill(name) /\ decided' = <<s, name, "run">> /\ Say("successful")
             ELSE UNCHANGED running /\ decided' = <<s, name, "refused">> /\ Say("error")

\* system "$start{$name}", which starts a process or fails.
RunScript(s, name) ==
  /\ \/ running[name] < MaxProcesses /\ running' = [running EXCEPT ![name] = @ + 1]
     \/ UNCHANGED running
  /\ started' = [started EXCEPT ![s] = @ \cup {name}]
  /\ Say("successful") /\ UNCHANGED password_accepted

\* Mutation: whether it runs is not looked at.
StartAnyway(s, name) ==
  /\ pc[s] = "open"
  /\ IF ~password_accepted[s] THEN SayLast(s, "error")
     ELSE IF name \in Component
     THEN RunScript(s, name)
     ELSE Say("error") /\ UNCHANGED <<running, password_accepted, started>>

\* start: what is in the session's list is not started, nor is a name that is not in
\* the file; the answer is the same.
Start(s, name) ==
  /\ pc[s] = "open"
  /\ IF ~password_accepted[s] THEN SayLast(s, "error")
     ELSE IF name \in Component \ snapshot[s]
     THEN RunScript(s, name)
     ELSE /\ Say(IF name = NoName THEN "error" ELSE "successful")
          /\ UNCHANGED <<running, password_accepted, started>>

\* Anything else.
Unrecognized(s) == pc[s] = "open" /\ SayLast(s, "error")

Quit(s) ==
  /\ pc[s] = "open"
  /\ Leave(s, "closed")
  /\ UNCHANGED <<config, running, answer>>

\* The client closes the connection: recv returns nothing, and ReceiveFrom asks it
\* again until it has four bytes.
Disconnect(s) ==
  /\ Disconnects /\ pc[s] = "open"
  /\ Leave(s, "spinning")
  /\ UNCHANGED <<config, running, answer>>

Spin(s) ==
  /\ pc[s] = "spinning"
  /\ UNCHANGED <<config, running, pc, snapshot, password_accepted, answer, started>>

\* A process ends by itself.
Crash(c) ==
  /\ running[c] > 0
  /\ running' = [running EXCEPT ![c] = @ - 1]
  /\ UNCHANGED <<config, pc, snapshot, password_accepted, answer, started>>

OtherCommand(s) ==
  \/ GetProcessInformation(s)
  \/ \E given \in {"right", "wrong"} : Pass(s, given)
  \/ \E name \in Name : Start(s, name)
  \/ Unrecognized(s) \/ Quit(s) \/ Disconnect(s)

Next ==
  \/ \E s \in Session, name \in Name : Kill(s, name)
  \/ /\ \/ \E s \in Session : Spawn(s) \/ OtherCommand(s) \/ Spin(s)
        \/ \E c \in Component : Crash(c)
     /\ decided' = Nothing

Spec == Init /\ [][Next]_vars
-----------------------------------------------------------------------------
TypeOK ==
  /\ config \in Config
  /\ running \in [Component -> 0 .. MaxProcesses]
  /\ pc \in [Session -> {"closed", "open", "spinning"}]
  /\ snapshot \in [Session -> SUBSET Component]
  /\ password_accepted \in [Session -> BOOLEAN]
  /\ answer \in {"none", "information", "successful", "error"}
  /\ started \in [Session -> SUBSET Component]
  /\ decided \in {Nothing} \cup (Session \X Name \X {"run", "refused"})

\* StartComponent: in sessions that do not overlap, the first start of a component by a
\* session never leaves two processes of it, also if the session's kill commands for it
\* have failed.
FirstStartOnly ==
  [][\A s \in Session : \A c \in started'[s] \ started[s] : running'[c] <= 1]_vars

\* KillComponent: whatever the file says, and however commands are carried over, a kill
\* command leaves every other group alone, and that of a component with a kill_cmd of
\* its own leaves the rest of the group alone.
SparesOtherGroups ==
  [][\A s \in Session, c, d \in Component :
       decided' = <<s, c, "run">> /\ running'[d] # running[d] =>
         IF config.node[c] = "none" THEN GroupOf(d) = GroupOf(c) ELSE d = c]_vars

\* KillComponent: "Could not kill" is not said of a component that runs, in sessions that
\* do not overlap, unless the session has started it itself.  What a failed command has
\* left, although it was answered with success, may so be killed again.
RefusedKillIsRight ==
  \A s \in Session, c \in Component :
    decided = <<s, c, "refused">> => running[c] = 0 \/ c \in started[s]
=============================================================================

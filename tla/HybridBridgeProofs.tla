------------------------ MODULE HybridBridgeProofs ------------------------
(***************************************************************************)
(* Proofs about HybridBridge, for any number of outages of MPD: its types, *)
(* and the safety of its startup, its threads and its cleanup.             *)
(***************************************************************************)
EXTENDS HybridBridge, TLAPS

\* The steps of one kind, each by its actions.
LEMMA NextCases ==
  ASSUME Next
  PROVE  StartStep \/ NoticeDeath \/ StartDeferred \/ CleanupStep
         \/ WorkerStep \/ Environment \/ UNCHANGED vars
BY DEF Next, MainStep, MainSleep, ProcessOver

-----------------------------------------------------------------------------
\* The types are proved in three parts: where the threads are, the flags, and
\* everything else.
Places ==
  pc \in [Threads -> {"none", "top", "reconnect", "connecting", "build",
                      "sending", "reading", "command", "writing", "dead"}]

Flags ==
  /\ stop \in BOOLEAN
  /\ deferred \in BOOLEAN
  /\ mpd_connected \in BOOLEAN
  /\ loopback \in BOOLEAN
  /\ server \in BOOLEAN

Values ==
  /\ main \in Startup \cup {"loop"} \cup Cleanup \cup Over
  /\ handles \subseteq Threads
  /\ supports \subseteq Modes
  /\ fd \in {"open", "closed"}
  /\ cava \in {"none", "alive", "dead"}
  /\ client \in {"none", "live", "stale"}
  /\ outages \in 0..MaxOutages

LEMMA PlacesHold == Spec => []Places
<1> USE DEF Places, Threads
<1>1. Init => Places
  BY DEF Init
<1>2. Places /\ [Next]_vars => Places'
  <2> SUFFICES ASSUME Places, [Next]_vars PROVE Places'
    OBVIOUS
  <2> USE DEF setupVars, cavaVars, mpdVars, envVars, SpawnThread, MpdConnect
  <2>1. CASE StartStep
    BY <2>1 DEF StartStep, SerialConnect, Identify, StartMpd, ConnectMpd,
                StartCava, StartCmd, StartSysinfo
  <2>2. CASE NoticeDeath \/ StartDeferred
    BY <2>2 DEF NoticeDeath, StartDeferred, Dead
  <2>3. CASE CleanupStep
    BY <2>3 DEF CleanupStep, Disconnect, Join, Joined, MpdCleanup,
                CavaCleanup, SerialClose
  <2>4. CASE WorkerStep
    <3> USE DEF unchangedByWorker, Step, SeeStop, Back
    <3>1. CASE MpdStep
      BY <3>1 DEF MpdStep, MpdTop, MpdLock, MpdReconnect, MpdBuild
    <3>2. CASE CavaStep
      BY <3>2 DEF CavaStep, CavaTop
    <3>3. CASE CmdStep
      BY <3>3 DEF CmdStep, CmdTop, CmdRead
    <3>4. CASE SysinfoStep
      BY <3>4 DEF SysinfoStep, SysinfoTop
    <3>5. QED BY <2>4, <3>1, <3>2, <3>3, <3>4 DEF WorkerStep
  <2>5. CASE Environment
    BY <2>5 DEF Environment, ServerDown, ServerUp, LoopbackChanges, CavaDies,
                Signal, Panic, Step, unchangedByWorker
  <2>6. CASE UNCHANGED vars
    BY <2>6 DEF vars
  <2>7. QED BY <2>1, <2>2, <2>3, <2>4, <2>5, <2>6, NextCases
<1>3. QED BY <1>1, <1>2, PTL DEF Spec

LEMMA FlagsHold == Spec => []Flags
<1> USE DEF Flags
<1>1. Init => Flags
  BY DEF Init
<1>2. Flags /\ [Next]_vars => Flags'
  <2> SUFFICES ASSUME Flags, [Next]_vars PROVE Flags'
    OBVIOUS
  <2> USE DEF setupVars, cavaVars, mpdVars, envVars, SpawnThread, MpdConnect
  <2>1. CASE StartStep
    BY <2>1 DEF StartStep, SerialConnect, Identify, StartMpd, ConnectMpd,
                StartCava, StartCmd, StartSysinfo
  <2>2. CASE NoticeDeath \/ StartDeferred
    BY <2>2 DEF NoticeDeath, StartDeferred, Dead
  <2>3. CASE CleanupStep
    BY <2>3 DEF CleanupStep, Disconnect, Join, Joined, MpdCleanup,
                CavaCleanup, SerialClose
  <2>4. CASE WorkerStep
    <3> USE DEF unchangedByWorker, Step, SeeStop, Back
    <3>1. CASE MpdStep
      BY <3>1 DEF MpdStep, MpdTop, MpdLock, MpdReconnect, MpdBuild
    <3>2. CASE CavaStep
      BY <3>2 DEF CavaStep, CavaTop
    <3>3. CASE CmdStep
      BY <3>3 DEF CmdStep, CmdTop, CmdRead
    <3>4. CASE SysinfoStep
      BY <3>4 DEF SysinfoStep, SysinfoTop
    <3>5. QED BY <2>4, <3>1, <3>2, <3>3, <3>4 DEF WorkerStep
  <2>5. CASE Environment
    BY <2>5 DEF Environment, ServerDown, ServerUp, LoopbackChanges, CavaDies,
                Signal, Panic, Step, unchangedByWorker
  <2>6. CASE UNCHANGED vars
    BY <2>6 DEF vars
  <2>7. QED BY <2>1, <2>2, <2>3, <2>4, <2>5, <2>6, NextCases
<1>3. QED BY <1>1, <1>2, PTL DEF Spec

LEMMA ValuesHold == Spec => []Values
<1> USE OutagesAssumption DEF Values, Threads, Modes, Startup, Cleanup, Over
<1>1. Init => Values
  BY DEF Init
<1>2. Values /\ [Next]_vars => Values'
  <2> SUFFICES ASSUME Values, [Next]_vars PROVE Values'
    OBVIOUS
  <2> USE DEF setupVars, cavaVars, mpdVars, envVars, SpawnThread, MpdConnect
  <2>1. CASE StartStep
    BY <2>1 DEF StartStep, SerialConnect, Identify, StartMpd, ConnectMpd,
                StartCava, StartCmd, StartSysinfo
  <2>2. CASE NoticeDeath \/ StartDeferred
    BY <2>2 DEF NoticeDeath, StartDeferred, Dead
  <2>3. CASE CleanupStep
    BY <2>3 DEF CleanupStep, Disconnect, Join, Joined, MpdCleanup,
                CavaCleanup, SerialClose
  <2>4. CASE WorkerStep
    <3> USE DEF unchangedByWorker, Step, SeeStop, Back
    <3>1. CASE MpdStep
      BY <3>1 DEF MpdStep, MpdTop, MpdLock, MpdReconnect, MpdBuild
    <3>2. CASE CavaStep
      BY <3>2 DEF CavaStep, CavaTop
    <3>3. CASE CmdStep
      BY <3>3 DEF CmdStep, CmdTop, CmdRead
    <3>4. CASE SysinfoStep
      BY <3>4 DEF SysinfoStep, SysinfoTop
    <3>5. QED BY <2>4, <3>1, <3>2, <3>3, <3>4 DEF WorkerStep
  <2>5. CASE Environment
    <3>1. CASE ServerDown
      BY <3>1 DEF ServerDown
    <3>2. CASE ServerUp \/ LoopbackChanges \/ CavaDies \/ Signal
      BY <3>2 DEF ServerUp, LoopbackChanges, CavaDies, Signal
    <3>3. ASSUME NEW t \in Threads, Panic(t) PROVE Values'
      BY <3>3 DEF Panic, Step, unchangedByWorker
    <3>4. QED BY <2>5, <3>1, <3>2, <3>3 DEF Environment
  <2>6. CASE UNCHANGED vars
    BY <2>6 DEF vars
  <2>7. QED BY <2>1, <2>2, <2>3, <2>4, <2>5, <2>6, NextCases
<1>3. QED BY <1>1, <1>2, PTL DEF Spec

\* Type correctness of the process and what it uses.
THEOREM TypeCorrect == Spec => []TypeOK
<1>1. Places /\ Flags /\ Values => TypeOK
  BY DEF Places, Flags, Values, TypeOK
<1>2. QED BY <1>1, PlacesHold, FlagsHold, ValuesHold, PTL

-----------------------------------------------------------------------------
\* The invariant behind the properties.

Active(t) == pc[t] \notin {"none", "dead"}

\* A thread that has not ended is one that cleanup() will join.
ActiveJoined == \A t \in Threads : Active(t) => t \in handles

\* Before their turn in the startup the threads do not exist.
NotYet ==
  /\ main \in {"connect", "identify"} => handles = {} /\ client = "none"
  /\ main \in {"connect", "identify", "start_mpd", "connect_mpd",
               "start_cava"} =>
       pc["cava"] = "none" /\ cava = "none" /\ ~deferred

\* After the joins no thread is left, after its cleanup no client, and after
\* that no CAVA.
CleanedUp ==
  /\ main \in {"mpd_cleanup", "cava_cleanup", "close", "exited"} =>
       handles = {}
  /\ main \in {"cava_cleanup", "close", "exited"} => client = "none"
  /\ main \in {"close", "exited"} => cava = "none"

\* The port is closed only before there are threads and after the joins; a
\* signal ends the threads where they are.
ClosedAlone ==
  fd = "closed" => main \in {"connect"} \cup Over /\ handles = {}

BridgeInv ==
  /\ ActiveJoined
  /\ NotYet
  /\ CleanedUp
  /\ ClosedAlone
  /\ ReaderHasCava

LEMMA BridgeInvHolds == Spec => []BridgeInv
<1> USE DEF BridgeInv, ActiveJoined, Active, NotYet, CleanedUp,
            ClosedAlone, ReaderHasCava, Threads, Over
<1>1. Init => BridgeInv
  BY DEF Init
<1>2. TypeOK /\ BridgeInv /\ [Next]_vars => BridgeInv'
  <2> SUFFICES ASSUME TypeOK, BridgeInv, [Next]_vars PROVE BridgeInv'
    OBVIOUS
  <2> USE DEF TypeOK, Startup, Cleanup, setupVars, cavaVars, mpdVars, envVars,
              SpawnThread, MpdConnect
  <2>1. CASE StartStep
    <3>1. CASE SerialConnect
      BY <3>1 DEF SerialConnect
    <3>2. CASE Identify
      BY <3>2 DEF Identify
    <3>3. CASE StartMpd
      BY <3>3 DEF StartMpd
    <3>4. CASE ConnectMpd
      BY <3>4 DEF ConnectMpd
    <3>5. CASE StartCava
      BY <3>5 DEF StartCava
    <3>6. CASE StartCmd
      BY <3>6 DEF StartCmd
    <3>7. CASE StartSysinfo
      BY <3>7 DEF StartSysinfo
    <3>8. QED BY <2>1, <3>1, <3>2, <3>3, <3>4, <3>5, <3>6, <3>7 DEF StartStep
  <2>2. CASE NoticeDeath
    BY <2>2 DEF NoticeDeath, Dead
  <2>3. CASE StartDeferred
    BY <2>3 DEF StartDeferred
  <2>4. CASE CleanupStep
    <3>1. CASE Disconnect
      BY <3>1 DEF Disconnect
    <3>2. ASSUME NEW t \in Threads, Join(t) PROVE BridgeInv'
      BY <3>2 DEF Join
    <3>3. CASE Joined
      BY <3>3 DEF Joined
    <3>4. CASE MpdCleanup
      BY <3>4 DEF MpdCleanup
    <3>5. CASE CavaCleanup
      BY <3>5 DEF CavaCleanup
    <3>6. CASE SerialClose
      BY <3>6 DEF SerialClose
    <3>7. QED BY <2>4, <3>1, <3>2, <3>3, <3>4, <3>5, <3>6 DEF CleanupStep
  <2>5. CASE WorkerStep
    <3> USE DEF unchangedByWorker, Step, SeeStop, Back, Running
    <3>1. CASE MpdStep
      BY <3>1 DEF MpdStep, MpdTop, MpdLock, MpdReconnect, MpdBuild
    <3>2. CASE CavaStep
      BY <3>2 DEF CavaStep, CavaTop
    <3>3. CASE CmdStep
      BY <3>3 DEF CmdStep, CmdTop, CmdRead
    <3>4. CASE SysinfoStep
      BY <3>4 DEF SysinfoStep, SysinfoTop
    <3>5. QED BY <2>5, <3>1, <3>2, <3>3, <3>4 DEF WorkerStep
  <2>6. CASE Environment
    <3>1. CASE ServerDown \/ ServerUp \/ LoopbackChanges
      <4>1. UNCHANGED <<main, pc, handles, setupVars, cavaVars>>
            /\ (client = "none" => client' = "none")
        BY <3>1, Zenon DEF ServerDown, ServerUp, LoopbackChanges
      <4> HIDE DEF TypeOK
      <4>2. QED BY <4>1
    <3>2. CASE CavaDies
      BY <3>2 DEF CavaDies, Running
    <3>3. CASE Signal
      BY <3>3 DEF Signal, Running
    <3>4. ASSUME NEW t \in Threads, Panic(t) PROVE BridgeInv'
      BY <3>4 DEF Panic, Step, Running, unchangedByWorker
    <3>5. QED BY <2>6, <3>1, <3>2, <3>3, <3>4 DEF Environment
  <2>7. CASE UNCHANGED vars
    BY <2>7 DEF vars
  <2>8. QED BY <2>1, <2>2, <2>3, <2>4, <2>5, <2>6, <2>7, NextCases
<1>3. QED BY <1>1, <1>2, TypeCorrect, PTL DEF Spec

\* Nobody uses the raw descriptor of a port that was closed: a thread that
\* reads or writes is one that cleanup() has still to join.
THEOREM PortHeld == Spec => []NoIoOnClosedPort
<1>1. BridgeInv => NoIoOnClosedPort
  BY DEF BridgeInv, ActiveJoined, Active, ClosedAlone, NoIoOnClosedPort,
         Threads
<1>2. QED BY <1>1, BridgeInvHolds, PTL

\* Whenever the process ends by itself it leaves no thread, no connection to
\* MPD and no CAVA behind.
THEOREM ExitsClean == Spec => []CleanExit
<1>1. TypeOK /\ BridgeInv => CleanExit
  BY DEF TypeOK, BridgeInv, ActiveJoined, Active, CleanedUp, CleanExit
<1>2. QED BY <1>1, BridgeInvHolds, TypeCorrect, PTL

\* A deferred CAVA has no reader, and a reader has a CAVA to read from.
THEOREM ReaderOwnsCava == Spec => []ReaderHasCava
BY BridgeInvHolds, PTL DEF BridgeInv

-----------------------------------------------------------------------------
(***************************************************************************)
(* The bridge implements BridgeLife.                                       *)
(***************************************************************************)

\* Nothing is there before the statement that makes it.
Fresh ==
  /\ main = "connect" => fd = "closed"
  /\ main \in {"connect", "identify", "start_mpd", "connect_mpd"} =>
       client = "none" /\ pc["mpd"] = "none"
  /\ main \in Startup \ {"start_sysinfo"} => pc["cmd"] = "none"
  /\ main \in Startup => pc["sysinfo"] = "none"

LEMMA FreshHolds == Spec => []Fresh
<1> USE DEF Fresh, Startup, Threads
<1>1. Init => Fresh
  BY DEF Init
<1>2. TypeOK /\ BridgeInv /\ Fresh /\ [Next]_vars => Fresh'
  <2> SUFFICES ASSUME TypeOK, BridgeInv, Fresh, [Next]_vars PROVE Fresh'
    OBVIOUS
  <2>0. pc \in [Threads -> {"none", "top", "reconnect", "connecting", "build",
                            "sending", "reading", "command", "writing",
                            "dead"}]
    BY DEF TypeOK
  <2> USE DEF setupVars, cavaVars, mpdVars, envVars, SpawnThread, MpdConnect
  <2>1. CASE StartStep
    <3>1. CASE SerialConnect \/ Identify \/ StartMpd
      BY <2>0, <3>1 DEF SerialConnect, Identify, StartMpd
    <3>2. CASE ConnectMpd
      BY <2>0, <3>2 DEF ConnectMpd
    <3>3. CASE StartCava
      BY <2>0, <3>3 DEF StartCava
    <3>4. CASE StartCmd \/ StartSysinfo
      BY <2>0, <3>4 DEF StartCmd, StartSysinfo
    <3>5. QED BY <2>1, <3>1, <3>2, <3>3, <3>4 DEF StartStep
  <2>2. CASE NoticeDeath \/ StartDeferred
    BY <2>0, <2>2 DEF NoticeDeath, StartDeferred, Dead
  <2>3. CASE CleanupStep
    BY <2>0, <2>3 DEF CleanupStep, Disconnect, Join, Joined, MpdCleanup,
                      CavaCleanup, SerialClose
  <2>4. CASE WorkerStep
    <3> USE DEF unchangedByWorker, Step, SeeStop, Back
    <3>1. CASE MpdStep
      BY <2>0, <3>1 DEF MpdStep, MpdTop, MpdLock, MpdReconnect, MpdBuild
    <3>2. CASE CavaStep
      BY <2>0, <3>2 DEF CavaStep, CavaTop
    <3>3. CASE CmdStep
      BY <2>0, <3>3 DEF CmdStep, CmdTop, CmdRead
    <3>4. CASE SysinfoStep
      BY <2>0, <3>4 DEF SysinfoStep, SysinfoTop
    <3>5. QED BY <2>4, <3>1, <3>2, <3>3, <3>4 DEF WorkerStep
  <2>5. CASE Environment
    <3>1. CASE ServerDown \/ ServerUp \/ LoopbackChanges \/ CavaDies
      <4>1. UNCHANGED <<main, pc, fd>> /\ (client = "none" => client' = "none")
        BY <3>1, Zenon DEF ServerDown, ServerUp, LoopbackChanges, CavaDies
      <4>2. QED BY <4>1
    <3>2. CASE Signal
      BY <3>2 DEF Signal
    <3>3. ASSUME NEW t \in Threads, Panic(t) PROVE Fresh'
      BY <2>0, <3>3 DEF Panic, Step, unchangedByWorker
    <3>4. QED BY <2>5, <3>1, <3>2, <3>3 DEF Environment
  <2>6. CASE UNCHANGED vars
    BY <2>6 DEF vars
  <2>7. QED BY <2>1, <2>2, <2>3, <2>4, <2>5, <2>6, NextCases
<1>3. QED BY <1>1, <1>2, TypeCorrect, BridgeInvHolds, PTL DEF Spec

\* What the mapping makes of one move of a thread.
LEMMA Moved ==
  ASSUME TypeOK, NEW t \in Threads, NEW label, pc' = [pc EXCEPT ![t] = label]
  PROVE  /\ Stages' = [Stages EXCEPT ![t] = Stage(label)]
         /\ Stage(label) = Stage(pc[t]) => Stages' = Stages
<1>1. pc \in [Threads -> {"none", "top", "reconnect", "connecting", "build",
                          "sending", "reading", "command", "writing", "dead"}]
  BY DEF TypeOK
<1>2. \A u \in Threads : pc'[u] = IF u = t THEN label ELSE pc[u]
  BY <1>1
<1>3. Stages' = [u \in Threads |-> Stage(pc'[u])]
  BY DEF Stages, Stage
<1>4. \A u \in Threads :
        Stage(pc'[u]) = IF u = t THEN Stage(label) ELSE Stage(pc[u])
  BY <1>2
<1>5. Stages' = [u \in Threads |->
                   IF u = t THEN Stage(label) ELSE Stage(pc[u])]
  BY <1>3, <1>4
<1>6. QED BY <1>5 DEF Stages

LEMMA StageOfLabels ==
  /\ Stage("none") = "fresh"
  /\ Stage("dead") = "ended"
  /\ \A label \in {"top", "reconnect", "connecting", "build", "sending",
                   "reading", "command", "writing"} :
       Stage(label) = "working"
BY DEF Stage

\* A thread is at work in the sense of the mapping if it is active.
LEMMA WorkingIsActive ==
  ASSUME NEW t \in Threads
  PROVE  Owner!Working(t) <=> Active(t)
BY DEF Owner!Working, Active, Stages, Stage

LEMMA AliveIsRunning ==
  ASSUME TypeOK
  PROVE  Owner!Alive <=> Running
BY DEF TypeOK, Owner!Alive, Running, Life, Startup, Cleanup, Over

\* Spawning a thread begins it, with at most one resource acquired for it.
LEMMA SpawnIsBegin ==
  ASSUME TypeOK, NEW t \in Threads, SpawnThread(t), pc[t] = "none",
         Life = "serving", UNCHANGED Life, fd = "open", UNCHANGED fd,
         \/ UNCHANGED <<client, cava>>
         \/ client = "none" /\ UNCHANGED cava
         \/ cava' = "alive" /\ UNCHANGED client,
         t = "cava" => cava' = "alive"
  PROVE  Owner!Next
<1>1. Stages[t] = "fresh" /\ Stages' = [Stages EXCEPT ![t] = "working"]
  <2>1. Stages' = [Stages EXCEPT ![t] = Stage("top")]
    BY Moved DEF SpawnThread
  <2>2. QED BY <2>1, StageOfLabels DEF Stages
<1>2. \E new \in SUBSET {"mpd", "cava"} : Held' = Held \cup new
  <2>1. CASE UNCHANGED <<client, cava>>
    <3>1. Held' = Held \cup {}
      BY <2>1 DEF Held
    <3>2. QED BY <3>1
  <2>2. CASE client = "none" /\ UNCHANGED cava
    <3>1. Held' = Held \cup {} \/ Held' = Held \cup {"mpd"}
      BY <2>2 DEF Held
    <3>2. QED BY <3>1
  <2>3. CASE cava' = "alive" /\ UNCHANGED client
    <3>1. Held' = Held \cup {"cava"}
      BY <2>3 DEF Held
    <3>2. QED BY <3>1
  <2>4. QED BY <2>1, <2>2, <2>3
<1>3. Owner!Needs(t) \subseteq Held'
  BY DEF Owner!Needs, Held
<1>4. Owner!Begin(t)
  BY <1>1, <1>2, <1>3 DEF Owner!Begin
<1>5. QED BY <1>4 DEF Owner!Next

\* Startup
LEMMA StartIsOwned ==
  ASSUME TypeOK, BridgeInv, Fresh, StartStep
  PROVE  [Owner!Next]_Owner!lifeVars
<1> USE DEF setupVars, cavaVars, mpdVars, envVars, Life, Cleanup, Over
<1>1. CASE SerialConnect
  <2>1. UNCHANGED Stages
    BY <1>1 DEF SerialConnect, Stages
  <2>2. client = "none" /\ cava = "none" /\ fd = "closed"
    BY <1>1 DEF SerialConnect, BridgeInv, NotYet, Fresh, Startup
  <2>3. CASE main' = "identify" /\ fd' = "open"
    <3>1. Life = "starting" /\ Life' = "starting" /\ Held' = {"port"}
      BY <1>1, <2>2, <2>3 DEF SerialConnect, Held
    <3>2. QED BY <2>1, <3>1 DEF Owner!Next, Owner!OpenPort
  <2>4. CASE main' = "exited" /\ UNCHANGED fd
    <3>1. Life = "starting" /\ Life' = "exited" /\ Held = {} /\ Held' = {}
      BY <1>1, <2>2, <2>4 DEF SerialConnect, Held
    <3>2. \A t \in Threads : ~Owner!Working(t)
      BY <1>1, WorkingIsActive
      DEF SerialConnect, BridgeInv, NotYet, ActiveJoined
    <3>3. QED BY <2>1, <3>1, <3>2 DEF Owner!Next, Owner!Exit
  <2>5. QED BY <1>1, <2>3, <2>4 DEF SerialConnect
<1>2. CASE Identify
  <2>1. UNCHANGED Stages
    BY <1>2 DEF Identify, Stages
  <2>2. client = "none" /\ cava = "none" /\ fd = "open"
    BY <1>2 DEF Identify, BridgeInv, NotYet, ClosedAlone, Fresh, Startup,
                TypeOK
  <2>3. CASE main' = "start_mpd" /\ UNCHANGED fd
    <3>1. /\ Life = "starting" /\ Life' = "serving"
          /\ Held = {"port"} /\ Held' = {"port"}
      BY <1>2, <2>2, <2>3 DEF Identify, Held
    <3>2. QED BY <2>1, <3>1 DEF Owner!Next, Owner!Serve
  <2>4. CASE main' = "exited" /\ fd' = "closed"
    <3>1. /\ Life = "starting" /\ Life' = "exited"
          /\ Held = {"port"} /\ Held' = {}
      BY <1>2, <2>2, <2>4 DEF Identify, Held
    <3>2. \A t \in Threads : ~Owner!Working(t)
      BY <1>2, WorkingIsActive DEF Identify, BridgeInv, NotYet, ActiveJoined
    <3>3. QED BY <2>1, <3>1, <3>2 DEF Owner!Next, Owner!Exit
  <2>5. QED BY <1>2, <2>3, <2>4 DEF Identify
<1>3. CASE StartMpd
  BY <1>3 DEF StartMpd, Held, Stages, Owner!lifeVars
<1>4. CASE ConnectMpd
  BY <1>4, SpawnIsBegin
  DEF ConnectMpd, MpdConnect, Fresh, BridgeInv, ClosedAlone, TypeOK, Threads
<1>5. CASE StartCava
  <2>1. CASE SpawnThread("cava") /\ cava' = "alive"
    BY <1>5, <2>1, SpawnIsBegin
    DEF StartCava, BridgeInv, ClosedAlone, NotYet, TypeOK, Threads
  <2>2. CASE UNCHANGED <<pc, cava>>
    BY <1>5, <2>2 DEF StartCava, Held, Stages, Owner!lifeVars
  <2>3. QED BY <1>5, <2>1, <2>2 DEF StartCava
<1>6. CASE StartCmd
  BY <1>6, SpawnIsBegin
  DEF StartCmd, Fresh, Startup, BridgeInv, ClosedAlone, TypeOK, Threads
<1>7. CASE StartSysinfo
  <2>1. CASE SpawnThread("sysinfo")
    BY <1>7, <2>1, SpawnIsBegin
    DEF StartSysinfo, Fresh, Startup, BridgeInv, ClosedAlone, TypeOK, Threads
  <2>2. CASE UNCHANGED pc
    BY <1>7, <2>2 DEF StartSysinfo, Held, Stages, Owner!lifeVars
  <2>3. QED BY <1>7, <2>1, <2>2 DEF StartSysinfo
<1>8. QED
  BY <1>1, <1>2, <1>3, <1>4, <1>5, <1>6, <1>7 DEF StartStep

\* A move of a thread at work that leaves everything but the connection to
\* MPD as it is.
LEMMA WorkIsRenew ==
  ASSUME TypeOK, NEW t \in Threads, NEW from, NEW to, Step(t, from, to),
         Stage(from) = "working", Stage(to) = "working",
         UNCHANGED unchangedByWorker
  PROVE  Owner!Next
<1>1. UNCHANGED Stages
  BY Moved DEF Step
<1>2. Owner!Alive /\ Owner!Working(t)
  BY AliveIsRunning DEF Step, Owner!Working, Stages
<1>3. UNCHANGED Life /\ Held' \in {Held \cup {"mpd"}, Held \ {"mpd"}}
  BY DEF unchangedByWorker, setupVars, cavaVars, Life, Held
<1>4. Owner!Renew(t)
  BY <1>1, <1>2, <1>3 DEF Owner!Renew
<1>5. QED BY <1>4 DEF Owner!Next

\* A thread ends, and leaves everything as it is.
LEMMA DeathIsEnd ==
  ASSUME TypeOK, NEW t \in Threads, NEW from, Step(t, from, "dead"),
         Stage(from) = "working", UNCHANGED <<unchangedByWorker, client>>
  PROVE  Owner!Next
<1>1. Stages' = [Stages EXCEPT ![t] = "ended"]
  <2>1. Stages' = [Stages EXCEPT ![t] = Stage("dead")]
    BY Moved DEF Step
  <2>2. QED BY <2>1, StageOfLabels
<1>2. Owner!Alive /\ Owner!Working(t)
  BY AliveIsRunning DEF Step, Owner!Working, Stages
<1>3. UNCHANGED <<Life, Held>>
  BY DEF unchangedByWorker, setupVars, cavaVars, Life, Held
<1>4. Owner!End(t)
  BY <1>1, <1>2, <1>3 DEF Owner!End
<1>5. QED BY <1>4 DEF Owner!Next

\* The workers
LEMMA WorkIsOwned ==
  ASSUME TypeOK, WorkerStep
  PROVE  Owner!Next
<1> USE StageOfLabels
<1>1. CASE MpdStep
  <2>1. CASE SeeStop("mpd")
    BY <2>1, DeathIsEnd DEF SeeStop, mpdVars, Threads
  <2>2. CASE MpdTop
    BY <2>2, WorkIsRenew DEF MpdTop, Threads
  <2>3. CASE MpdLock
    BY <2>3, WorkIsRenew DEF MpdLock, Threads
  <2>4. CASE MpdReconnect
    BY <2>4, WorkIsRenew DEF MpdReconnect, Threads
  <2>5. CASE MpdBuild
    BY <2>5, WorkIsRenew DEF MpdBuild, Threads
  <2>6. CASE Back("mpd", "sending")
    BY <2>6, WorkIsRenew DEF Back, Threads
  <2>7. QED BY <1>1, <2>1, <2>2, <2>3, <2>4, <2>5, <2>6 DEF MpdStep
<1>2. CASE CavaStep
  <2>1. CASE SeeStop("cava")
    BY <2>1, DeathIsEnd DEF SeeStop, mpdVars, Threads
  <2>2. CASE CavaTop
    BY <2>2, WorkIsRenew, DeathIsEnd DEF CavaTop, mpdVars, Threads
  <2>3. CASE Back("cava", "writing")
    BY <2>3, WorkIsRenew DEF Back, Threads
  <2>4. QED BY <1>2, <2>1, <2>2, <2>3 DEF CavaStep
<1>3. CASE CmdStep
  <2>1. CASE SeeStop("cmd")
    BY <2>1, DeathIsEnd DEF SeeStop, mpdVars, Threads
  <2>2. CASE CmdTop
    BY <2>2, WorkIsRenew DEF CmdTop, Threads
  <2>3. CASE CmdRead
    BY <2>3, WorkIsRenew DEF CmdRead, Threads
  <2>4. CASE Back("cmd", "command")
    BY <2>4, WorkIsRenew DEF Back, Threads
  <2>5. QED BY <1>3, <2>1, <2>2, <2>3, <2>4 DEF CmdStep
<1>4. CASE SysinfoStep
  <2>1. CASE SeeStop("sysinfo")
    BY <2>1, DeathIsEnd DEF SeeStop, mpdVars, Threads
  <2>2. CASE SysinfoTop
    BY <2>2, WorkIsRenew DEF SysinfoTop, Threads
  <2>3. CASE Back("sysinfo", "sending")
    BY <2>3, WorkIsRenew DEF Back, Threads
  <2>4. QED BY <1>4, <2>1, <2>2, <2>3 DEF SysinfoStep
<1>5. QED BY <1>1, <1>2, <1>3, <1>4 DEF WorkerStep

\* The main loop
LEMMA LoopIsOwned ==
  ASSUME TypeOK, BridgeInv, NoticeDeath \/ StartDeferred
  PROVE  Owner!Next
<1> USE DEF setupVars, cavaVars, mpdVars, Life, Cleanup, Over
<1>1. CASE NoticeDeath
  <2>1. Life = "serving" /\ Life' = "stopping" /\ UNCHANGED <<Stages, Held>>
    BY <1>1 DEF NoticeDeath, Stages, Held
  <2>2. QED BY <2>1 DEF Owner!Next, Owner!Stop
<1>2. CASE StartDeferred
  <2>1. pc["cava"] = "none"
    BY <1>2 DEF StartDeferred, BridgeInv, ReaderHasCava
  <2>2. fd = "open"
    BY <1>2 DEF StartDeferred, BridgeInv, ClosedAlone, TypeOK
  <2>3. QED BY <1>2, <2>1, <2>2, SpawnIsBegin DEF StartDeferred, Threads
<1>3. QED BY <1>1, <1>2

\* cleanup()
LEMMA CleanupIsOwned ==
  ASSUME TypeOK, BridgeInv, CleanupStep
  PROVE  [Owner!Next]_Owner!lifeVars
<1> USE DEF setupVars, cavaVars, mpdVars, Life, Cleanup, Over
<1>1. CASE Disconnect \/ MpdCleanup
  <2>1. Life = "stopping" /\ Life' = "stopping" /\ UNCHANGED Stages
    BY <1>1 DEF Disconnect, MpdCleanup, Stages
  <2>2. Held' = Held \ {"mpd"}
    BY <1>1 DEF Disconnect, MpdCleanup, Held
  <2>3. \A t \in Threads : "mpd" \notin Owner!Needs(t)
    BY DEF Owner!Needs
  <2>4. QED BY <2>1, <2>2, <2>3 DEF Owner!Next, Owner!Release, Owner!Resources
<1>2. ASSUME NEW t \in Threads, Join(t) PROVE UNCHANGED Owner!lifeVars
  BY <1>2 DEF Join, Stages, Held, Owner!lifeVars
<1>3. CASE Joined
  BY <1>3 DEF Joined, Stages, Held, Owner!lifeVars
<1>4. handles = {} => \A t \in Threads : ~Owner!Working(t)
  BY WorkingIsActive DEF BridgeInv, ActiveJoined
<1>5. CASE CavaCleanup
  <2>1. Life = "stopping" /\ Life' = "stopping" /\ UNCHANGED Stages
    BY <1>5 DEF CavaCleanup, Stages
  <2>2. Held' = Held \ {"cava"}
    BY <1>5 DEF CavaCleanup, Held
  <2>3. handles = {}
    BY <1>5 DEF CavaCleanup, BridgeInv, CleanedUp
  <2>4. QED BY <1>4, <2>1, <2>2, <2>3
            DEF Owner!Next, Owner!Release, Owner!Resources
<1>6. CASE SerialClose
  <2>1. Life = "stopping" /\ Life' = "exited" /\ UNCHANGED Stages
    BY <1>6 DEF SerialClose, Stages
  <2>2. handles = {} /\ client = "none" /\ cava = "none"
    BY <1>6 DEF SerialClose, BridgeInv, CleanedUp
  <2>3. Held \subseteq {"port"} /\ Held' = {}
    BY <1>6, <2>2 DEF SerialClose, Held
  <2>4. QED BY <1>4, <2>1, <2>2, <2>3 DEF Owner!Next, Owner!Exit
<1>7. QED BY <1>1, <1>2, <1>3, <1>5, <1>6 DEF CleanupStep

\* The rest of the machine
LEMMA EnvironmentIsOwned ==
  ASSUME TypeOK, Environment
  PROVE  [Owner!Next]_Owner!lifeVars
<1>1. CASE ServerDown \/ ServerUp \/ LoopbackChanges
  <2>1. UNCHANGED <<main, pc, setupVars, cavaVars>>
        /\ (client = "none" <=> client' = "none")
    BY <1>1 DEF ServerDown, ServerUp, LoopbackChanges, mpdVars
  <2>2. QED BY <2>1 DEF setupVars, cavaVars, Life, Stages, Held, Owner!lifeVars
<1>2. CASE CavaDies
  BY <1>2 DEF CavaDies, setupVars, mpdVars, Life, Stages, Held, Owner!lifeVars
<1>3. CASE Signal
  <2>1. UNCHANGED <<Stages, Held>> /\ Life' = "killed"
    BY <1>3 DEF Signal, setupVars, cavaVars, mpdVars, Stages, Held, Life,
                Cleanup, Over
  <2>2. Owner!Alive
    BY <1>3, AliveIsRunning DEF Signal
  <2>3. QED BY <2>1, <2>2 DEF Owner!Next, Owner!Kill
<1>4. ASSUME NEW t \in Threads, Panic(t) PROVE Owner!Next
  BY <1>4, DeathIsEnd, StageOfLabels DEF Panic, mpdVars
<1>5. QED BY <1>1, <1>2, <1>3, <1>4 DEF Environment

\* The bridge implements the abstract account of ownership: whatever its
\* threads, MPD and CAVA do, it starts a thread only on what that needs,
\* releases nothing that a working thread needs, ends by itself only with
\* everything released, and is otherwise killed.
THEOREM BridgeKeepsOwnership == Spec => ImplementsLife
<1>1. Init => Owner!Init
  BY DEF Init, Owner!Init, Life, Stages, Stage, Held
<1>2. TypeOK /\ BridgeInv /\ Fresh /\ [Next]_vars
        => [Owner!Next]_Owner!lifeVars
  <2> SUFFICES ASSUME TypeOK, BridgeInv, Fresh, [Next]_vars
               PROVE  [Owner!Next]_Owner!lifeVars
    OBVIOUS
  <2>1. CASE UNCHANGED vars
    BY <2>1 DEF vars, setupVars, cavaVars, mpdVars, Life, Stages, Held,
                Owner!lifeVars
  <2>2. QED
    BY <2>1, NextCases, StartIsOwned, LoopIsOwned, CleanupIsOwned,
       WorkIsOwned, EnvironmentIsOwned
<1>3. QED
  BY <1>1, <1>2, TypeCorrect, BridgeInvHolds, FreshHolds, PTL
  DEF Spec, ImplementsLife, Owner!Spec

Proved == INSTANCE BridgeLifeProofs WITH
            life <- Life, stage <- Stages, held <- Held

LEMMA BridgeIsProved == Spec => Proved!Spec
<1>1. Owner!Init => Proved!Init
  BY DEF Owner!Init, Proved!Init
<1>2. [Owner!Next]_Owner!lifeVars => [Proved!Next]_Proved!lifeVars
  BY DEF Owner!Next, Owner!lifeVars, Owner!OpenPort, Owner!Serve,
         Owner!Begin, Owner!Renew, Owner!End, Owner!Stop, Owner!Release,
         Owner!Exit, Owner!Kill, Owner!Needs, Owner!Alive, Owner!Working,
         Owner!Resources, Proved!Next, Proved!lifeVars, Proved!OpenPort,
         Proved!Serve, Proved!Begin, Proved!Renew, Proved!End, Proved!Stop,
         Proved!Release, Proved!Exit, Proved!Kill, Proved!Needs,
         Proved!Alive, Proved!Working, Proved!Resources
<1>3. QED
  BY <1>1, <1>2, BridgeKeepsOwnership, PTL
  DEF ImplementsLife, Owner!Spec, Proved!Spec

\* So what BridgeLife promises holds of the bridge: a thread at work has the
\* port open and, the reader, its CAVA for as long as the process lives, and
\* nothing is left by an exit.
THEOREM PromiseHeld == Spec => []Owner!Promise
<1>1. Proved!Promise => Owner!Promise
  BY DEF Owner!Promise, Owner!Needs, Owner!Alive, Owner!Working,
         Proved!Promise, Proved!Needs, Proved!Alive, Proved!Working
<1>2. Proved!Spec => [](Proved!TypeOK /\ Proved!Promise)
  BY Proved!PromiseKept
<1>3. QED BY <1>1, <1>2, BridgeIsProved, PTL

\* No thread of the bridge is started twice: there is never a second reader
\* of CAVA, though the main loop tries the deferred start again at each turn
\* (run, lines 281-302), and a worker that died is not replaced in the same
\* process.  A thread starts only before the cleanup, with the port open and,
\* the reader, with CAVA.  Nothing happens any more once the process is over.
WorksOnce ==
  /\ \A t \in Threads :
       /\ pc[t] # "none" => pc'[t] # "none"
       /\ pc[t] = "dead" => pc'[t] = "dead"
       /\ pc[t] = "none" /\ pc'[t] # "none" =>
            /\ main \notin Cleanup \cup Over
            /\ fd' = "open"
            /\ t = "cava" => cava' # "none"
  /\ main \in Over => UNCHANGED <<main, Held>>

THEOREM EachWorksOnce == Spec => [][WorksOnce]_vars
<1>1. ASSUME TypeOK, TypeOK', [Proved!OneWay]_Proved!lifeVars
      PROVE  WorksOnce
  <2>1. /\ (Proved!Alive \/ UNCHANGED <<Life, Stages, Held>>)
        /\ \A t \in Threads :
             /\ Stages[t] # "fresh" => Stages'[t] # "fresh"
             /\ Stages[t] = "ended" => Stages'[t] = "ended"
             /\ Stages[t] = "fresh" /\ Stages'[t] # "fresh" =>
                  Life = "serving" /\ Proved!Needs(t) \subseteq Held'
    BY <1>1 DEF Proved!OneWay, Proved!lifeVars
  <2>2. \A t \in Threads : /\ Stages[t] = Stage(pc[t])
                           /\ Stages'[t] = Stage(pc'[t])
    BY DEF Stages
  <2>3. \A t \in Threads : /\ Stages[t] = "fresh" <=> pc[t] = "none"
                           /\ Stages'[t] = "fresh" <=> pc'[t] = "none"
                           /\ Stages[t] = "ended" <=> pc[t] = "dead"
                           /\ Stages'[t] = "ended" <=> pc'[t] = "dead"
    BY <2>2 DEF Stage
  <2>4. Life = "serving" => main \notin Cleanup \cup Over
    BY DEF Life, Cleanup, Over
  <2>5. \A t \in Threads : Proved!Needs(t) \subseteq Held' =>
          fd' = "open" /\ (t = "cava" => cava' # "none")
    BY DEF Proved!Needs, Held
  <2>6. main \in Over => UNCHANGED <<main, Held>>
    <3>1. SUFFICES ASSUME main \in Over PROVE UNCHANGED <<main, Held>>
      OBVIOUS
    <3>2. Life = main /\ ~Proved!Alive
      BY <3>1 DEF Life, Over, Cleanup, Proved!Alive
    <3>3. UNCHANGED <<Life, Held>>
      BY <2>1, <3>2
    <3>4. Life' \in Over => Life' = main'
      BY DEF Life, Over
    <3>5. QED BY <3>1, <3>2, <3>3, <3>4
  <2>7. QED BY <2>1, <2>3, <2>4, <2>5, <2>6 DEF WorksOnce
<1>2. Proved!Spec => [][Proved!OneWay]_Proved!lifeVars
  BY Proved!StagesGoOneWay
<1>3. [Proved!OneWay]_Proved!lifeVars /\ TypeOK /\ TypeOK'
        => [WorksOnce]_vars
  BY <1>1
<1>4. QED BY <1>2, <1>3, BridgeIsProved, TypeCorrect, PTL
-----------------------------------------------------------------------------
(***************************************************************************)
(* The joins of cleanup() end: what is proved of that is the measure it    *)
(* rests on.                                                               *)
(***************************************************************************)

\* How many steps a thread takes at most until it ends, once it is to stop.
Rank(label) ==
  CASE label = "reconnect" -> 5
    [] label = "connecting" -> 4
    [] label \in {"build", "reading"} -> 3
    [] label \in {"sending", "command", "writing"} -> 2
    [] label = "top" -> 1
    [] OTHER -> 0

\* The flag is raised on the way from the main loop to cleanup().
StopIsLate == stop => main \in Cleanup \cup Over

LEMMA StopIsLateHolds == Spec => []StopIsLate
<1> USE DEF StopIsLate, Cleanup, Over
<1>1. Init => StopIsLate
  BY DEF Init
<1>2. TypeOK /\ StopIsLate /\ [Next]_vars => StopIsLate'
  <2> SUFFICES ASSUME TypeOK, StopIsLate, [Next]_vars PROVE StopIsLate'
    OBVIOUS
  <2>0. stop \in BOOLEAN
    BY DEF TypeOK
  <2>1. CASE StartStep
    BY <2>0, <2>1 DEF StartStep, SerialConnect, Identify, StartMpd, ConnectMpd,
                      StartCava, StartCmd, StartSysinfo
  <2>2. CASE NoticeDeath \/ StartDeferred
    BY <2>2 DEF NoticeDeath, StartDeferred
  <2>3. CASE CleanupStep
    BY <2>3 DEF CleanupStep, Disconnect, Join, Joined, MpdCleanup,
                CavaCleanup, SerialClose
  <2>4. CASE WorkerStep
    <3>1. UNCHANGED unchangedByWorker
      BY <2>4, Zenon
      DEF WorkerStep, MpdStep, CavaStep, CmdStep, SysinfoStep, SeeStop, Back,
          MpdTop, MpdLock, MpdReconnect, MpdBuild, CavaTop, CmdTop, CmdRead,
          SysinfoTop
    <3>2. QED BY <3>1 DEF unchangedByWorker
  <2>5. CASE Environment
    BY <2>5 DEF Environment, ServerDown, ServerUp, LoopbackChanges, CavaDies,
                Signal, Panic, unchangedByWorker
  <2>6. CASE UNCHANGED vars
    BY <2>6 DEF vars
  <2>7. QED BY <2>1, <2>2, <2>3, <2>4, <2>5, <2>6, NextCases
<1>3. QED BY <1>1, <1>2, TypeCorrect, PTL DEF Spec

\* A step of thread t leads to its end, or leaves it where it was.
Closer(t) == pc'[t] = pc[t] \/ Rank(pc'[t]) < Rank(pc[t])

LEMMA StepIsCloser ==
  ASSUME TypeOK, NEW t \in Threads, NEW from, NEW to, Step(t, from, to),
         Rank(to) < Rank(from)
  PROVE  \A u \in Threads : Closer(u)
BY DEF TypeOK, Step, Closer

\* Once the threads are told to stop, none is started and each ends after a
\* few steps, wherever it was: it comes to the top of its loop at most once
\* (hybrid_bridge.rs lines 416-634: each of the four loops looks at the flag
\* there).  So the joins of cleanup() wait for at most five
\* steps of a thread; that it takes them is left to the fairness of the runs.
THEOREM ShutdownIsShort ==
  Spec => [][stop => stop' /\ \A t \in Threads : Closer(t)]_vars
<1>1. ASSUME TypeOK, StopIsLate, [Next]_vars, stop
      PROVE  stop' /\ \A t \in Threads : Closer(t)
  <2>1. main \notin Startup \cup {"loop"}
    BY <1>1 DEF StopIsLate, Startup, Cleanup, Over
  <2>2. ~StartStep /\ ~NoticeDeath /\ ~StartDeferred
    BY <2>1 DEF Startup, StartStep, SerialConnect, Identify, StartMpd,
                ConnectMpd, StartCava, StartCmd, StartSysinfo, NoticeDeath,
                StartDeferred
  <2>3. CASE UNCHANGED <<pc, stop>>
    BY <1>1, <2>3 DEF Closer
  <2>4. CleanupStep => UNCHANGED <<pc, stop>>
    BY DEF CleanupStep, Disconnect, Join, Joined, MpdCleanup, CavaCleanup,
           SerialClose
  <2>5. CASE WorkerStep
    <3>1. UNCHANGED unchangedByWorker
      BY <2>5, Zenon
      DEF WorkerStep, MpdStep, CavaStep, CmdStep, SysinfoStep, SeeStop, Back,
          MpdTop, MpdLock, MpdReconnect, MpdBuild, CavaTop, CmdTop, CmdRead,
          SysinfoTop
    <3>2. \E t \in Threads, from, to \in
            {"top", "reconnect", "connecting", "build", "sending", "reading",
             "command", "writing", "dead"} :
            Step(t, from, to) /\ Rank(to) < Rank(from)
      <4>1. CASE MpdStep
        BY <1>1, <4>1
        DEF MpdStep, SeeStop, MpdTop, MpdLock, MpdReconnect, MpdBuild, Back,
            Rank, Threads
      <4>2. CASE CavaStep
        BY <1>1, <4>2 DEF CavaStep, SeeStop, CavaTop, Back, Rank, Threads
      <4>3. CASE CmdStep
        BY <1>1, <4>3
        DEF CmdStep, SeeStop, CmdTop, CmdRead, Back, Rank, Threads
      <4>4. CASE SysinfoStep
        BY <1>1, <4>4 DEF SysinfoStep, SeeStop, SysinfoTop, Back, Rank, Threads
      <4>5. QED BY <2>5, <4>1, <4>2, <4>3, <4>4 DEF WorkerStep
    <3>3. QED BY <1>1, <3>1, <3>2, StepIsCloser DEF unchangedByWorker
  <2>6. CASE Environment
    <3>1. CASE ServerDown \/ ServerUp \/ LoopbackChanges \/ CavaDies \/ Signal
      BY <2>3, <3>1 DEF ServerDown, ServerUp, LoopbackChanges, CavaDies, Signal
    <3>2. ASSUME NEW t \in Threads, Panic(t)
          PROVE  stop' /\ \A u \in Threads : Closer(u)
      <4>1. Step(t, "top", "dead") /\ UNCHANGED unchangedByWorker
        BY <3>2 DEF Panic
      <4>2. Rank("dead") < Rank("top")
        BY DEF Rank
      <4>3. QED BY <1>1, <4>1, <4>2, StepIsCloser DEF unchangedByWorker
    <3>3. QED BY <2>6, <3>1, <3>2 DEF Environment
  <2>7. UNCHANGED vars => UNCHANGED <<pc, stop>>
    BY DEF vars
  <2>8. QED BY <1>1, <2>2, <2>3, <2>4, <2>5, <2>6, <2>7, NextCases
<1>2. TypeOK /\ StopIsLate /\ [Next]_vars
        => [stop => stop' /\ \A t \in Threads : Closer(t)]_vars
  BY <1>1
<1>3. QED BY <1>2, TypeCorrect, StopIsLateHolds, PTL DEF Spec
=============================================================================

---------------------------- MODULE HybridBridge ----------------------------
(***************************************************************************)
(* The hybrid bridge process (modules/hybrid_bridge.rs): a main thread     *)
(* that starts up to four worker threads for one display, watches them,    *)
(* and takes the process down when one of them has died; with the parts of *)
(* SerialComm, MpdBridge and CavaManager those threads share.              *)
(*                                                                         *)
(* The workers look at the stop flag only at the top of their loops.  A    *)
(* state of a worker other than "top" is a call it is in the middle of: in *)
(* "reading" (readline) and "writing" (a critical message, written by the  *)
(* caller) it uses the raw descriptor of the serial port; in "connecting"  *)
(* it holds the lock of the MPD client.  Messages for the queue of the     *)
(* serial connection and the contents of commands are left out.            *)
(***************************************************************************)
EXTENDS Integers, FiniteSets

CONSTANT MaxOutages   \* bound: how often the MPD server goes down

ASSUME OutagesAssumption == MaxOutages \in Nat

Threads == {"mpd", "cava", "cmd", "sysinfo"}
Modes == {"mpd", "cava", "sysinfo"}

VARIABLES
  main,          \* where the main thread is
  pc,            \* where each worker is: "none" before it is spawned
  handles,       \* `handles': workers to watch and to join
  stop,          \* SIGNAL_RECEIVED
  supports,      \* the modes of the display
  fd,            \* the serial port: "open" or "closed"
  cava,          \* the child of the CavaManager: "none", "alive" or "dead"
  deferred,      \* cava_deferred
  client,        \* the MPD client: "none", "live", "stale" (connection lost)
  mpd_connected,
  loopback,      \* the audio loopback device is there
  server,        \* the MPD server is up
  outages        \* for the bound MaxOutages

mpdVars == <<client, mpd_connected>>
envVars == <<loopback, server, outages>>
cavaVars == <<cava, deferred>>
setupVars == <<supports, fd>>
vars == <<main, pc, handles, stop, setupVars, cavaVars, mpdVars, envVars>>

Startup == {"connect", "identify", "start_mpd", "connect_mpd", "start_cava",
            "start_cmd", "start_sysinfo"}
Cleanup == {"disconnect", "join", "mpd_cleanup", "cava_cleanup", "close"}
Over == {"exited", "killed"}

TypeOK ==
  /\ main \in Startup \cup {"loop"} \cup Cleanup \cup Over
  /\ pc \in [Threads -> {"none", "top", "reconnect", "connecting", "build",
                         "sending", "reading", "command", "writing", "dead"}]
  /\ handles \subseteq Threads
  /\ stop \in BOOLEAN
  /\ supports \subseteq Modes
  /\ fd \in {"open", "closed"}
  /\ cava \in {"none", "alive", "dead"}
  /\ deferred \in BOOLEAN
  /\ client \in {"none", "live", "stale"}
  /\ mpd_connected \in BOOLEAN
  /\ loopback \in BOOLEAN
  /\ server \in BOOLEAN
  /\ outages \in 0..MaxOutages

Init ==
  /\ main = "connect"
  /\ pc = [t \in Threads |-> "none"]
  /\ handles = {}
  /\ stop = FALSE
  /\ supports = {}
  /\ fd = "closed"
  /\ cava = "none"
  /\ deferred = FALSE
  /\ client = "none"
  /\ mpd_connected = FALSE
  /\ loopback \in BOOLEAN
  /\ server \in BOOLEAN
  /\ outages = 0

Running == main \notin Over

\* Nobody holds the lock of the MPD client across a connect or a command.
MpdFree == pc["mpd"] # "connecting" /\ pc["cmd"] # "command"

-----------------------------------------------------------------------------
\* Startup, by the main thread

SerialConnect ==
  /\ main = "connect"
  /\ \/ main' = "identify" /\ fd' = "open"
     \/ main' = "exited" /\ UNCHANGED fd
  /\ UNCHANGED <<pc, handles, stop, supports, cavaVars, mpdVars, envVars>>

\* Mutant: any word of the answer is taken for a mode.
IdentifyAnyMode ==
  /\ main = "identify"
  /\ \/ main' = "start_mpd" /\ supports' \in SUBSET (Modes \cup {"radio"})
        /\ UNCHANGED fd
     \/ main' = "exited" /\ fd' = "closed" /\ UNCHANGED supports
  /\ UNCHANGED <<pc, handles, stop, cavaVars, mpdVars, envVars>>

\* Without an answer run() returns 1 and the drop of SerialComm closes the
\* port.  A display that names no mode is run all the same.
Identify ==
  /\ main = "identify"
  /\ \/ main' = "start_mpd" /\ supports' \in SUBSET Modes /\ UNCHANGED fd
     \/ main' = "exited" /\ fd' = "closed" /\ UNCHANGED supports
  /\ UNCHANGED <<pc, handles, stop, cavaVars, mpdVars, envVars>>

SpawnThread(t) ==
  /\ pc' = [pc EXCEPT ![t] = "top"]
  /\ handles' = handles \cup {t}

\* MpdBridge::connect: the old client is dropped first; the flag changes
\* only if the new connection stands.
MpdConnect ==
  IF server
    THEN client' = "live" /\ mpd_connected' = TRUE
    ELSE client' = "none" /\ UNCHANGED mpd_connected

StartMpd ==
  /\ main = "start_mpd"
  /\ main' = IF "mpd" \in supports THEN "connect_mpd" ELSE "start_cava"
  /\ UNCHANGED <<pc, handles, stop, setupVars, cavaVars, mpdVars, envVars>>

\* The checker starts whether or not MPD was there.
ConnectMpd ==
  /\ main = "connect_mpd"
  /\ MpdConnect
  /\ SpawnThread("mpd")
  /\ main' = "start_cava"
  /\ UNCHANGED <<stop, setupVars, cavaVars, envVars>>

\* Mutant: the reader is started whether or not CAVA was.
StartCavaReaderAnyway ==
  /\ main = "start_cava"
  /\ main' = "start_cmd"
  /\ IF "cava" \notin supports
       THEN UNCHANGED <<pc, handles, cavaVars>>
       ELSE /\ SpawnThread("cava")
            /\ \/ loopback /\ cava' = "alive" /\ UNCHANGED deferred
               \/ deferred' = TRUE /\ UNCHANGED cava
  /\ UNCHANGED <<stop, setupVars, mpdVars, envVars>>

\* CavaManager::start(0): it does not wait for the loopback.
StartCava ==
  /\ main = "start_cava"
  /\ main' = "start_cmd"
  /\ IF "cava" \notin supports
       THEN UNCHANGED <<pc, handles, cavaVars>>
       ELSE \/ /\ loopback
               /\ cava' = "alive"
               /\ SpawnThread("cava")
               /\ UNCHANGED deferred
            \/ /\ deferred' = TRUE
               /\ UNCHANGED <<pc, handles, cava>>
  /\ UNCHANGED <<stop, setupVars, mpdVars, envVars>>

StartCmd ==
  /\ main = "start_cmd"
  /\ SpawnThread("cmd")
  /\ main' = "start_sysinfo"
  /\ UNCHANGED <<stop, setupVars, cavaVars, mpdVars, envVars>>

StartSysinfo ==
  /\ main = "start_sysinfo"
  /\ IF "sysinfo" \in supports
       THEN SpawnThread("sysinfo")
       ELSE UNCHANGED <<pc, handles>>
  /\ main' = "loop"
  /\ UNCHANGED <<stop, setupVars, cavaVars, mpdVars, envVars>>

StartStep ==
  \/ SerialConnect \/ Identify \/ StartMpd \/ ConnectMpd
  \/ StartCava \/ StartCmd \/ StartSysinfo

-----------------------------------------------------------------------------
\* The main loop

Dead == {t \in handles : pc[t] = "dead"}

\* Mutant: the loop is left without request_stop (the code before 0.2.0).
NoticeDeathQuietly ==
  /\ main = "loop"
  /\ Dead # {}
  /\ handles' = handles \ Dead
  /\ main' = "disconnect"
  /\ UNCHANGED <<pc, stop, setupVars, cavaVars, mpdVars, envVars>>

\* Every finished worker leaves the list; the others are told to stop.
NoticeDeath ==
  /\ main = "loop"
  /\ Dead # {}
  /\ handles' = handles \ Dead
  /\ stop' = TRUE
  /\ main' = "disconnect"
  /\ UNCHANGED <<pc, setupVars, cavaVars, mpdVars, envVars>>

\* Mutant: the start is tried again after it has succeeded.
StartDeferredAgain ==
  /\ main = "loop"
  /\ Dead = {}
  /\ deferred
  /\ loopback
  /\ cava' = "alive"
  /\ SpawnThread("cava")
  /\ UNCHANGED <<main, stop, setupVars, deferred, mpdVars, envVars>>

StartDeferred ==
  /\ main = "loop"
  /\ Dead = {}
  /\ deferred
  /\ loopback
  /\ cava' = "alive"
  /\ deferred' = FALSE
  /\ SpawnThread("cava")
  /\ UNCHANGED <<main, stop, setupVars, mpdVars, envVars>>

\* Nothing died, and CAVA is not deferred or cannot start yet.
MainSleep ==
  /\ main = "loop"
  /\ Dead = {}
  /\ UNCHANGED vars

-----------------------------------------------------------------------------
\* cleanup(), by the main thread

\* MpdBridge::disconnect waits for the lock of the client.
Disconnect ==
  /\ main = "disconnect"
  /\ MpdFree
  /\ client' = "none"
  /\ main' = "join"
  /\ UNCHANGED <<pc, handles, stop, setupVars, cavaVars, mpd_connected,
                 envVars>>

Join(t) ==
  /\ main = "join"
  /\ t \in handles
  /\ pc[t] = "dead"
  /\ handles' = handles \ {t}
  /\ UNCHANGED <<main, pc, stop, setupVars, cavaVars, mpdVars, envVars>>

\* Mutant: the workers are not joined.
JoinNone ==
  /\ main = "join"
  /\ main' = "mpd_cleanup"
  /\ UNCHANGED <<pc, handles, stop, setupVars, cavaVars, mpdVars, envVars>>

Joined ==
  /\ main = "join"
  /\ handles = {}
  /\ main' = "mpd_cleanup"
  /\ UNCHANGED <<pc, handles, stop, setupVars, cavaVars, mpdVars, envVars>>

\* Mutant: the disconnect before the joins is thought to be enough.
MpdCleanupSerialOnly ==
  /\ main = "mpd_cleanup"
  /\ main' = "cava_cleanup"
  /\ UNCHANGED <<pc, handles, stop, setupVars, cavaVars, mpdVars, envVars>>

\* MpdBridge::cleanup: the checker may have connected again since.
MpdCleanup ==
  /\ main = "mpd_cleanup"
  /\ MpdFree
  /\ client' = "none"
  /\ main' = "cava_cleanup"
  /\ UNCHANGED <<pc, handles, stop, setupVars, cavaVars, mpd_connected,
                 envVars>>

\* CavaManager::cleanup terminates the child and reaps it.
CavaCleanup ==
  /\ main = "cava_cleanup"
  /\ cava' = "none"
  /\ main' = "close"
  /\ UNCHANGED <<pc, handles, stop, setupVars, deferred, mpdVars, envVars>>

\* SerialComm::close, and the process ends.
SerialClose ==
  /\ main = "close"
  /\ fd' = "closed"
  /\ main' = "exited"
  /\ UNCHANGED <<pc, handles, stop, supports, cavaVars, mpdVars, envVars>>

CleanupStep ==
  \/ Disconnect \/ (\E t \in Threads : Join(t)) \/ Joined
  \/ MpdCleanup \/ CavaCleanup \/ SerialClose

MainStep == StartStep \/ NoticeDeath \/ StartDeferred \/ CleanupStep

-----------------------------------------------------------------------------
\* The workers

Step(t, from, to) ==
  /\ Running
  /\ pc[t] = from
  /\ pc' = [pc EXCEPT ![t] = to]

unchangedByWorker == <<main, handles, stop, setupVars, cavaVars, envVars>>

\* Each loop ends when it sees the flag.
SeeStop(t) ==
  /\ stop
  /\ Step(t, "top", "dead")
  /\ UNCHANGED <<unchangedByWorker, mpdVars>>

\* mpd_checker_loop.  The five seconds between two attempts only delay.
MpdTop ==
  /\ ~stop
  /\ Step("mpd", "top", IF mpd_connected THEN "build" ELSE "reconnect")
  /\ UNCHANGED <<unchangedByWorker, mpdVars>>

\* connect() takes the lock and drops the old client.  The flag may have been
\* raised, and Disconnect been done, since the top of the loop.
MpdLock ==
  /\ MpdFree
  /\ Step("mpd", "reconnect", "connecting")
  /\ client' = "none"
  /\ UNCHANGED <<unchangedByWorker, mpd_connected>>

\* After a success the state is built at once, whatever the flag says.
MpdReconnect ==
  /\ Step("mpd", "connecting", IF server THEN "build" ELSE "top")
  /\ MpdConnect
  /\ UNCHANGED unchangedByWorker

\* Mutant: a failed status does not tell that the connection is lost.
MpdBuildKeepFlag ==
  /\ MpdFree
  /\ Step("mpd", "build", IF client = "live" THEN "sending" ELSE "top")
  /\ UNCHANGED <<unchangedByWorker, mpdVars>>

\* build_state_json: without a client it does nothing; a status that fails,
\* as it may also on a live connection, drops the flag, not the client.
MpdBuild ==
  /\ MpdFree
  /\ \/ /\ client = "live"
        /\ Step("mpd", "build", "sending")
        /\ UNCHANGED mpd_connected
     \/ /\ client # "none"
        /\ Step("mpd", "build", "top")
        /\ mpd_connected' = FALSE
     \/ /\ client = "none"
        /\ Step("mpd", "build", "top")
        /\ UNCHANGED mpd_connected
  /\ UNCHANGED <<unchangedByWorker, client>>

\* cava_reader_loop: a child that has exited ends the thread.
CavaTop ==
  /\ ~stop
  /\ \/ cava = "alive" /\ Step("cava", "top", "writing")
     \/ cava = "dead" /\ Step("cava", "top", "dead")
  /\ UNCHANGED <<unchangedByWorker, mpdVars>>

\* command_processor_loop: read_message takes the raw descriptor, if there
\* is one, and reads without the lock.
CmdTop ==
  /\ ~stop
  /\ fd = "open"
  /\ Step("cmd", "top", "reading")
  /\ UNCHANGED <<unchangedByWorker, mpdVars>>

\* Nothing was read, or something that is not for MPD; or a command for it,
\* which handle_command carries out once it has the lock of the client.
CmdRead ==
  /\ \/ Step("cmd", "reading", "top")
     \/ "mpd" \in supports /\ MpdFree /\ Step("cmd", "reading", "command")
  /\ UNCHANGED <<unchangedByWorker, mpdVars>>

\* sysinfo_checker_loop
SysinfoTop ==
  /\ ~stop
  /\ Step("sysinfo", "top", "sending")
  /\ UNCHANGED <<unchangedByWorker, mpdVars>>

\* The call of send_message, the spectrum write or the command returns.
Back(t, from) ==
  /\ Step(t, from, "top")
  /\ UNCHANGED <<unchangedByWorker, mpdVars>>

\* In a build that unwinds a panic ends the thread (with the release profile
\* it aborts the process, which is Signal).  A panic that holds a lock, and
\* so poisons it, is left out.
Panic(t) ==
  /\ Step(t, "top", "dead")
  /\ UNCHANGED <<unchangedByWorker, mpdVars>>

MpdStep ==
  \/ SeeStop("mpd") \/ MpdTop \/ MpdLock \/ MpdReconnect \/ MpdBuild
  \/ Back("mpd", "sending")
CavaStep == SeeStop("cava") \/ CavaTop \/ Back("cava", "writing")
CmdStep == SeeStop("cmd") \/ CmdTop \/ CmdRead \/ Back("cmd", "command")
SysinfoStep ==
  SeeStop("sysinfo") \/ SysinfoTop \/ Back("sysinfo", "sending")

WorkerStep == MpdStep \/ CavaStep \/ CmdStep \/ SysinfoStep

-----------------------------------------------------------------------------
\* The rest of the machine

ServerDown ==
  /\ Running
  /\ server /\ outages < MaxOutages
  /\ server' = FALSE
  /\ outages' = outages + 1
  /\ client' = IF client = "live" THEN "stale" ELSE client
  /\ UNCHANGED <<main, pc, handles, stop, setupVars, cavaVars, mpd_connected,
                 loopback>>

ServerUp ==
  /\ Running
  /\ ~server
  /\ server' = TRUE
  /\ UNCHANGED <<main, pc, handles, stop, setupVars, cavaVars, mpdVars,
                 loopback, outages>>

LoopbackChanges ==
  /\ Running
  /\ loopback' = ~loopback
  /\ UNCHANGED <<main, pc, handles, stop, setupVars, cavaVars, mpdVars, server,
                 outages>>

CavaDies ==
  /\ Running
  /\ cava = "alive"
  /\ cava' = "dead"
  /\ UNCHANGED <<main, pc, handles, stop, setupVars, deferred, mpdVars, envVars>>

\* SIGTERM or SIGINT: the handler runs an empty closure and calls _exit; a
\* panic of the release build aborts.
Signal ==
  /\ Running
  /\ main' = "killed"
  /\ UNCHANGED <<pc, handles, stop, setupVars, cavaVars, mpdVars, envVars>>

Environment ==
  \/ ServerDown \/ ServerUp \/ LoopbackChanges \/ CavaDies \/ Signal
  \/ \E t \in Threads : Panic(t)

ProcessOver == ~Running /\ UNCHANGED vars

Next == MainStep \/ MainSleep \/ WorkerStep \/ Environment \/ ProcessOver

Spec == Init /\ [][Next]_vars

\* Every thread goes on: reads, writes and connects return, and a CAVA that
\* can be started is started in the end.  The command thread takes and drops
\* the lock of the MPD client for ever; between two commands it reads and
\* sleeps for milliseconds, so that a checker blocked on the lock gets it:
\* strong fairness.  Nothing has to fail.
Fairness ==
  /\ WF_vars(MainStep)
  /\ SF_vars(MpdStep)
  /\ WF_vars(CavaStep)
  /\ WF_vars(CmdStep)
  /\ WF_vars(SysinfoStep)

FairSpec == Spec /\ Fairness

-----------------------------------------------------------------------------
\* No thread is reading from or writing to the raw descriptor of a serial
\* port that was closed: read_message and critical sends use it without the
\* lock close() takes, so cleanup() must join first (lines 401-412).
NoIoOnClosedPort ==
  fd = "closed" => pc["cmd"] # "reading" /\ pc["cava"] # "writing"

\* When the process has ended by itself, whatever the reason and whatever
\* the workers were doing, no worker was left behind, MPD is disconnected
\* (also when the checker reconnected during the cleanup) and no CAVA is left.
CleanExit ==
  main = "exited" =>
    /\ \A t \in Threads : pc[t] \in {"none", "dead"}
    /\ client = "none"
    /\ cava = "none"

\* The CAVA child is started for exactly one reader: while it is deferred no
\* reader exists, and a reader always has a child to read from (lines
\* 222-233 and 281-302).
ReaderHasCava ==
  /\ deferred => pc["cava"] = "none" /\ cava = "none"
  /\ pc["cava"] \notin {"none", "dead"} => cava # "none"

\* What BridgeLife calls the life of the bridge, the stage of a thread and
\* what the process holds.  A CAVA that has died is held until it is reaped.
Life ==
  IF main \in {"connect", "identify"} THEN "starting"
  ELSE IF main \in Cleanup THEN "stopping"
  ELSE IF main \in Over THEN main
  ELSE "serving"

Stage(label) == IF label = "none" THEN "fresh"
                ELSE IF label = "dead" THEN "ended" ELSE "working"
Stages == [t \in Threads |-> Stage(pc[t])]

Held == {r \in {"port", "mpd", "cava"} :
           \/ r = "port" /\ fd = "open"
           \/ r = "mpd" /\ client # "none"
           \/ r = "cava" /\ cava # "none"}

Owner == INSTANCE BridgeLife WITH
           life <- Life,
           stage <- Stages,
           held <- Held

\* Through every interleaving of startup, outages, deaths, reconnections and
\* cleanup() the bridge acquires and releases what it uses in the order that
\* ownership asks for: nobody is left without what it works on, and nothing
\* is left by an exit (run, lines 160-310, and cleanup, lines 397-413).
ImplementsLife == Owner!Spec

\* Liveness: when a worker has died the process ends, so that the watcher
\* sees it and starts another (CHANGELOG 0.2.0; signal_handler, lines 53-55).
DeathEndsProcess ==
  (\E t \in Threads : pc[t] = "dead") ~> ~Running

\* Liveness: a lost MPD server that is back is connected again, unless the
\* bridge itself ends (mpd_checker_loop and the flag of build_state_json).
MpdRecovers ==
  (pc["mpd"] \notin {"none", "dead"} /\ client # "live" /\ server)
    ~> (client = "live" \/ ~server \/ pc["mpd"] = "dead" \/ stop \/ ~Running)

\* Liveness: a deferred CAVA starts once the loopback is there and stays.
DeferredStarts ==
  (deferred /\ loopback) ~> (~deferred \/ ~loopback \/ stop \/ ~Running)

\* Violated: no CAVA process outlives its bridge ("Watcher's bridge child
\* process, MPD client, CAVA subprocess, serial fd -- all clean up
\* automatically", docs/compare-c-vs-rust.md:105-108).
NoOrphanCava == ~Running => cava # "alive"
=============================================================================

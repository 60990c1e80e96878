------------------------------- MODULE Watcher -------------------------------
(***************************************************************************)
(* The watcher (bin/watcher.rs): one thread that finds display devices,    *)
(* asks each what it is, runs one bridge process for one of them and       *)
(* restarts it, in udev mode (run) or in polling mode (run_polling).       *)
(*                                                                         *)
(* The watcher's own steps take seconds (identification, one second of     *)
(* settling after a spawn), so pc splits them, and devices, bridge and     *)
(* CAVA processes change under it between any two steps.                   *)
(*                                                                         *)
(* A device is the number of its /dev/ttyACM node: lists of devices are    *)
(* sorted in descending order, so they are sets taken from the top.  The   *)
(* code always drains the udev socket and looks only at which devices were *)
(* added and which were removed: the queued events are two sets.  What a   *)
(* device answers to "identify" does not change, so the kind of bridge is  *)
(* a function of the device.                                               *)
(***************************************************************************)
EXTENDS Integers, FiniteSets

CONSTANTS
  Devices,            \* device numbers
  Answer,             \* [Devices -> Kinds \cup {"none"}]
  NULL,
  UdevMode,           \* FALSE: no udev monitor, polling mode
  IdentifyRetries,    \* IDENTIFY_RETRIES (3)
  FailureThreshold,   \* COOLDOWN_FAILURE_THRESHOLD (3)
  InitialSkip,        \* COOLDOWN_INITIAL_SKIP (3)
  MaxSkip,            \* COOLDOWN_MAX_SKIP (30)
  MaxTroubles         \* bound: plugs, unplugs and deaths in a behaviour

Kinds == {"mpd", "cava", "hybrid"}

\* There are finitely many devices, so any of them that are there have a
\* greatest one (stated in the form the proofs use).
ASSUME DevicesAssumption ==
  /\ Devices \subseteq Nat /\ NULL \notin Devices
  /\ \A S \in (SUBSET Devices) \ {{}} : \E d \in S : \A e \in S : d >= e
ASSUME AnswerAssumption == Answer \in [Devices -> Kinds \cup {"none"}]
ASSUME LimitsAssumption ==
  /\ UdevMode \in BOOLEAN
  /\ IdentifyRetries \in Nat \ {0}
  /\ FailureThreshold \in Nat \ {0}
  /\ InitialSkip \in Nat \ {0}
  /\ MaxSkip \in Nat /\ InitialSkip <= MaxSkip
  /\ MaxTroubles \in Nat

VARIABLES
  \* the machine
  present,     \* the devices that are plugged in
  added,       \* Add events queued in the udev socket
  gone,        \* Remove events queued in the udev socket
  proc,        \* the device of the bridge process that is alive, or NULL
  cava,        \* a CAVA process is running
  troubles,    \* for the bound MaxTroubles
  \* struct Watcher
  active,      \* the device of Active, or NULL
  bridge,      \* the device of the child process in `bridge', or NULL
  in_grace,    \* bridge_started_at is less than 8 s ago
  cooldowns,   \* an absent entry is one of zeros
  \* control
  pc,
  monitor,     \* the udev monitor exists
  todo,        \* the devices still to handle: `devices' or `pending'
  removed,     \* `removed'
  hotplug,     \* todo is `pending'
  attempts,    \* failed attempts to identify the current device
  lost         \* history: devices whose Remove event nobody will process

machineVars == <<present, added, gone, proc, cava, troubles>>
watcherVars == <<active, bridge, in_grace, cooldowns>>
controlVars == <<pc, monitor, todo, removed, hotplug, attempts>>
vars == <<machineVars, watcherVars, controlVars, lost>>

Cooldown == [failures : 0..FailureThreshold, skip_cycles : 0..MaxSkip,
             skip_remaining : 0..MaxSkip]
NoCooldown == [failures |-> 0, skip_cycles |-> 0, skip_remaining |-> 0]

TypeOK ==
  /\ present \subseteq Devices
  /\ added \subseteq Devices
  /\ gone \subseteq Devices
  /\ proc \in Devices \cup {NULL}
  /\ cava \in BOOLEAN
  /\ troubles \in 0..MaxTroubles
  /\ active \in Devices \cup {NULL}
  /\ bridge \in Devices \cup {NULL}
  /\ in_grace \in BOOLEAN
  /\ cooldowns \in [Devices -> Cooldown]
  /\ pc \in {"poll", "collect", "each", "handle", "identify", "spawn",
             "settle", "removed"}
  /\ monitor \in BOOLEAN
  /\ todo \subseteq Devices
  /\ removed \subseteq Devices
  /\ hotplug \in BOOLEAN
  /\ attempts \in 0..(IdentifyRetries - 1)
  /\ lost \subseteq Devices

\* run() scans before it builds the udev monitor.
Init ==
  /\ present \in SUBSET Devices
  /\ added = {} /\ gone = {}
  /\ proc = NULL
  /\ cava = FALSE
  /\ troubles = 0
  /\ active = NULL
  /\ bridge = NULL
  /\ in_grace = FALSE
  /\ cooldowns = [d \in Devices |-> NoCooldown]
  /\ pc = "handle"
  /\ monitor = FALSE
  /\ todo = present
  /\ removed = {}
  /\ hotplug = FALSE
  /\ attempts = 0
  /\ lost = {}

\* The first of a list sorted in descending order.
Top(S) == CHOOSE d \in S : \A e \in S : d >= e

Current == Top(todo)

-----------------------------------------------------------------------------
\* The machine

Trouble == troubles < MaxTroubles /\ troubles' = troubles + 1

\* A device that comes back brings its node, and its history, back to life.
Plug(d) ==
  /\ d \notin present
  /\ Trouble
  /\ present' = present \cup {d}
  /\ added' = IF monitor THEN added \cup {d} ELSE added
  /\ lost' = lost \ {d}
  /\ UNCHANGED <<gone, proc, cava, watcherVars, controlVars>>

\* Without a monitor there is no event.  The bridge process lives on: it
\* does not give up on a device that fails (serial_queue only latches).
Unplug(d) ==
  /\ d \in present
  /\ Trouble
  /\ present' = present \ {d}
  /\ IF monitor
       THEN gone' = gone \cup {d} /\ UNCHANGED lost
       ELSE lost' = lost \cup {d} /\ UNCHANGED gone
  /\ UNCHANGED <<added, proc, cava, watcherVars, controlVars>>

\* A bridge process that dies leaves its CAVA process behind.
BridgeDies ==
  /\ proc # NULL
  /\ Trouble
  /\ proc' = NULL
  /\ UNCHANGED <<present, added, gone, cava, watcherVars, controlVars, lost>>

\* A bridge starts CAVA when it is ready, which may take longer than the
\* watcher's grace period (check_loopback, up to 120 s).
CavaStarts ==
  /\ proc # NULL
  /\ Answer[proc] \in {"cava", "hybrid"}
  /\ ~cava
  /\ cava' = TRUE
  /\ UNCHANGED <<present, added, gone, proc, troubles, watcherVars,
                 controlVars, lost>>

CavaDies ==
  /\ cava
  /\ Trouble
  /\ cava' = FALSE
  /\ UNCHANGED <<present, added, gone, proc, watcherVars, controlVars, lost>>

\* A CAVA that outlived its bridge ends too, with the write that finds the
\* pipe broken (NeitherOutlives of CavaBridge), but at its own time.
OrphanEnds ==
  /\ cava
  /\ proc = NULL
  /\ cava' = FALSE
  /\ UNCHANGED <<present, added, gone, proc, troubles, watcherVars,
                 controlVars, lost>>

GraceEnds ==
  /\ in_grace
  /\ in_grace' = FALSE
  /\ UNCHANGED <<machineVars, active, bridge, cooldowns, controlVars, lost>>

Machine ==
  \/ \E d \in Devices : Plug(d) \/ Unplug(d)
  \/ BridgeDies \/ CavaStarts \/ CavaDies \/ OrphanEnds \/ GraceEnds

-----------------------------------------------------------------------------
\* Helpers of the watcher

\* Mutant: the back-off doubles without a limit.
FailedUncapped(c) ==
  LET n == IF c.failures < FailureThreshold THEN c.failures + 1
                                            ELSE c.failures
      cycles == IF c.skip_cycles < InitialSkip THEN InitialSkip
                                               ELSE 2 * c.skip_cycles
  IN  IF n < FailureThreshold
        THEN [c EXCEPT !.failures = n]
        ELSE [failures |-> n, skip_cycles |-> cycles,
              skip_remaining |-> cycles]

\* cooldown_record_failure: failures only ever meets FailureThreshold, where
\* it saturates.
Failed(c) ==
  LET n == IF c.failures < FailureThreshold THEN c.failures + 1
                                            ELSE c.failures
      twice == IF 2 * c.skip_cycles > MaxSkip THEN MaxSkip
                                              ELSE 2 * c.skip_cycles
      cycles == IF c.skip_cycles < InitialSkip THEN InitialSkip ELSE twice
  IN  IF n < FailureThreshold
        THEN [c EXCEPT !.failures = n]
        ELSE [failures |-> n, skip_cycles |-> cycles,
              skip_remaining |-> cycles]

RecordFailure(d) == cooldowns' = [cooldowns EXCEPT ![d] = Failed(@)]

\* Mutant: a success resets the failures only.
ClearFailures(d) ==
  cooldowns' = [cooldowns EXCEPT ![d].failures = 0]

\* cooldown_record_success and cooldown_remove
ClearCooldown(d) == cooldowns' = [cooldowns EXCEPT ![d] = NoCooldown]

\* cleanup_bridges: the child is killed and reaped, then whatever else looks
\* like a bridge, then CAVA.
CleanupBridges ==
  /\ proc' = NULL
  /\ bridge' = NULL
  /\ cava' = FALSE

Answers(d) == d \in present /\ Answer[d] # "none"

-----------------------------------------------------------------------------
\* handle_new_device and start_bridge, for the first device of todo

\* The list is done; for run(), the removals come next.
HandleDone ==
  /\ pc = "handle"
  /\ todo = {}
  /\ pc' = "removed"
  /\ UNCHANGED <<machineVars, watcherVars, monitor, todo, removed, hotplug,
                 attempts, lost>>

\* Mutant: the old bridge is not stopped for the new device.
HandleNextNoCleanup ==
  /\ pc = "handle"
  /\ todo # {}
  /\ IF hotplug THEN ClearCooldown(Current) ELSE UNCHANGED cooldowns
  /\ pc' = "identify"
  /\ attempts' = 0
  /\ UNCHANGED <<machineVars, active, bridge, in_grace, monitor, todo, removed,
                 hotplug, lost>>

\* Whatever runs is stopped before the new device is even identified.
HandleNext ==
  /\ pc = "handle"
  /\ todo # {}
  /\ IF active # NULL \/ bridge # NULL
       THEN CleanupBridges
       ELSE UNCHANGED <<proc, bridge, cava>>
  /\ IF hotplug THEN ClearCooldown(Current) ELSE UNCHANGED cooldowns
  /\ pc' = "identify"
  /\ attempts' = 0
  /\ UNCHANGED <<present, added, gone, troubles, active, in_grace, monitor,
                 todo, removed, hotplug, lost>>

IdentifyOk ==
  /\ pc = "identify"
  /\ Answers(Current)
  /\ ClearCooldown(Current)
  /\ pc' = "spawn"
  /\ attempts' = 0
  /\ UNCHANGED <<machineVars, active, bridge, in_grace, monitor, todo, removed,
                 hotplug, lost>>

\* Any attempt may fail, also on a device that works.
IdentifyRetry ==
  /\ pc = "identify"
  /\ attempts + 1 < IdentifyRetries
  /\ attempts' = attempts + 1
  /\ UNCHANGED <<machineVars, watcherVars, pc, monitor, todo, removed, hotplug,
                 lost>>

\* handle_new_device returns false: active is left as it was.
IdentifyFails ==
  /\ pc = "identify"
  /\ attempts + 1 = IdentifyRetries
  /\ RecordFailure(Current)
  /\ todo' = todo \ {Current}
  /\ pc' = "handle"
  /\ attempts' = 0
  /\ UNCHANGED <<machineVars, active, bridge, in_grace, monitor, removed,
                 hotplug, lost>>

KillCavaFor(d) ==
  IF Answer[d] = "cava" THEN cava' = FALSE ELSE UNCHANGED cava

Spawn ==
  /\ pc = "spawn"
  /\ KillCavaFor(Current)
  /\ proc' = Current
  /\ pc' = "settle"
  /\ UNCHANGED <<present, added, gone, troubles, watcherVars, monitor, todo,
                 removed, hotplug, attempts, lost>>

\* No binary, or the spawn fails.
SpawnFails ==
  /\ pc = "spawn"
  /\ KillCavaFor(Current)
  /\ todo' = todo \ {Current}
  /\ pc' = "handle"
  /\ UNCHANGED <<present, added, gone, proc, troubles, watcherVars, monitor,
                 removed, hotplug, attempts, lost>>

\* The child is alive one second later: the rest of the list is dropped.
SettleAlive ==
  /\ pc = "settle"
  /\ proc # NULL
  /\ bridge' = Current
  /\ active' = Current
  /\ in_grace' = TRUE
  /\ todo' = {}
  /\ pc' = "handle"
  /\ UNCHANGED <<machineVars, cooldowns, monitor, removed, hotplug, attempts,
                 lost>>

SettleDead ==
  /\ pc = "settle"
  /\ proc = NULL
  /\ todo' = todo \ {Current}
  /\ pc' = "handle"
  /\ UNCHANGED <<machineVars, watcherVars, monitor, removed, hotplug, attempts,
                 lost>>

Handle ==
  \/ HandleDone \/ HandleNext
  \/ IdentifyOk \/ IdentifyRetry \/ IdentifyFails
  \/ Spawn \/ SpawnFails \/ SettleAlive \/ SettleDead

-----------------------------------------------------------------------------
\* The removals of run(); the loop, of either mode, starts again after them

RemoveDevice(d) ==
  /\ pc = "removed"
  /\ d \in removed
  /\ removed' = removed \ {d}
  /\ ClearCooldown(d)
  /\ IF active = d
       THEN CleanupBridges /\ active' = NULL
       ELSE UNCHANGED <<proc, bridge, cava, active>>
  /\ UNCHANGED <<present, added, gone, troubles, in_grace, pc, monitor, todo,
                 hotplug, attempts, lost>>

\* After the first scan this is where run() builds its monitor.
LoopAgain ==
  /\ pc = "removed"
  /\ removed = {}
  /\ pc' = "poll"
  /\ monitor' = UdevMode
  /\ hotplug' = FALSE
  /\ UNCHANGED <<machineVars, watcherVars, todo, removed, attempts, lost>>

-----------------------------------------------------------------------------
\* check_active_bridge_health

\* Where the two loops call it: at a poll timeout of run(), or when
\* run_polling() comes to the active device.
Checking ==
  \/ pc = "poll" /\ UdevMode /\ added \cup gone = {} /\ active # NULL
  \/ pc = "each" /\ todo # {} /\ Current = active

BridgeFoundDead == bridge # NULL /\ proc = NULL

HealthRestart ==
  /\ Checking
  /\ BridgeFoundDead
  /\ bridge' = NULL
  /\ todo' = {active}
  /\ pc' = "handle"
  /\ UNCHANGED <<machineVars, active, in_grace, cooldowns, monitor, removed,
                 hotplug, attempts, lost>>

\* A CAVA bridge without CAVA is replaced without asking the device again.
CavaFoundDead == Answer[active] = "cava" /\ ~in_grace /\ ~cava

\* Mutant: CAVA is only looked for while there is a bridge.
HealthCavaHeld ==
  /\ Checking
  /\ bridge # NULL /\ ~BridgeFoundDead
  /\ CavaFoundDead
  /\ CleanupBridges
  /\ todo' = {active}
  /\ pc' = "spawn"
  /\ UNCHANGED <<present, added, gone, troubles, active, in_grace, cooldowns,
                 monitor, removed, hotplug, attempts, lost>>

HealthCava ==
  /\ Checking
  /\ ~BridgeFoundDead
  /\ CavaFoundDead
  /\ CleanupBridges
  /\ todo' = {active}
  /\ pc' = "spawn"
  /\ UNCHANGED <<present, added, gone, troubles, active, in_grace, cooldowns,
                 monitor, removed, hotplug, attempts, lost>>

HealthFine ==
  /\ Checking
  /\ ~BridgeFoundDead
  /\ ~CavaFoundDead
  /\ todo' = {}
  /\ pc' = "poll"
  /\ UNCHANGED <<machineVars, watcherVars, monitor, removed, hotplug, attempts,
                 lost>>

Health == HealthRestart \/ HealthCava \/ HealthFine

-----------------------------------------------------------------------------
\* run()

\* Mutant: only devices that were just added are scanned.
RescanAdded ==
  /\ pc = "poll" /\ UdevMode
  /\ added \cup gone = {}
  /\ active = NULL
  /\ todo' = added
  /\ pc' = "handle"
  /\ UNCHANGED <<machineVars, watcherVars, monitor, removed, hotplug, attempts,
                 lost>>

\* Nothing is active and device_check_interval has passed.
Rescan ==
  /\ pc = "poll" /\ UdevMode
  /\ added \cup gone = {}
  /\ active = NULL
  /\ todo' = present
  /\ pc' = "handle"
  /\ UNCHANGED <<machineVars, watcherVars, monitor, removed, hotplug, attempts,
                 lost>>

\* Mutant: the removals read along with an addition are left out.
ReadEventsAddsFirst ==
  /\ pc = "poll" /\ UdevMode
  /\ added \cup gone # {}
  /\ todo' = added
  /\ removed' = IF added = {} THEN gone ELSE {}
  /\ added' = {} /\ gone' = {}
  /\ pc' = IF added = {} THEN "removed" ELSE "collect"
  /\ UNCHANGED <<present, proc, cava, troubles, watcherVars, monitor, hotplug,
                 attempts, lost>>

ReadEvents ==
  /\ pc = "poll" /\ UdevMode
  /\ added \cup gone # {}
  /\ todo' = added
  /\ removed' = gone
  /\ added' = {} /\ gone' = {}
  /\ pc' = IF added = {} THEN "removed" ELSE "collect"
  /\ UNCHANGED <<present, proc, cava, troubles, watcherVars, monitor, hotplug,
                 attempts, lost>>

\* While other devices may follow the first, Remove events are skipped.
CollectMore ==
  /\ pc = "collect"
  /\ added \cup gone # {}
  /\ todo' = todo \cup added
  /\ lost' = lost \cup (gone \ present)
  /\ added' = {} /\ gone' = {}
  /\ UNCHANGED <<present, proc, cava, troubles, watcherVars, pc, monitor,
                 removed, hotplug, attempts>>

\* 100 ms without an event, or the end of the window.
CollectDone ==
  /\ pc = "collect"
  /\ hotplug' = TRUE
  /\ pc' = "handle"
  /\ UNCHANGED <<machineVars, watcherVars, monitor, todo, removed, attempts,
                 lost>>

Run == Rescan \/ ReadEvents \/ CollectMore \/ CollectDone

-----------------------------------------------------------------------------
\* run_polling()

\* No devices, or none of them is found: what was active is dropped.
DropActive ==
  IF active # NULL
    THEN CleanupBridges /\ active' = NULL
    ELSE UNCHANGED <<proc, bridge, cava, active>>

PollNothing ==
  /\ pc = "poll" /\ ~UdevMode
  /\ present = {}
  /\ DropActive
  /\ UNCHANGED <<present, added, gone, troubles, in_grace, cooldowns,
                 controlVars, lost>>

PollDevices ==
  /\ pc = "poll" /\ ~UdevMode
  /\ present # {}
  /\ todo' = present
  /\ pc' = "each"
  /\ UNCHANGED <<machineVars, watcherVars, monitor, removed, hotplug, attempts,
                 lost>>

NotActive == pc = "each" /\ todo # {} /\ Current # active

CoolingDown(d) == cooldowns[d].skip_remaining > 0

\* Mutant: a skipped turn is not counted.
PollSkipForever ==
  /\ NotActive
  /\ CoolingDown(Current)
  /\ todo' = todo \ {Current}
  /\ UNCHANGED <<machineVars, watcherVars, pc, monitor, removed, hotplug,
                 attempts, lost>>

PollSkip ==
  /\ NotActive
  /\ CoolingDown(Current)
  /\ cooldowns' = [cooldowns EXCEPT ![Current].skip_remaining = @ - 1]
  /\ todo' = todo \ {Current}
  /\ UNCHANGED <<machineVars, active, bridge, in_grace, pc, monitor, removed,
                 hotplug, attempts, lost>>

\* A device that answers takes over, whatever is active.
PollIdentified ==
  /\ NotActive
  /\ ~CoolingDown(Current)
  /\ Answers(Current)
  /\ ClearCooldown(Current)
  /\ todo' = {Current}
  /\ pc' = "handle"
  /\ UNCHANGED <<machineVars, active, bridge, in_grace, monitor, removed,
                 hotplug, attempts, lost>>

PollSilent ==
  /\ NotActive
  /\ ~CoolingDown(Current)
  /\ RecordFailure(Current)
  /\ todo' = todo \ {Current}
  /\ UNCHANGED <<machineVars, active, bridge, in_grace, pc, monitor, removed,
                 hotplug, attempts, lost>>

\* Mutant: a list in which the active device is missing changes nothing.
PollNotFoundKeep ==
  /\ pc = "each"
  /\ todo = {}
  /\ pc' = "poll"
  /\ UNCHANGED <<machineVars, watcherVars, monitor, todo, removed, hotplug,
                 attempts, lost>>

PollNotFound ==
  /\ pc = "each"
  /\ todo = {}
  /\ DropActive
  /\ pc' = "poll"
  /\ UNCHANGED <<present, added, gone, troubles, in_grace, cooldowns, monitor,
                 todo, removed, hotplug, attempts, lost>>

RunPolling ==
  \/ PollNothing \/ PollDevices \/ PollSkip
  \/ PollIdentified \/ PollSilent \/ PollNotFound

-----------------------------------------------------------------------------
WatcherStep ==
  \/ Handle
  \/ (\E d \in Devices : RemoveDevice(d)) \/ LoopAgain
  \/ Health
  \/ Run
  \/ RunPolling

Next == Machine \/ WatcherStep

Spec == Init /\ [][Next]_vars

\* The watcher goes on.  A device that can answer does so sooner or later if
\* it is asked again and again, not every spawn fails, a bridge left alone
\* sooner or later has its CAVA running, a CAVA without a bridge ends, and so
\* does the grace period.  Nothing has to be plugged, unplugged or die.
Fairness ==
  /\ WF_vars(WatcherStep)
  /\ \A d \in Devices : /\ SF_vars(IdentifyOk /\ Current = d)
                        /\ SF_vars(PollIdentified /\ Current = d)
  /\ SF_vars(Spawn)
  /\ SF_vars(CavaStarts)
  /\ WF_vars(OrphanEnds)
  /\ WF_vars(GraceEnds)

FairSpec == Spec /\ Fairness

-----------------------------------------------------------------------------
\* A bridge is only started when no other one is alive: two processes would
\* read and write one serial port (handle_new_device, lines 146-150, and
\* check_active_bridge_health, lines 270-278).
SpawnAlone == pc = "spawn" => proc = NULL

\* A live bridge is always the one the watcher holds a handle of, so that it
\* will notice its death and can stop it, and it is the one for the active
\* device.  Only in the second after a spawn is the child not held yet.
BridgeHeld ==
  /\ proc # NULL /\ pc # "settle" => bridge = proc
  /\ bridge # NULL => active = bridge

\* One bridge at a time, and never out of the watcher's hands, though new
\* devices, removals, deaths and restarts follow one another in any order
\* during the seconds its own steps take.
OneBridge == SpawnAlone /\ BridgeHeld

\* In udev mode an active device that is gone is on its way to be dropped,
\* its Remove event queued or read, unless that event is one of those the
\* code never reads: sent before the monitor existed (run, lines 327-332) or
\* skipped in the collect window (line 391).
StaleOnlyIfLost ==
  UdevMode /\ active # NULL /\ active \notin present =>
    active \in gone \cup removed \cup lost

\* A device is skipped only after FailureThreshold failures without a
\* success, and never for longer than its latest back-off.
CooldownEarned ==
  \A d \in Devices :
    /\ cooldowns[d].skip_cycles > 0
         <=> cooldowns[d].failures = FailureThreshold
    /\ cooldowns[d].skip_remaining <= cooldowns[d].skip_cycles

\* Liveness: with nothing active, a device that can answer gets a bridge, or
\* goes away, whatever else is plugged in and however often it failed before
\* (the rescan of run, the cool-down of run_polling).
Served ==
  (active = NULL /\ \E d \in Devices : Answers(d))
    ~> (active # NULL \/ ~\E d \in Devices : Answers(d))

\* Liveness: a CAVA bridge that died is replaced, also if the device does not
\* answer any more (check_active_bridge_health starts one whenever CAVA does
\* not run, lines 263-281), and also if it died where the watcher held no child
\* and its CAVA, which is_cava_running (lines 493-501) takes for a healthy one,
\* hides the death for as long as it lives.
CavaBridgeRespawned ==
  (active # NULL /\ proc = NULL /\ Answer[active] = "cava")
    ~> (proc # NULL \/ active = NULL)

\* Liveness: in polling mode a device that was unplugged does not stay active.
StaleDropped ==
  (~UdevMode /\ active # NULL /\ active \notin present)
    ~> (active = NULL \/ active \in present)

\* Liveness, violated: a bridge of any kind that died is replaced while its
\* device is there ("so cleanup() joins terminate and the process can exit
\* for the watcher to restart it", core/signal_handler.rs:53-55).
BridgeRespawned ==
  (active # NULL /\ proc = NULL /\ active \in present)
    ~> (proc # NULL \/ active = NULL \/ active \notin present)
=============================================================================

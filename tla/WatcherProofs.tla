---------------------------- MODULE WatcherProofs ----------------------------
(***************************************************************************)
(* Proofs about Watcher, for every set of devices, every answer they give  *)
(* and every limit, in both modes.                                         *)
(***************************************************************************)
EXTENDS Watcher, TLAPS

\* The first of a list is one of the list.
LEMMA TopInList ==
  ASSUME NEW S \in SUBSET Devices, S # {}
  PROVE  Top(S) \in S
<1>1. \E d \in S : \A e \in S : d >= e
  BY DevicesAssumption
<1>2. QED BY <1>1 DEF Top

\* A recorded failure leaves a well-formed cool-down that was earned.
EarnedBy(c) ==
  /\ c.skip_cycles > 0 <=> c.failures = FailureThreshold
  /\ c.skip_remaining <= c.skip_cycles

LEMMA FailedCooldown ==
  ASSUME NEW c \in Cooldown
  PROVE  /\ Failed(c) \in Cooldown
         /\ EarnedBy(c) => EarnedBy(Failed(c))
<1> USE LimitsAssumption DEF Cooldown, EarnedBy
<1> DEFINE n == IF c.failures < FailureThreshold THEN c.failures + 1
                                                 ELSE c.failures
           twice == IF 2 * c.skip_cycles > MaxSkip THEN MaxSkip
                                                   ELSE 2 * c.skip_cycles
           cycles == IF c.skip_cycles < InitialSkip THEN InitialSkip
                                                    ELSE twice
<1>1. /\ n \in 0..FailureThreshold
      /\ cycles \in 0..MaxSkip /\ cycles > 0
  OBVIOUS
<1>2. CASE n < FailureThreshold
  <2>1. Failed(c) = [c EXCEPT !.failures = n]
    BY <1>2 DEF Failed
  <2>2. QED BY <2>1, <1>1, <1>2
<1>3. CASE ~(n < FailureThreshold)
  <2>1. Failed(c) = [failures |-> n, skip_cycles |-> cycles,
                     skip_remaining |-> cycles]
    BY <1>3 DEF Failed
  <2>2. n = FailureThreshold
    BY <1>1, <1>3
  <2> HIDE DEF n, cycles
  <2>3. QED BY <2>1, <2>2, <1>1
<1>4. QED BY <1>2, <1>3

\* A watcher at work on a device has that device at the head of its list.
AtWork == pc \in {"identify", "spawn", "settle"} => todo # {}

-----------------------------------------------------------------------------
\* Type correctness: every variable keeps its type; in particular what is
\* spawned, recorded and taken off a list is always a device.
THEOREM TypeCorrect == Spec => [](TypeOK /\ AtWork)
<1> DEFINE Typed == TypeOK /\ AtWork
<1> USE LimitsAssumption, DevicesAssumption
<1>1. Init => Typed
  <2> SUFFICES ASSUME Init PROVE Typed
    OBVIOUS
  <2>1. cooldowns \in [Devices -> Cooldown]
    BY DEF Init, NoCooldown, Cooldown
  <2>2. 0 \in 0..MaxTroubles /\ 0 \in 0..(IdentifyRetries - 1)
    OBVIOUS
  <2>3. QED BY <2>1, <2>2, Zenon DEF Init, TypeOK, AtWork
<1>2. Typed /\ [Next]_vars => Typed'
  <2> SUFFICES ASSUME Typed, [Next]_vars PROVE Typed'
    OBVIOUS
  <2> USE DEF TypeOK, AtWork, machineVars, watcherVars, controlVars
  <2>1. todo # {} => Current \in Devices /\ Current \in todo
    BY TopInList DEF Current
  <2>2. ASSUME NEW d \in Devices
        PROVE  /\ [cooldowns EXCEPT ![d] = Failed(@)]
                    \in [Devices -> Cooldown]
               /\ [cooldowns EXCEPT ![d] = NoCooldown]
                    \in [Devices -> Cooldown]
    <3>1. Failed(cooldowns[d]) \in Cooldown
      BY FailedCooldown
    <3>2. NoCooldown \in Cooldown
      BY DEF NoCooldown, Cooldown
    <3>3. QED BY <3>1, <3>2
  <2>3. CASE Machine
    <3>0. Trouble => troubles' \in 0..MaxTroubles
      BY DEF Trouble
    <3>1. ASSUME NEW d \in Devices, Plug(d) PROVE Typed'
      BY <3>0, <3>1 DEF Plug
    <3>2. ASSUME NEW d \in Devices, Unplug(d) PROVE Typed'
      BY <3>0, <3>2 DEF Unplug
    <3>3. CASE BridgeDies
      BY <3>0, <3>3 DEF BridgeDies
    <3>4. CASE CavaStarts
      BY <3>4 DEF CavaStarts
    <3>5. CASE CavaDies \/ OrphanEnds
      BY <3>0, <3>5 DEF CavaDies, OrphanEnds
    <3>6. CASE GraceEnds
      BY <3>6 DEF GraceEnds
    <3>7. QED BY <2>3, <3>1, <3>2, <3>3, <3>4, <3>5, <3>6 DEF Machine
  <2>4. CASE Handle
    <3>1. CASE HandleDone
      BY <3>1 DEF HandleDone
    <3>2. CASE HandleNext
      <4>1. cooldowns' \in [Devices -> Cooldown]
        BY <2>1, <2>2, <3>2 DEF HandleNext, ClearCooldown
      <4>2. attempts' \in 0..(IdentifyRetries - 1)
        BY <3>2 DEF HandleNext
      <4>3. QED BY <3>2, <4>1, <4>2 DEF HandleNext, CleanupBridges
    <3>3. CASE IdentifyOk
      <4>1. cooldowns' \in [Devices -> Cooldown]
        BY <2>1, <2>2, <3>3 DEF IdentifyOk, ClearCooldown
      <4>2. attempts' \in 0..(IdentifyRetries - 1)
        BY <3>3 DEF IdentifyOk
      <4>3. QED BY <3>3, <4>1, <4>2 DEF IdentifyOk
    <3>4. CASE IdentifyRetry
      BY <3>4 DEF IdentifyRetry
    <3>5. CASE IdentifyFails
      <4>1. cooldowns' \in [Devices -> Cooldown]
        BY <2>1, <2>2, <3>5 DEF IdentifyFails, RecordFailure
      <4>2. attempts' \in 0..(IdentifyRetries - 1)
        BY <3>5 DEF IdentifyFails
      <4>3. QED BY <3>5, <4>1, <4>2 DEF IdentifyFails
    <3>6. CASE Spawn \/ SpawnFails
      BY <2>1, <3>6 DEF Spawn, SpawnFails, KillCavaFor
    <3>7. CASE SettleAlive \/ SettleDead
      BY <2>1, <3>7 DEF SettleAlive, SettleDead
    <3>8. QED BY <2>4, <3>1, <3>2, <3>3, <3>4, <3>5, <3>6, <3>7 DEF Handle
  <2>5. ASSUME NEW d \in Devices, RemoveDevice(d)
        PROVE  Typed'
    BY <2>2, <2>5 DEF RemoveDevice, ClearCooldown, CleanupBridges
  <2>6. CASE LoopAgain
    BY <2>6 DEF LoopAgain
  <2>7. CASE Health
    <3>1. Checking => active \in Devices
      BY <2>1 DEF Checking
    <3>2. QED BY <2>7, <3>1 DEF Health, HealthRestart, HealthCava, HealthFine,
                                CleanupBridges
  <2>8. CASE Run
    BY <2>8 DEF Run, Rescan, ReadEvents, CollectMore, CollectDone
  <2>9. CASE RunPolling
    <3>1. CASE PollNothing \/ PollDevices \/ PollNotFound
      BY <3>1 DEF PollNothing, PollDevices, PollNotFound, DropActive,
                  CleanupBridges
    <3>2. CASE PollSkip
      <4>1. Current \in Devices
        BY <2>1, <3>2 DEF PollSkip, NotActive
      <4>2. cooldowns[Current].skip_remaining - 1 \in 0..MaxSkip
        BY <3>2, <4>1 DEF PollSkip, CoolingDown, Cooldown
      <4>3. [cooldowns[Current] EXCEPT !.skip_remaining = @ - 1] \in Cooldown
        BY <4>1, <4>2 DEF Cooldown
      <4>4. cooldowns' \in [Devices -> Cooldown]
        BY <3>2, <4>1, <4>3 DEF PollSkip
      <4>5. QED BY <3>2, <4>4 DEF PollSkip, NotActive
    <3>3. CASE PollIdentified
      BY <2>1, <2>2, <3>3 DEF PollIdentified, NotActive, ClearCooldown
    <3>4. CASE PollSilent
      BY <2>1, <2>2, <3>4 DEF PollSilent, NotActive, RecordFailure
    <3>5. QED BY <2>9, <3>1, <3>2, <3>3, <3>4 DEF RunPolling
  <2>10. CASE UNCHANGED vars
    BY <2>10 DEF vars
  <2>11. QED
    BY <2>3, <2>4, <2>5, <2>6, <2>7, <2>8, <2>9, <2>10
    DEF Next, WatcherStep
<1>3. QED BY <1>1, <1>2, PTL DEF Spec

-----------------------------------------------------------------------------
\* While it identifies and spawns, the watcher holds no child; a child that
\* was just spawned is the one for the device at the head of the list.
WorkOnly ==
  /\ pc \in {"identify", "spawn"} => proc = NULL
  /\ pc \in {"identify", "spawn", "settle"} => bridge = NULL
  /\ pc = "settle" /\ proc # NULL => proc = Current

\* One bridge at a time, and the watcher never loses hold of it.
THEOREM BridgeOwnership == Spec => []OneBridge
<1> DEFINE Owned == WorkOnly /\ BridgeHeld
<1>1. Init => Owned
  BY DEF Init, WorkOnly, BridgeHeld
<1>2. TypeOK /\ AtWork /\ Owned /\ [Next]_vars => Owned'
  <2> SUFFICES ASSUME TypeOK, AtWork, Owned, [Next]_vars PROVE Owned'
    OBVIOUS
  <2> USE DevicesAssumption
      DEF WorkOnly, BridgeHeld, Current, machineVars, watcherVars, controlVars
  <2>1. CASE Machine
    BY <2>1 DEF Machine, Plug, Unplug, BridgeDies, CavaStarts, CavaDies,
                OrphanEnds, GraceEnds
  <2>2. CASE Handle
    <3>1. CASE HandleDone \/ HandleNext
      BY <3>1 DEF HandleDone, HandleNext, CleanupBridges
    <3>2. CASE IdentifyOk \/ IdentifyRetry \/ IdentifyFails
      BY <3>2 DEF IdentifyOk, IdentifyRetry, IdentifyFails
    <3>3. CASE Spawn \/ SpawnFails
      BY <3>3 DEF Spawn, SpawnFails
    <3>4. CASE SettleAlive \/ SettleDead
      BY <3>4 DEF SettleAlive, SettleDead
    <3>5. QED BY <2>2, <3>1, <3>2, <3>3, <3>4 DEF Handle
  <2>3. ASSUME NEW d \in Devices, RemoveDevice(d)
        PROVE  Owned'
    BY <2>3 DEF RemoveDevice, CleanupBridges
  <2>4. CASE LoopAgain
    BY <2>4 DEF LoopAgain
  <2>5. CASE Health
    BY <2>5 DEF Health, HealthRestart, HealthCava, HealthFine, Checking,
                BridgeFoundDead, CleanupBridges
  <2>6. CASE Run
    BY <2>6 DEF Run, Rescan, ReadEvents, CollectMore, CollectDone
  <2>7. CASE RunPolling
    BY <2>7 DEF RunPolling, PollNothing, PollDevices, PollSkip,
                PollIdentified, PollSilent, PollNotFound, NotActive,
                DropActive, CleanupBridges
  <2>8. CASE UNCHANGED vars
    BY <2>8 DEF vars
  <2>9. QED
    BY <2>1, <2>2, <2>3, <2>4, <2>5, <2>6, <2>7, <2>8 DEF Next, WatcherStep
<1>3. Owned => OneBridge
  BY DEF WorkOnly, OneBridge, SpawnAlone
<1>4. QED BY <1>1, <1>2, <1>3, TypeCorrect, PTL DEF Spec

-----------------------------------------------------------------------------
\* The devices the watcher may come to believe in, and what becomes of their
\* Remove events.  A device that was only announced (added) cannot have its
\* removal read yet, because the two are read together.
RemovalKnown ==
  /\ \A d \in todo \cup {active} :
       d # NULL /\ d \notin present => d \in gone \cup removed \cup lost
  /\ \A d \in added : d \notin present => d \in gone \cup lost
  /\ pc = "poll" => removed = {}
  /\ pc = "removed" => todo = {}
  /\ pc # "each"

\* In udev mode the active device is stale only for as long as its Remove
\* event is on its way, or if the event is one the code does not read.
THEOREM StaleIsLost == Spec => []StaleOnlyIfLost
<1> DEFINE Inv == UdevMode => RemovalKnown
<1>1. Init => Inv
  BY DEF Init, RemovalKnown
<1>2. TypeOK /\ AtWork /\ Inv /\ [Next]_vars => Inv'
  <2> SUFFICES ASSUME TypeOK, AtWork, UdevMode, RemovalKnown, [Next]_vars
               PROVE  RemovalKnown'
    OBVIOUS
  <2> USE DEF RemovalKnown, machineVars, watcherVars, controlVars
  <2>1. CASE Machine
    <3>1. ASSUME NEW d \in Devices, Plug(d) PROVE RemovalKnown'
      BY <3>1 DEF Plug
    <3>2. ASSUME NEW d \in Devices, Unplug(d) PROVE RemovalKnown'
      BY <3>2 DEF Unplug
    <3>3. CASE BridgeDies \/ CavaStarts \/ CavaDies \/ OrphanEnds \/ GraceEnds
      BY <3>3 DEF BridgeDies, CavaStarts, CavaDies, OrphanEnds, GraceEnds
    <3>4. QED BY <2>1, <3>1, <3>2, <3>3 DEF Machine
  <2>2. CASE Handle
    <3>1. CASE HandleDone \/ HandleNext
      BY <3>1 DEF HandleDone, HandleNext
    <3>2. CASE IdentifyOk \/ IdentifyRetry \/ IdentifyFails
      BY <3>2 DEF IdentifyOk, IdentifyRetry, IdentifyFails
    <3>3. CASE Spawn \/ SpawnFails \/ SettleDead
      BY <3>3 DEF Spawn, SpawnFails, SettleDead
    <3>4. CASE SettleAlive
      <4>1. Current \in todo
        BY <3>4, TopInList DEF SettleAlive, Current, AtWork, TypeOK
      <4>2. QED BY <3>4, <4>1 DEF SettleAlive
    <3>5. QED BY <2>2, <3>1, <3>2, <3>3, <3>4 DEF Handle
  <2>3. ASSUME NEW d \in Devices, RemoveDevice(d)
        PROVE  RemovalKnown'
    BY <2>3 DEF RemoveDevice, TypeOK
  <2>4. CASE LoopAgain
    BY <2>4 DEF LoopAgain
  <2>5. CASE Health
    BY <2>5 DEF Health, HealthRestart, HealthCava, HealthFine, Checking
  <2>6. CASE Run
    <3>1. CASE Rescan \/ CollectDone
      BY <3>1 DEF Rescan, CollectDone
    <3>2. CASE ReadEvents
      BY <3>2 DEF ReadEvents
    <3>3. CASE CollectMore
      BY <3>3 DEF CollectMore
    <3>4. QED BY <2>6, <3>1, <3>2, <3>3 DEF Run
  <2>7. ~RunPolling
    BY DEF RunPolling, PollNothing, PollDevices, PollSkip, PollIdentified,
           PollSilent, PollNotFound, NotActive
  <2>8. CASE UNCHANGED vars
    BY <2>8 DEF vars
  <2>9. QED
    BY <2>1, <2>2, <2>3, <2>4, <2>5, <2>6, <2>7, <2>8 DEF Next, WatcherStep
<1>3. Inv => StaleOnlyIfLost
  BY DEF RemovalKnown, StaleOnlyIfLost
<1>4. QED BY <1>1, <1>2, <1>3, TypeCorrect, PTL DEF Spec

-----------------------------------------------------------------------------
\* The steps that touch a cool-down record a failure, clear it, or count a
\* skipped turn of a device that is cooling down.
LEMMA CooldownCases ==
  ASSUME TypeOK, AtWork, Next
  PROVE  \/ cooldowns' = cooldowns
         \/ \E d \in Devices : RecordFailure(d) \/ ClearCooldown(d)
         \/ PollSkip /\ Current \in Devices
<1>1. todo # {} => Current \in Devices
  BY TopInList DEF Current, TypeOK
<1>2. Machine => cooldowns' = cooldowns
  BY DEF Machine, Plug, Unplug, BridgeDies, CavaStarts, CavaDies,
         OrphanEnds, GraceEnds, watcherVars
<1>3. Handle => \/ cooldowns' = cooldowns
                \/ \E d \in Devices : RecordFailure(d) \/ ClearCooldown(d)
  BY <1>1 DEF Handle, HandleDone, HandleNext, IdentifyOk, IdentifyRetry,
              IdentifyFails, Spawn, SpawnFails, SettleAlive, SettleDead,
              watcherVars, AtWork
<1>4. LoopAgain \/ Health \/ Run => cooldowns' = cooldowns
  BY DEF LoopAgain, Health, HealthRestart, HealthCava, HealthFine, Run,
         Rescan, ReadEvents, CollectMore, CollectDone, watcherVars
<1>5. ASSUME NEW d \in Devices, RemoveDevice(d)
      PROVE  ClearCooldown(d)
  BY <1>5 DEF RemoveDevice
<1>6. RunPolling => \/ cooldowns' = cooldowns
                    \/ \E d \in Devices : RecordFailure(d) \/ ClearCooldown(d)
                    \/ PollSkip /\ Current \in Devices
  BY <1>1 DEF RunPolling, PollNothing, PollDevices, PollSkip, PollIdentified,
              PollSilent, PollNotFound, NotActive, watcherVars
<1>7. QED BY <1>2, <1>3, <1>4, <1>5, <1>6 DEF Next, WatcherStep

\* A device cools down only after FailureThreshold failures without a
\* success between them, and for no longer than its latest back-off.
THEOREM CooldownIsEarned == Spec => []CooldownEarned
<1> USE LimitsAssumption
<1>1. Init => CooldownEarned
  BY DEF Init, CooldownEarned, NoCooldown
<1>2. TypeOK /\ AtWork /\ CooldownEarned /\ [Next]_vars => CooldownEarned'
  <2> SUFFICES ASSUME TypeOK, AtWork, CooldownEarned, [Next]_vars,
                      NEW e \in Devices
               PROVE  EarnedBy(cooldowns'[e])
    BY DEF CooldownEarned, EarnedBy
  <2>0. /\ cooldowns \in [Devices -> Cooldown]
        /\ EarnedBy(cooldowns[e])
    BY DEF TypeOK, CooldownEarned, EarnedBy
  <2>1. ASSUME NEW d \in Devices, RecordFailure(d)
        PROVE  EarnedBy(cooldowns'[e])
    BY <2>0, <2>1, FailedCooldown DEF RecordFailure
  <2>2. ASSUME NEW d \in Devices, ClearCooldown(d)
        PROVE  EarnedBy(cooldowns'[e])
    <3>1. EarnedBy(NoCooldown)
      BY DEF EarnedBy, NoCooldown
    <3>2. QED BY <2>0, <2>2, <3>1 DEF ClearCooldown
  <2>3. CASE PollSkip /\ Current \in Devices
    <3>1. CASE e = Current
      <4>1. /\ cooldowns'[e].failures = cooldowns[e].failures
            /\ cooldowns'[e].skip_cycles = cooldowns[e].skip_cycles
            /\ cooldowns'[e].skip_remaining
                 = cooldowns[e].skip_remaining - 1
        BY <2>0, <2>3, <3>1 DEF PollSkip, Cooldown
      <4>2. QED BY <2>0, <4>1 DEF EarnedBy, Cooldown
    <3>2. CASE e # Current
      BY <2>0, <2>3, <3>2 DEF PollSkip
    <3>3. QED BY <3>1, <3>2
  <2>4. CASE cooldowns' = cooldowns
    BY <2>0, <2>4
  <2>5. UNCHANGED vars => cooldowns' = cooldowns
    BY DEF vars, watcherVars
  <2>6. QED BY <2>1, <2>2, <2>3, <2>4, <2>5, CooldownCases
<1>3. QED BY <1>1, <1>2, TypeCorrect, PTL DEF Spec

-----------------------------------------------------------------------------
\* Only a device that has said what it is becomes active or gets a bridge.
\* The restart of a CAVA bridge does not ask it again.
Identified ==
  /\ pc \in {"spawn", "settle"} => Answer[Current] # "none"
  /\ active # NULL => Answer[active] # "none"
  /\ proc # NULL => Answer[proc] # "none"

LEMMA TopOfOne ==
  ASSUME NEW d \in Devices
  PROVE  Top({d}) = d
BY DevicesAssumption, TopInList

LEMMA IdentifiedHolds == Spec => []Identified
<1>1. Init => Identified
  BY DEF Init, Identified
<1>2. TypeOK /\ AtWork /\ Identified /\ [Next]_vars => Identified'
  <2> SUFFICES ASSUME TypeOK, AtWork, Identified, [Next]_vars
               PROVE  Identified'
    OBVIOUS
  <2> USE DEF Identified, Current, machineVars, watcherVars, controlVars
  <2>1. CASE Machine
    BY <2>1 DEF Machine, Plug, Unplug, BridgeDies, CavaStarts, CavaDies,
                OrphanEnds, GraceEnds
  <2>2. CASE Handle
    <3>1. CASE HandleDone \/ HandleNext
      BY <3>1 DEF HandleDone, HandleNext, CleanupBridges
    <3>2. CASE IdentifyOk \/ IdentifyRetry \/ IdentifyFails
      BY <3>2 DEF IdentifyOk, IdentifyRetry, IdentifyFails, Answers
    <3>3. CASE Spawn \/ SpawnFails
      BY <3>3 DEF Spawn, SpawnFails
    <3>4. CASE SettleAlive \/ SettleDead
      BY <3>4 DEF SettleAlive, SettleDead
    <3>5. QED BY <2>2, <3>1, <3>2, <3>3, <3>4 DEF Handle
  <2>3. ASSUME NEW d \in Devices, RemoveDevice(d)
        PROVE  Identified'
    BY <2>3 DEF RemoveDevice, CleanupBridges
  <2>4. CASE LoopAgain
    BY <2>4 DEF LoopAgain
  <2>5. CASE Health
    <3>1. CASE HealthRestart \/ HealthFine
      BY <3>1 DEF HealthRestart, HealthFine
    <3>2. CASE HealthCava
      <4>1. active \in Devices
        BY <3>2, TopInList DEF HealthCava, Checking, TypeOK
      <4>2. Top({active}) = active
        BY <4>1, TopOfOne
      <4>3. QED BY <3>2, <4>2 DEF HealthCava, CavaFoundDead, CleanupBridges
    <3>3. QED BY <2>5, <3>1, <3>2 DEF Health
  <2>6. CASE Run
    BY <2>6 DEF Run, Rescan, ReadEvents, CollectMore, CollectDone
  <2>7. CASE RunPolling
    BY <2>7 DEF RunPolling, PollNothing, PollDevices, PollSkip,
                PollIdentified, PollSilent, PollNotFound, NotActive,
                DropActive, CleanupBridges
  <2>8. CASE UNCHANGED vars
    BY <2>8 DEF vars
  <2>9. QED
    BY <2>1, <2>2, <2>3, <2>4, <2>5, <2>6, <2>7, <2>8 DEF Next, WatcherStep
<1>3. QED BY <1>1, <1>2, TypeCorrect, PTL DEF Spec

\* Bridges take turns: a bridge is never replaced by another one in a step,
\* it is gone first; and a bridge is only ever started for a device that has
\* said what it is, also where the watcher starts one again by itself
\* (start_bridge, check_active_bridge_health).
Turn ==
  proc' # proc =>
    \/ proc' = NULL
    \/ proc = NULL /\ proc' \in Devices /\ Answer[proc'] # "none"

THEOREM BridgesTakeTurns == Spec => [][Turn]_vars
<1>1. TypeOK /\ AtWork /\ OneBridge /\ Identified /\ [Next]_vars => [Turn]_vars
  <2> SUFFICES ASSUME TypeOK, AtWork, OneBridge, Identified, Next PROVE Turn
    BY DEF vars
  <2> USE DEF Turn, machineVars
  <2>1. CASE Machine
    BY <2>1 DEF Machine, Plug, Unplug, BridgeDies, CavaStarts, CavaDies,
                OrphanEnds, GraceEnds
  <2>2. CASE Handle
    <3>1. CASE Spawn
      <4>1. proc = NULL /\ proc' = Current /\ Answer[Current] # "none"
        BY <3>1 DEF Spawn, OneBridge, SpawnAlone, Identified
      <4>2. Current \in Devices
        BY <3>1, TopInList DEF Spawn, AtWork, TypeOK, Current
      <4>3. QED BY <4>1, <4>2
    <3>2. QED
      BY <2>2, <3>1 DEF Handle, HandleDone, HandleNext, IdentifyOk,
                        IdentifyRetry, IdentifyFails, SpawnFails, SettleAlive,
                        SettleDead, CleanupBridges
  <2>3. ASSUME NEW d \in Devices, RemoveDevice(d)
        PROVE  Turn
    BY <2>3 DEF RemoveDevice, CleanupBridges
  <2>4. CASE LoopAgain \/ Health \/ Run
    BY <2>4 DEF LoopAgain, Health, HealthRestart, HealthCava, HealthFine, Run,
                Rescan, ReadEvents, CollectMore, CollectDone, CleanupBridges
  <2>5. CASE RunPolling
    BY <2>5 DEF RunPolling, PollNothing, PollDevices, PollSkip,
                PollIdentified, PollSilent, PollNotFound, DropActive,
                CleanupBridges
  <2>6. QED BY <2>1, <2>2, <2>3, <2>4, <2>5 DEF Next, WatcherStep
<1>2. QED
  BY <1>1, TypeCorrect, BridgeOwnership, IdentifiedHolds, PTL DEF Spec

-----------------------------------------------------------------------------
\* How far the handling of the first device of the list is from its end.
Position ==
  CASE pc = "handle" -> IdentifyRetries + 3
    [] pc = "identify" -> IdentifyRetries - attempts + 2
    [] pc = "spawn" -> 2
    [] pc = "settle" -> 1
    [] OTHER -> 0

Handling == pc \in {"handle", "identify", "spawn", "settle"}

\* Handling a list of devices ends, whatever is plugged, unplugged or dies
\* meanwhile: every step of it shortens the list, or comes closer to the end
\* of the first device on the same list, and nothing else touches the list.
\* So a list of n devices takes n * (IdentifyRetries + 3) + 1 steps at most
\* before the watcher looks at its devices again (handle_new_device and
\* start_bridge have no other loop than the attempts to identify).
HandlingShortens ==
  Handling =>
    \/ UNCHANGED <<pc, todo, attempts>>
    \/ todo' \subseteq todo /\ todo' # todo
    \/ todo' = todo /\ Position' < Position

THEOREM HandlingEnds == Spec => [][HandlingShortens]_vars
<1>1. ASSUME TypeOK, AtWork, Next PROVE HandlingShortens
  <2>0. /\ IdentifyRetries \in Nat /\ attempts \in Nat
        /\ attempts < IdentifyRetries
    <3>1. attempts \in 0..(IdentifyRetries - 1)
      BY <1>1, Zenon DEF TypeOK
    <3>2. QED BY <3>1, LimitsAssumption
  <2>1. todo # {} => Current \in todo
    <3>1. todo \in SUBSET Devices
      BY <1>1, Zenon DEF TypeOK
    <3>2. QED BY <3>1, TopInList DEF Current
  <2>7. todo # {} => /\ todo \ {Current} \subseteq todo
                     /\ todo \ {Current} # todo
    BY <2>1
  <2> USE DEF HandlingShortens, Handling
  <2>2. CASE Machine
    BY <2>2 DEF Machine, Plug, Unplug, BridgeDies, CavaStarts, CavaDies,
                OrphanEnds, GraceEnds, controlVars
  <2>3. CASE Handle
    <3>1. CASE HandleDone
      BY <2>0, <3>1 DEF HandleDone, Position
    <3>7. CASE HandleNext
      <4>1. /\ pc = "handle" /\ pc' = "identify" /\ attempts' = 0
            /\ UNCHANGED todo
        BY <3>7 DEF HandleNext
      <4>2. QED BY <2>0, <4>1 DEF Position
    <3>2. CASE IdentifyOk \/ IdentifyRetry
      BY <2>0, <3>2 DEF IdentifyOk, IdentifyRetry, Position
    <3>3. CASE IdentifyFails \/ SpawnFails \/ SettleDead
      <4>1. todo # {} /\ todo' = todo \ {Current}
        BY <1>1, <3>3 DEF IdentifyFails, SpawnFails, SettleDead, AtWork
      <4>2. QED BY <2>7, <4>1
    <3>4. CASE Spawn
      BY <3>4 DEF Spawn, Position
    <3>5. CASE SettleAlive
      BY <1>1, <3>5 DEF SettleAlive, AtWork
    <3>6. QED BY <2>3, <3>1, <3>2, <3>3, <3>4, <3>5, <3>7 DEF Handle
  <2>4. ASSUME NEW d \in Devices, RemoveDevice(d) PROVE ~Handling
    BY <2>4 DEF RemoveDevice
  <2>5. LoopAgain \/ Health \/ Run \/ RunPolling => ~Handling
    BY DEF LoopAgain, Health, HealthRestart, HealthCava, HealthFine, Checking,
           Run, Rescan, ReadEvents, CollectMore, CollectDone, RunPolling,
           PollNothing, PollDevices, PollSkip, PollIdentified, PollSilent,
           PollNotFound, NotActive
  <2>6. QED BY <1>1, <2>2, <2>3, <2>4, <2>5 DEF Next, WatcherStep
<1>2. TypeOK /\ AtWork /\ [Next]_vars => [HandlingShortens]_vars
  BY <1>1
<1>3. QED BY <1>2, TypeCorrect, PTL DEF Spec
=============================================================================

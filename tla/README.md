# Formal models of mcub-rust

mcub-rust drives small displays that hang on a serial port of a Raspberry Pi.
A *watcher* finds the displays and keeps one *bridge* process running for one
of them; a bridge talks to the display, to the MPD music server, and to a CAVA
process that turns sound into a spectrum. Little of what can go wrong here is
in a single function. It is in the order of things: threads that share one
descriptor, a device that leaves while it is being identified, an answer of MPD
that comes after the client gave up on it. The modules in this directory model
those orders, TLC checks them on small instances, and TLAPS proves the main
results for instances of any size.

Contents: [inventory](#inventory), [modules](#the-modules),
[runs](#the-runs), [proofs](#what-is-proved),
[disagreements found](#where-code-and-documents-disagree),
[not modelled](#what-is-not-modelled), [plan](#plan).


## Inventory

Paths are relative to the crate's `src/`.

| component | state | operations |
|---|---|---|
| Outgoing queue, `core/serial_queue.rs` | heap, sequence counter, `running`, `device_disconnected` under one mutex; `consecutive_errors` under another; a worker thread | `start`, `send` (queued, or written at once by the caller when the priority is negative), `stop`, worker loop, `write_to_device` |
| Serial connection, `core/serial_comm.rs` | descriptor, the queue, the read buffer | `connect`, `identify_device`, `send_message`, `read_message`, `close`, `Drop` |
| Watcher, `bin/watcher.rs` | active device, child process, start time, cool-downs; queued udev events | `run` (udev), `run_polling`, `handle_new_device`, `start_bridge`, `check_active_bridge_health`, `cleanup_bridges` |
| Hybrid bridge, `modules/hybrid_bridge.rs` | join handles, supported modes, `cava_deferred`, the shared serial, MPD and CAVA objects | `run`, `cleanup`, the loops `mpd_checker`, `cava_reader`, `command_processor`, `sysinfo_checker` |
| MPD client and bridge, `core/mpd_client.rs`, `modules/mpd_bridge.rs` | the TCP stream and its reader, `mpd_connected`, the cached playlist time, the stop counter | queries and orders; `connect`, `build_state_json`, `handle_command`, `cleanup`; the loop of the standalone bridge |
| CAVA, `core/cava_manager.rs`, `modules/cava_bridge.rs` | child process, its pipe, frame buffer, frames to skip | `start`, frame reading (binary and ASCII), `cleanup`; the loop of the CAVA bridge |
| Signals, `core/signal_handler.rs` | one flag, one registered closure | `setup`, `received`, `request_stop`, the handler |
| Identification, `core/device_identifier.rs`, `SerialComm::identify_device`, `extract_supported_modes` | an open port; what the display still sends | open and reset, drain, ask, read a line, understand it: once by the watcher, once by the bridge |
| Reconnection, `core/reconnection.rs` | attempts, delay, last attempt | `should_attempt`, `reset` |
| Sysinfo, `modules/sysinfo_bridge.rs` | last samples | read `/proc`, format |
| Action runner, logger, configuration, entry points | log file; none; settings; none | fork and exec; rotation; reading; argument parsing |

**How they interact.** The watcher starts a bridge with `spawn` and learns of
its end with `try_wait`. It knows nothing else of it; for a bridge of type
`cava` it also looks for a process of that name. In a hybrid bridge the threads
share `SerialComm`, `MpdBridge` and `CavaManager` through mutexes, a stop flag
they look at on the top of their loops, and the raw descriptor of the port,
which two paths use *without* a lock (`read_message`, a message of negative
priority). The bridge and MPD share one request/answer stream, used by the
checker and the command thread in turn. Watcher and bridge ask the display the
same question one after the other, on two connections, and share no more than
the arguments and the environment of the child.

**What is hard.** Each hazard has its line, and the properties that would catch
it, in `PROJECT.json`. In short:

* *interleaving*: senders, worker and `stop()` on the queue; the raw descriptor
  against `close()`; a reconnection of the checker against `cleanup()`;
* *atomicity*: the count of write errors and the latch it sets are in two
  critical sections;
* *stale state*: the scan for devices before the udev monitor exists; Remove
  events read and dropped; a state for the display put together from three
  queries; any CAVA process taken for one's own;
* *failure*: bridges, threads, CAVA and MPD that die at any moment; a read
  timeout with the answer still under way; an exit that runs no destructor; a
  line that arrives in pieces, garbled, or behind another one;
* *sequences of failures*: two counters of the same failed sends, a back-off
  that every success clears, attempts that spoil the next attempt;
* *liveness*: joins without a time limit, a deferred start, the cool-down of a
  device that failed, recovery after an outage, frames that are skipped.

**What makes each component correct.**

* Queue: bounded; nothing lost, doubled or reordered within a priority;
  urgent first; disconnected after exactly so many failures in a row; `stop()`
  returns and leaves no worker.
* Watcher: at most one bridge; the one that runs is the one it holds; a device
  that is gone is dropped; a device that can answer is served; a bridge that
  died is replaced.
* Hybrid bridge: no thread uses a closed port; every way out leaves nothing
  behind; the death of one thread ends the process; MPD and CAVA come back.
* MPD link: each answer is read by the command it belongs to; what is shown was
  true; the display catches up. The standalone loop connects again, and not in
  a storm.
* CAVA bridge: what is sent is one whole frame; what is skipped was earned by
  failures; the spectrum comes back; neither process outlives the other.
* Identification: both sides understand an answer alike; a failed exchange
  leaves nothing that spoils the next; it ends.


## The modules

| module | models | extended or instantiated by |
|---|---|---|
| `SerialQueue` | the outgoing queue, in full but for its statistics | `SerialQueueProofs` |
| `Outbox` | what that queue promises: an abstract mailbox of limited size | `SerialQueue` (refinement) |
| `Watcher` | both loops of the watcher, with devices and processes around it | `MCWatcher`, `WatcherProofs` |
| `HybridBridge` | main thread and four workers of a hybrid bridge, `cleanup()`, signals | `HybridBridgeProofs` |
| `BridgeLife` | what that bridge promises about its port, its MPD connection, CAVA and its threads | `HybridBridge` (refinement), `BridgeLifeProofs` |
| `MpdLink` | one MPD connection with its two users | `MpdLinkProofs` |
| `MpdLoop` | the loop of the standalone MPD bridge with its back-off | `MpdLoopProofs` |
| `CavaBridge` | the CAVA bridge, its CAVA, the pipe between them and the port | `CavaBridgeProofs` |
| `Handshake` | the identification of one display by the watcher and by the bridge | `HandshakeProofs` |

In every module a definition preceded by "Mutant:" is a plausible mistake. It
is used by no run as it stands; put in the place of the definition it precedes,
it breaks the property named with it in `PROJECT.json`. They show that the
properties depend on the code, and what they depend on.

### SerialQueue and Outbox

A step is one critical section, or the `write` itself; `pc[t]` says between
which two thread `t` is. `send()` is therefore two steps (`SendAccepted`, which
looks at `running`; `Push`/`PushFull`, which does not), and `write_to_device`
is up to four (`WriteCheck`, `DeviceWrite`, `CountSuccess`/`CountError`,
`Latch`), run by the worker and by senders of critical messages alike. An item
is its priority and its sequence number. The worker pops the item that
`QueueItem::cmp` puts on top, and `Precedes` is that comparison. Since
`max_queue_size` may be any number, a queue of size zero is allowed.

History variables, read by no guard: `handed` (popped items), `streak` and
`longest` (failed writes counted in a row, in the order the error lock was
taken), `admitted` (the messages that were accepted, or past the check of
`running`, when `stop()` began).

`Outbox` knows no heap, thread or error: one lane per priority, in which whoever
puts a message draws the next ticket; a taker that empties the most urgent lane
first, and of a lane the oldest ticket; a capacity; a box that opens once and
closes once. The refinement mapping stands at the end of `SerialQueue`: the lane
of `p` (`Lane`) is the set of the sequence numbers of the heap's items of
priority `p`, and the box (`Phase`) is closed when `device_disconnected` is set,
by the latch or by `stop()`. That messages may still be put into a closed box is
what the code does: `send()` looks at `running` only. The bound of the queue
(`BoundedQueue`) is part of what `Outbox` says, so no run checks it apart.

### Watcher

One thread, whose steps take seconds; `pc` splits it where it waits: `poll`
(for udev events, or between two turns of `run_polling`), `collect` (the window
after an Add), `handle`, `identify`, `spawn`, `settle` (the second after a
spawn), `each` (the turn of `run_polling`), `removed`. Between any two of these
devices are plugged and unplugged, bridges and CAVA processes start and die.

Devices are numbers because the code sorts them in descending order (`Top`).
The queued udev events are a set of additions and a set of removals: the code
drains the socket at once and uses nothing else of them. `lost` is a history
variable: the devices whose Remove event no code will ever look at, because it
came before the monitor existed or was skipped in the collect window.

`failures` of a cool-down saturates at the threshold, the only thing it is
compared with. `CleanupBridges` ends every process that looks like a bridge, as
the code does with `pkill`.

### HybridBridge

`main` is the statement the main thread is at, through startup, loop and
`cleanup()`. A worker is at the top of its loop, or inside a call that matters:
`reading` and `writing` hold the raw descriptor, `connecting` and `command`
hold the lock of the MPD client (`MpdFree`). In `reconnect` the checker has
seen that the connection is lost, and waits for that lock: in this gap the main
thread may raise the stop flag and disconnect, so that the connection the
checker then makes is closed by the second `mpd.cleanup()` only (`CleanExit`).
`SeeStop` is the only way out of a
loop, but for the CAVA reader whose child has died, and `Panic`. In a build
with `panic = "abort"` a panic is what `Signal` is: the process is gone.

`BridgeLife` says what all this is for, without loops, locks or servers: a
process lives through `starting`, `serving` and `stopping` to its exit, or is
killed; a thread is fresh, working, or ended; and the process holds some of
port, MPD connection and CAVA. A thread begins only while the bridge serves and
only when what it needs is held; of what is held only the connection to MPD
comes and goes under working threads; nothing is released that one of them
needs; an exit leaves nothing, and only a kill does. `Life`, `Stages` and
`Held` in `HybridBridge` are the mapping, from `main`, `pc`, and `fd`, `client`
and `cava`. A CAVA that has died is held until it is reaped.

### MpdLink

The wire is two sequences: commands MPD has not carried out (`sent`) and
answers nobody has read (`answers`). MPD answers in order; the client has no
way of telling which command an answer belongs to, and `StatusFrom` and
`TitleFrom` say what it makes of the wrong one. A call holds the lock from its
beginning (`call`) to its end. `FailTimeout` is the read timeout of three
seconds: the client gives up, and the answer is still to come. Whether it then
leaves the connection (after a failed `status` only) or goes on with it is
what the module is about; the history variable `slipped` records the latter.
`during` collects the players that existed while a state was being built.
Of the player it keeps what the display shows.

### MpdLoop

One turn of `MpdBridge::run` is `status`, `commands`, `reconnect`, `sleep`. The
clocks count the time *since* an instant, since the code compares nothing else,
and saturate at `Horizon`, the greatest delay or interval. `Sleep` lets a unit
of time pass and `Block` any more, in whichever call: that is where a slow
MPD, a slow display or a loaded machine comes in. A server that is `sick`
accepts connections and answers no query. `newest` and `before` are history
variables: the times since the last two attempts.

Three facts that reading the source alone does not suggest are in the model as
they are in the code. `should_attempt` doubles the delay when it *allows* an
attempt, so that the first retry comes at once, the second after twice the
base delay, and the base delay itself is never waited. `attempts` and
`max_attempts` limit nothing. `send_status` stamps `last_update` before it
asks, and this, not the back-off, is what keeps a `sick` server from being
connected to in a tight loop, since every success clears the back-off.

### CavaBridge

The stream of CAVA is counted in bytes: `pipe` is what waits in the pipe,
`head` the offset in its frame of the first byte not used up. A binary frame is
`bars` bytes; in ASCII a value is two bytes (digits; the rest with its `;`) and
a newline ends the line. `ReadBinary` takes any amount that one `read` of the
chunk could find, joins it to `binary_buffer` and yields the newest whole frame
(`NewestFrame`); the ASCII reader takes byte after byte and blocks inside a
line. `EndLine` says when a line is a frame: if it has exactly `bars` values
among its first `MaxValues`.

Sending is `SendGood` or `SendBad`; the spectrum is a critical message, so the
bridge thread itself runs `write_to_device`, whose `consecutive_errors` and
`device_disconnected` are part of this module, next to the `skip_count` and
`skip_remaining` of the bridge. `failures` is a history variable.

The code never clears the latch of the queue while the bridge lives: after
three failed sends in a row no more frames are sent, the bridge keeps running,
and only a new one (a plug event) helps. `SpectrumFlows` therefore asks for a
port that was not given up.

### Handshake

`pc` follows the exchange first on the side of the watcher (`w_...`, up to
`IdentifyRetries` attempts), then on that of the bridge (`b_...`), which runs
or, if it is a hybrid one and hears nothing, exits and is replaced. `tty` holds
the lines the display has sent; the line of the answer can come in two pieces.
`TakeLine(n, line)` is a `read` that takes `n` pieces: `line` is what stands
before the first newline, and the rest of what was taken is gone, as in
`readline`. A `blank` line, empty or no UTF-8, ends an attempt of the watcher,
but the bridge reads once more after it (`BridgeReadsNothing`), as it does after
silence. A display may have a list of modes and a name; the list then counts.
`WatcherModes` and `BridgeModes` are the two readings of an answer.

A *trouble* is whatever can spoil an exchange: a port that does not open, a
write that fails, a request that comes while the display boots, an answer that
is late or garbled, a key pressed. `FailuresEarned` is a ledger of them.


## The runs

`tlc -config X.cfg M` in this directory, with community modules on the path.

| run | instance | what it shows |
|---|---|---|
| `SerialQueue` | 2 senders, 2 priorities, size 2, 3 errors, 5 sends | type, `Conservation`, `FifoWithinPriority`, `LatchCorrect`, `StopCutsIntake`, that it implements `Outbox`; `Drained`, `StopReturns` |
| `WatcherUdev` | a hybrid and a CAVA display, 2 tries, 4 troubles | type, `OneBridge`, `StaleOnlyIfLost`; `Served`, `CavaBridgeRespawned` |
| `WatcherPolling` | a hybrid display and a modem, threshold 2, skips 1 and 2, 3 troubles | `CooldownEarned`; `Served`, `StaleDropped` |
| `HybridBridge` | 2 outages | type, `NoIoOnClosedPort`, `CleanExit`, `ReaderHasCava`, that it implements `BridgeLife`; `DeathEndsProcess`, `MpdRecovers`, `DeferredStarts` |
| `MpdLink` | playlists of up to 2 songs, 2 troubles | type, `InStep`, `ShownHappened`; `DisplayFollows` |
| `MpdLoop` | interval 3, delays from 2 to 7 | type, `NoStorm`; `Reconnects` |
| `CavaBridge` | 1, 2 or 3 bars with at most 2 values sent, chunks of 2 frames, a pipe of 7 bytes | type, `FramesWhole`, `BackoffEarned`; `SpectrumFlows`, `NeitherOutlives` |
| `Handshake` | every answer, 3 attempts, 3 pieces in the tty, 4 troubles | type, `Agreement`, `FailuresEarned`; `Settles` |
| `WatcherRespawn`, `HybridBridgeOrphan`, `MpdLinkErrors`, `HandshakeModes` | smaller | each is expected to fail, see [below](#where-code-and-documents-disagree) |

**Bounds, and why they are enough.**

* `MaxSends`: five messages fill a queue of two, are refused, are written and
  fail three times in a row from two threads at once; that is every transition
  of the latch, with one message to spare.
* Two senders and the worker are three writers: enough for one to count a
  success between the count and the latch of another.
* `MaxTroubles` counts plugs, unplugs and deaths (`Watcher`), timeouts,
  restarts of MPD and acts of other clients (`MpdLink`). A trouble is what the
  environment need not do; after the last one the system must settle, which is
  what the liveness properties ask. Four are a death, an unplug and a plug
  around it, and one more. Nothing that the program does itself is bounded.
* `MaxOutages`: MPD goes down twice, so that a reconnection can be lost again.
* `IdentifyRetries` 2 (in `Watcher`) and the small thresholds stand for 3 and
  30: what they guard is a comparison, and the proofs hold for all of them.
* `CavaBridge`: fewer bars than values, as many, and more are the three cases
  of the limit of 64. A pipe of seven bytes holds two binary frames of three
  bars and a rest, or one ASCII frame of three bars; a read takes two frames,
  so that frames are skipped, cut, and left behind. Errors and skips have the
  values of the code (3 and 8). `MaxWait` 1 stands for 120 looks.
* `Handshake`: three pieces are a line in front of an answer in two parts; four
  troubles spoil the three attempts of the watcher, which then gives up, or two
  attempts and the bridge. `lost` grows only with troubles for a display that
  can be identified (that is `FailuresEarned`); for the others the attempts
  bound it.
* `MpdLoop`: the interval is shorter than the first delay that is waited (4),
  and the limit of 7 cuts the second doubling: the back-off goes 4, 7, 7, ... and
  the interval is what keeps attempts apart that succeed. Other orders of the
  three are covered by the proof.

Deadlock is checked in every run. States in which the program has ended or
waits for ever by design have a step that changes nothing (`Quiet`,
`ProcessOver`, `MainSleep`, `WorkerWait`, `Ended`, `Finished`).

**Fairness, and why the code justifies it.**

* *Weak*, for every thread inside a function: it is scheduled, `write`, `read`
  and `connect` return (the port has a read timeout, the MPD stream a read
  timeout; for `write` this is an assumption on the tty). Nobody has to call
  `send()`, `start()` or `stop()`, and nothing has to fail.
* *Strong*, for the MPD checker (`SF_vars(MpdStep)`; `BuildState \/ Connect`
  in `MpdLink`): the command thread takes and drops the lock again and again,
  so the checker is not continuously enabled. Between two commands that thread
  reads the port and sleeps, so a waiter does get the lock.
* *Strong*, for `IdentifyOk`, `PollIdentified` (per device), `Spawn` and
  `CavaStarts`: a display that works answers if it is asked often enough. This
  is an assumption on the world; without it a display that never answers is
  never served, which is right.
* *Weak*, for `CavaStep`: a CAVA that lives writes, and one whose reader is gone
  ends with the write that finds the pipe broken.
* *Weak*, for `OrphanEnds` in `Watcher`: a CAVA whose bridge is gone ends with
  such a write, at its own time (in `CavaBridge` this is `NeitherOutlives`).
* *Weak*, for `Booted`, `AnswerWhole`, `AnswerRest` together: a display gets
  done with booting and with an answer it has begun. Boot messages may come as
  long as it boots, and the drain goes on as long; that a display stops booting
  is what `Settles` needs.
* `Drained` holds because senders send finitely many messages. With an endless
  supply of urgent ones the others starve: priorities are strict.

**What the liveness properties do not say.** `Settles` assumes that a display
stops chattering: `drain` (`device_identifier.rs:205`) has no bound, and one
that sends without a pause holds the watcher in it for ever. No property covers
this. `DisplayFollows` asks for a last connection that is not
`slipped`: see the third disagreement. `SpectrumFlows` asks, besides, for
`bars <= MaxValues` in ASCII: with 65 to 127 bars no line has the number of
values expected and no frame is ever yielded. In binary such a display gets
frames shorter than its header announces. And ASCII frames are never skipped:
frames that queued up are sent one after the other, late.


## What is proved

Eight modules hold proofs, each for every value of the constants that
satisfies the assumptions named in its component's module:

* `SerialQueue`: finitely many senders, the worker is none of them, priorities are natural numbers,
  limits are natural numbers and at least one where the code compares with `>=`;
* `Watcher`: device numbers are natural numbers of which any set that is not empty
  has a greatest one, the first back-off is positive and at most the greatest;
* `HybridBridge`: the bound on outages is a natural number; `BridgeLife`: any
  set of threads; `MpdLink`: playlists
  may have any length;
* `CavaBridge`: any positive numbers of bars, any positive sizes of pipe and
  chunk, up to 127 values; the two limits of failures are those of the code;
* `Handshake`: any positive number of attempts and of pieces, any number of
  troubles;
* `MpdLoop`: positive interval and base delay, a limit that is not below it.

| theorem | says |
|---|---|
| `SerialQueueProofs!TypeCorrect` | `Spec => []TypeOK` |
| `QueueBounded` | `BoundedQueue`, for any number of senders. Needs that the heap is finite, and that the size is compared in the section that pushes |
| `NothingLost`, `QueueOrder` | `Conservation` and `FifoWithinPriority`. The strengthening is that every item, queued or popped, has a number in `1..sequence_counter` of its own, from which a pushed item is new and a popped item is the oldest of its priority |
| `IntakeEnds` | `StopCutsIntake`, for any finite number of senders: after `stop()` has begun no more messages get in than there were senders past their check. The strengthening (`IntakeInv`) counts the pushes under way with the messages accepted, and says that `running` stays cleared |
| `LatchExact` | `LatchCorrect`, both directions. The strengthening relates `streak` to `consecutive_errors` and says that a thread at `latch` has seen `longest` reach the limit: this is why it does no harm that the error lock is dropped before the state lock is taken |
| `QueueIsOutbox` | `ImplementsOutbox`, the refinement: every step is one of `Outbox` or a stutter. A push is `Put` (`PushIsPut`: the new number is the next ticket, and the waiting tickets are as many as the heap has items, as no two share a number), a pop is `Take` (`PopIsTake`: the top is the oldest item of the most urgent priority), `start()` opens, the latch and `stop()` close; `PhaseInv`, that the latch is not set before `start()` and is set from `stop()` on, is what makes the phase of the box go one way |
| `TopIsUnique` | in a heap that is not empty exactly one item precedes all others, so the worker's pop is determined (a least element of the priorities, then of the numbers) |
| `StopIsShort` | once `stop()` has begun, each step of a thread lowers its `Rank`, which is four at most |
| `WatcherProofs!TypeCorrect` | `TypeOK`, together with `AtWork`: wherever the watcher works on a device (`identify`, `spawn`, `settle`) `todo` is not empty and its first element is a device |
| `BridgeOwnership` | `OneBridge`, that is `SpawnAlone` and `BridgeHeld`. They are not inductive alone: `WorkOnly` adds that no bridge is held from the moment a device is taken on until it has settled, that none runs before the spawn, and that one that settles is that of the device at hand |
| `StaleIsLost` | `StaleOnlyIfLost` |
| `CooldownIsEarned` | `CooldownEarned` |
| `BridgesTakeTurns` | a bridge is gone before the next one starts, and one starts only for a device that has said what it is (`Identified`), also when the watcher restarts one |
| `HandlingEnds` | each step of the handling of new devices shortens the list or the work on its first device: a list of `n` devices takes at most `n * (IdentifyRetries + 3) + 1` steps |
| `HybridBridgeProofs!TypeCorrect` | `TypeOK` |
| `PortHeld`, `ExitsClean`, `ReaderOwnsCava` | `NoIoOnClosedPort`, `CleanExit`, `ReaderHasCava`, from one invariant, `BridgeInv`: a thread that has not ended is one that is still to be joined (`ActiveJoined`); the port is closed only where no thread is left to join (`ClosedAlone`); from each statement of `cleanup()` on, what it did stays done (`CleanedUp`), the second cleanup of MPD for want of a checker that could undo it |
| `BridgeLifeProofs!PromiseKept` | of `BridgeLife` itself: a working thread has what it needs and an exit leaves nothing |
| `BridgeKeepsOwnership`, `PromiseHeld` | `ImplementsLife`, the refinement, from `BridgeInv`; and the promise of `BridgeLife`, carried over it to the bridge |
| `EachWorksOnce` | `WorksOnce`, an action property of the bridge itself: no thread begins twice, one that died stays dead, none begins in `cleanup()` or without what it needs, and a process that is over changes nothing. Carried over the refinement from `StagesGoOneWay` of `BridgeLifeProofs` |
| `ShutdownIsShort` | once the stop flag is set no thread starts, and each step of a worker lowers its `Rank`, which is five at most |
| `MpdLinkProofs!TypeCorrect` | `TypeOK`; needs that what `StatusFrom` and `TitleFrom` make of a wrong answer is a status and a title too |
| `LinkInStep`, `ShownWasTrue` | `InStep` and the action property `ShownHappened`, from one invariant, `LinkInv`. Its core is `Paired`: on a good connection either nothing is under way, or exactly the command of the call in progress or its answer, and an answer to a query of `build_state_json` carries a player of `during`. `GotHappened` carries that over to the next query, `BuildsConnected` says that a state is only built while the connection is thought good, `GoneEmpty` that what was under way is lost with the connection |
| `LockHeldShortly` | a call that holds the lock of the client ends within six steps, of which three at most wait for an answer: `Left` falls with each step of the call, whatever MPD answers, and no step of others changes it |
| `CavaBridgeProofs!TypeCorrect`, `FramesAreWhole` | `TypeOK` and `FramesWhole`, from `FrameInv`. Two things carry it. `NewestFrameIsWhole` is the arithmetic of the buffer: skipping whole frames and taking one leaves less than one, and the head at the start of a frame. `LineIsFrame` ties the line being read to the frame of the stream; it holds while CAVA lives, and once more for the line that its death cuts off, after which nothing is read |
| `BackoffIsEarned` | `BackoffEarned`, with `Counters`: it is inductive once the counters have their ranges |
| `DeathIsNoticed` | once CAVA is dead, each step of the bridge lowers `Rank`, which is the bytes left in the pipe and four at most, and nothing fills the pipe again |
| `HandshakeProofs!TypeCorrect`, `BothAgree` | `TypeOK` and `Agreement`. `SameModes` shows that the two readings of an answer are equal for every answer, `SingleMode` and `HybridHasTwo` what the type of a display says of its modes; `Found` keeps what the watcher found until the bridge has it |
| `FailuresAreEarned` | `FailuresEarned`, from `Ledger`. Every failure was paid for by a trouble, and an exchange that may still fail has been paid for already: while a side is reading, either the exchange is `Clean` (the display was asked and its answer, whole or in the pieces that remain, is all there is or will be), or a trouble is to spare. The drains and `~buf` at their end make each new exchange start clean |
| `WelcomeIsKept` | a display that can be identified is not left alone on fewer troubles than there are attempts; with none, its bridge runs exactly its modes after the first attempt. From `Ledger` and from `Counted` (attempts and giving up are counted in failures) |
| `MpdLoopProofs!TypeCorrect` | `TypeOK`; the delay stays between the base delay and the limit |
| `AttemptsKeepApart` | `NoStorm`, from `Apart`. After a failed attempt the back-off holds the next one (`AfterFailure`); after one that succeeded only a query that fails leads to the next, and queries are `UpdateInterval` apart (`WhileConnected`, `AfterLoss`). A query can fail right after an attempt, so two attempts can be close; a third cannot |
| `RetriesAreTimely` | both sides of the back-off: after a failed attempt the next comes no sooner than twice the base delay (or the limit, if less), and is never refused once the limit has passed |

Each invariant proof has the usual three facts (it holds initially, every step
keeps it, it implies the property), with a step per action. TLC checks every
one of these properties first on the small instances.

The two refinements map the initial states to initial states and each step to
one or a stutter, with a step of the proof per action and the invariants above
as context.

**Only model-checked:** liveness, as fairness and `ENABLED` are out of the
prover's reach. What it rests on is proved as far as it is a matter of steps:
`StopIsShort`, `ShutdownIsShort`, `HandlingEnds`, `LockHeldShortly` and
`DeathIsNoticed` give the measure that falls with every step, so that all that
is left to TLC (for `StopReturns`, `DeathEndsProcess`, `Served`,
`DisplayFollows`, `NeitherOutlives`) is that some step can always be taken and,
by fairness, is.


## Where code and documents disagree

1. **A bridge that died is not always replaced** (`WatcherRespawn`,
   `bin/watcher.rs:160`). `signal_handler.rs:53-55` relies on the watcher to
   restart it. It tries once; when that attempt fails, `active` stays set and
   `bridge` empty, and no later step looks at the device again.
2. **A bridge ended by a signal leaves CAVA behind** (`HybridBridgeOrphan`,
   `signal_handler.rs:20`). `docs/compare-c-vs-rust.md:105-108` says that
   everything cleans up when its owner goes out of scope; `_exit` lets no owner
   go out of scope.
3. **Not every error marks the MPD connection as lost** (`MpdLinkErrors`,
   `mpd_bridge.rs:288`). The comment at lines 159-160 says so; only an error of
   `status` does, and after a timeout of another query every answer is taken
   for the one before it.
4. **A hybrid bridge may run without its modes** (`HandshakeModes`,
   `hybrid_bridge.rs:165`). `docs/REPORT.md:287-288` says that the bridge's own
   identification only confirms what the environment tells it, and
   `docs/compare-c-vs-rust.md:207-210` that a garbled answer is recovered by the
   next retry. The environment has no modes but sysinfo, and the bridge does not
   retry: a line it cannot read leaves it running with its command thread
   alone, and the watcher finds nothing wrong with it. A key pressed while the
   bridge waits for the answer is enough (sysinfo then runs, nothing else).


## What is not modelled

* The two clocks of the watcher and a bridge that waits 120 seconds for its
  loopback device (the eight seconds of grace are a nondeterministic step).
* The watcher's wait for MPD before its loops, `--status`, `--cleanup`, and the
  signals that end it.
* A write that is short or blocks, a mutex poisoned by a panic.
* The contents of messages: JSON, the values of the spectrum, `/proc`; elapsed
  time and the total time of the playlist.
* Limits that no run of the program comes near: the 1023 bytes of an ASCII line
  of CAVA, the 4096 bytes of a line of the display.
* `bars = 0`, which only a hand-written configuration can give (a division by
  zero at `cava_manager.rs:317`).
* What nothing calls: `SerialComm::should_reconnect` and its back-off,
  `MpdBridge::disconnect` and `cleanup` of the standalone bridge, whose loop
  ends only with the process.
* The hybrid bridge's own skipping of frames: the rule is that of `CavaBridge`.
* The sysinfo bridge (reads and formats), the logger (a file behind one lock),
  the configuration (constants), the entry points and the action runner (no
  state that outlives a call).


## Plan

Done, each with its runs and proofs: 1 `SerialQueue`; 2 `Watcher`;
3 `HybridBridge`; 4 `MpdLink`; 5 `CavaBridge`; 6 `Handshake`; 7 `MpdLoop`; 8 the
refinements of `Outbox` and `BridgeLife` as theorems.

Next, in this order:

9. The clocks of the watcher against the waiting CAVA bridge, in a composition
   of `Watcher` and the startup of `CavaBridge`.
10. `SerialPort`: `SerialComm` with the queue inside and `close()` against its
    users, composed of `SerialQueue` and the threads of `HybridBridge`.
11. Log rotation, with zero backups.

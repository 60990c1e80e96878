------------------------------ MODULE CavaBridge ------------------------------
(***************************************************************************)
(* The CAVA bridge (modules/cava_bridge.rs) and the CAVA process it runs   *)
(* (core/cava_manager.rs): CAVA writes frames of `bars' values to a pipe,  *)
(* one thread takes them from there and writes them to the display.        *)
(*                                                                         *)
(* A binary frame is `bars' bytes.  An ASCII frame is a line; a value is   *)
(* two bytes of it, the first digits and the rest with the `;', and the    *)
(* last byte is the newline.  The values themselves play no part: bytes    *)
(* are counted, and head says where in its frame the first byte lies that  *)
(* the bridge has not used up.                                             *)
(*                                                                         *)
(* The spectrum is a critical message: the bridge thread writes it itself, *)
(* through write_to_device, whose count of errors and latch are part of    *)
(* the model (SerialQueue has them with several threads).                  *)
(***************************************************************************)
EXTENDS Integers

CONSTANTS
  BarCounts,            \* the numbers of bars displays ask for (1..127)
  MaxValues,            \* what is sent of a frame at most (64)
  ChunkFrames,          \* frames that one read can take (8)
  PipeSize,             \* capacity of the pipe in bytes
  MaxWait,              \* loopback_wait_secs (120)
  MaxConsecutiveErrors, \* of the serial queue (3)
  MaxSkip               \* frames skipped after a failed send at most (8)

ASSUME BarsAssumption == BarCounts \subseteq Nat \ {0}
ASSUME LimitsAssumption == /\ MaxValues \in 1..127
                           /\ ChunkFrames \in Nat \ {0}
                           /\ PipeSize \in Nat \ {0}
                           /\ MaxWait \in Nat
ASSUME ErrorsAssumption == MaxConsecutiveErrors = 3 /\ MaxSkip = 8

VARIABLES
  bars,                \* spectrum_bars
  format,              \* device_format and, with it, cava_format
  pc,                  \* where run() is
  waited,              \* seconds waited for the loopback
  fd,                  \* the serial port: "open" or "closed"
  config_file,         \* CONFIG_PATH exists
  cava,                \* the child: "none", "alive", "dead" or "reaped"
  loopback,            \* the audio loopback device is there
  port,                \* what a write to the port does: "good" or "bad"
  pipe,                \* bytes in the pipe
  head,                \* offset in its frame of the first byte not used up
  binary_buffer,       \* bytes held back by read_binary
  line,                \* bytes of the line read_ascii is reading
  frame,               \* the frame read_data yielded
  skip_count,
  skip_remaining,
  consecutive_errors,
  device_disconnected,
  failures             \* history: failed sends since a good one, up to 4

setupVars == <<bars, format>>
processVars == <<waited, fd, config_file>>
streamVars == <<pipe, head, binary_buffer, line, frame>>
skipVars == <<skip_count, skip_remaining>>
sendVars == <<skipVars, consecutive_errors, device_disconnected, failures>>
vars == <<setupVars, pc, processVars, cava, loopback, port, streamVars,
          sendVars>>

Startup == {"connect", "identify", "config", "loopback", "settle"}
Loop == {"top", "line", "frame"}
Over == {"exited", "killed"}

\* The frame between its reading and its sending: where in its frame of the
\* stream it starts, how many values it has, and whether one of them may
\* have lost its last digits.
NoFrame == [from |-> 0, values |-> 0, torn |-> FALSE]

TypeOK ==
  /\ bars \in BarCounts
  /\ format \in {"json", "binary"}
  /\ pc \in Startup \cup Loop \cup {"cleanup"} \cup Over
  /\ waited \in 0..MaxWait
  /\ fd \in {"open", "closed"}
  /\ config_file \in BOOLEAN
  /\ cava \in {"none", "alive", "dead", "reaped"}
  /\ loopback \in BOOLEAN
  /\ port \in {"good", "bad"}
  /\ pipe \in 0..PipeSize
  /\ head \in Nat
  /\ binary_buffer \in Nat
  /\ line \in Nat
  /\ frame \in [from : Nat, values : Nat, torn : BOOLEAN]
  /\ skip_count \in 0..MaxSkip
  /\ skip_remaining \in 0..MaxSkip
  /\ consecutive_errors \in 0..MaxConsecutiveErrors
  /\ device_disconnected \in BOOLEAN
  /\ failures \in 0..4

\* The format of the display decides that of CAVA (get_cava_env_config).
Init ==
  /\ bars \in BarCounts
  /\ format \in {"json", "binary"}
  /\ pc = "connect"
  /\ waited = 0
  /\ fd = "closed"
  /\ config_file = FALSE
  /\ cava = "none"
  /\ loopback \in BOOLEAN
  /\ port \in {"good", "bad"}
  /\ pipe = 0 /\ head = 0 /\ binary_buffer = 0 /\ line = 0
  /\ frame = NoFrame
  /\ skip_count = 0 /\ skip_remaining = 0
  /\ consecutive_errors = 0
  /\ device_disconnected = FALSE
  /\ failures = 0

Least(a, b) == IF a <= b THEN a ELSE b

\* Bytes of one frame of the stream.
FrameSize == IF format = "binary" THEN bars ELSE 2 * bars + 1

\* binary_header: the number of values a display is told to expect.
Header == bars % 128

-----------------------------------------------------------------------------
\* run(), up to its main loop, and CavaManager::start

\* A return from run() before the main loop: the drops of SerialComm and of
\* CavaManager close the port and remove the configuration.
GiveUp ==
  /\ pc' = "exited"
  /\ fd' = "closed"
  /\ config_file' = FALSE

Connect ==
  /\ pc = "connect"
  /\ \/ pc' = "identify" /\ fd' = "open" /\ UNCHANGED config_file
     \/ GiveUp
  /\ UNCHANGED <<setupVars, waited, cava, loopback, port, streamVars,
                 sendVars>>

\* A display that does not answer is run all the same.
Identify ==
  /\ pc = "identify"
  /\ pc' = "config"
  /\ UNCHANGED <<setupVars, processVars, cava, loopback, port, streamVars,
                 sendVars>>

WriteConfig ==
  /\ pc = "config"
  /\ \/ /\ pc' = "loopback"
        /\ config_file' = TRUE
        /\ waited' = 0
        /\ binary_buffer' = 0
        /\ UNCHANGED fd
     \/ GiveUp /\ UNCHANGED <<waited, binary_buffer>>
  /\ UNCHANGED <<setupVars, cava, loopback, port, pipe, head, line, frame,
                 sendVars>>

\* One look for the loopback, and a second of sleep unless it was the last.
WaitForLoopback ==
  /\ pc = "loopback"
  /\ ~loopback
  /\ \/ /\ waited < MaxWait
        /\ waited' = waited + 1
        /\ UNCHANGED <<pc, fd, config_file>>
     \/ waited = MaxWait /\ GiveUp /\ UNCHANGED waited
  /\ UNCHANGED <<setupVars, cava, loopback, port, streamVars, sendVars>>

Spawn ==
  /\ pc = "loopback"
  /\ loopback
  /\ \/ pc' = "settle" /\ cava' = "alive" /\ UNCHANGED <<fd, config_file>>
     \/ GiveUp /\ UNCHANGED cava
  /\ UNCHANGED <<setupVars, waited, loopback, port, streamVars, sendVars>>

\* The 100 ms after the spawn; try_wait has reaped a child that is dead.
Settle ==
  /\ pc = "settle"
  /\ \/ /\ cava = "alive"
        /\ pc' = "top"
        /\ UNCHANGED <<fd, config_file, cava>>
     \/ cava = "dead" /\ GiveUp /\ cava' = "reaped"
  /\ UNCHANGED <<setupVars, waited, loopback, port, streamVars, sendVars>>

-----------------------------------------------------------------------------
\* read_data()

\* Mutant: the end of the child is not looked for.
ReadExitedNever == FALSE /\ UNCHANGED vars

ReadExited ==
  /\ pc = "top"
  /\ cava = "dead"
  /\ pc' = "cleanup"
  /\ UNCHANGED <<setupVars, processVars, cava, loopback, port, streamVars,
                 sendVars>>

\* Mutant: all complete frames are skipped, the newest one included.
NewestFrameLost(held) ==
  LET num_frames == held \div bars IN num_frames * bars

\* Mutant: the oldest frame is taken and nothing is skipped.
NewestFrameFirst(held) == 0

\* Skip to latest frame: the bytes before the newest complete one.
NewestFrame(held) ==
  LET num_frames == held \div bars IN (num_frames - 1) * bars

\* poll() finds bytes, one read takes what is there up to the chunk, and the
\* newest complete frame is yielded.  The child was alive when it was looked
\* at; the read itself does not depend on it.
ReadBinary ==
  /\ pc = "top"
  /\ cava = "alive" /\ format = "binary"
  /\ pipe > 0
  /\ LET n == Least(pipe, ChunkFrames * bars)
         held == binary_buffer + n
         skip == NewestFrame(held)
     IN
       /\ pipe' = pipe - n
       /\ IF held < bars
            THEN /\ binary_buffer' = held
                 /\ UNCHANGED <<pc, head, frame>>
            ELSE /\ frame' = [from |-> (head + skip) % bars,
                              values |-> Least(bars, MaxValues),
                              torn |-> FALSE]
                 /\ binary_buffer' = held - skip - bars
                 /\ head' = (head + skip + bars) % bars
                 /\ pc' = "frame"
  /\ UNCHANGED <<setupVars, processVars, cava, loopback, port, line, sendVars>>

\* poll() finds the first byte of a line; from here on the reads block.
BeginLine ==
  /\ pc = "top"
  /\ cava = "alive" /\ format = "json"
  /\ pipe > 0
  /\ pc' = "line"
  /\ UNCHANGED <<setupVars, processVars, cava, loopback, port, streamVars,
                 sendVars>>

ReadByte ==
  /\ pc = "line"
  /\ pipe > 0
  /\ head < FrameSize - 1
  /\ pipe' = pipe - 1
  /\ head' = head + 1
  /\ line' = line + 1
  /\ UNCHANGED <<setupVars, pc, processVars, cava, loopback, port,
                 binary_buffer, frame, sendVars>>

\* The line is parsed; it is a frame only if it has as many values as there
\* are bars, of the first MaxValues.
EndLine(torn) ==
  LET values == Least((line + 1) \div 2, MaxValues) IN
  /\ line' = 0
  /\ IF values = bars
       THEN /\ pc' = "frame"
            /\ frame' = [from |-> head - line, values |-> values,
                         torn |-> torn]
       ELSE pc' = "top" /\ UNCHANGED frame

ReadNewline ==
  /\ pc = "line"
  /\ pipe > 0
  /\ head = FrameSize - 1
  /\ pipe' = pipe - 1
  /\ head' = 0
  /\ EndLine(FALSE)
  /\ UNCHANGED <<setupVars, processVars, cava, loopback, port, binary_buffer,
                 sendVars>>

\* The pipe of a CAVA that died ends: what there is of the line is parsed.
ReadEnd ==
  /\ pc = "line"
  /\ pipe = 0
  /\ cava = "dead"
  /\ EndLine(line % 2 = 1)
  /\ UNCHANGED <<setupVars, processVars, cava, loopback, port, pipe, head,
                 binary_buffer, sendVars>>

-----------------------------------------------------------------------------
\* The rest of a turn: process_and_send() and the back-off

\* Mutant: the frames that are skipped are not counted down.
SkipFrameUncounted ==
  /\ pc = "frame"
  /\ skip_remaining > 0
  /\ pc' = "top"
  /\ frame' = NoFrame
  /\ UNCHANGED <<setupVars, processVars, cava, loopback, port, pipe, head,
                 binary_buffer, line, sendVars>>

SkipFrame ==
  /\ pc = "frame"
  /\ skip_remaining > 0
  /\ skip_remaining' = skip_remaining - 1
  /\ pc' = "top"
  /\ frame' = NoFrame
  /\ UNCHANGED <<setupVars, processVars, cava, loopback, port, pipe, head,
                 binary_buffer, line, skip_count, consecutive_errors,
                 device_disconnected, failures>>

\* Mutant: a good send does not clear skip_count.
SendGoodKeepSkip ==
  /\ pc = "frame"
  /\ skip_remaining = 0
  /\ port = "good" /\ ~device_disconnected
  /\ consecutive_errors' = 0
  /\ failures' = 0
  /\ pc' = "top"
  /\ frame' = NoFrame
  /\ UNCHANGED <<setupVars, processVars, cava, loopback, port, pipe, head,
                 binary_buffer, line, skipVars, device_disconnected>>

SendGood ==
  /\ pc = "frame"
  /\ skip_remaining = 0
  /\ port = "good" /\ ~device_disconnected
  /\ consecutive_errors' = 0
  /\ skip_count' = 0
  /\ failures' = 0
  /\ pc' = "top"
  /\ frame' = NoFrame
  /\ UNCHANGED <<setupVars, processVars, cava, loopback, port, pipe, head,
                 binary_buffer, line, skip_remaining, device_disconnected>>

\* write_to_device refuses once the latch is set, and counts otherwise.
CountError ==
  IF device_disconnected
    THEN UNCHANGED <<consecutive_errors, device_disconnected>>
    ELSE /\ consecutive_errors' = consecutive_errors + 1
         /\ device_disconnected' =
              (consecutive_errors + 1 >= MaxConsecutiveErrors)

SendBad ==
  /\ pc = "frame"
  /\ skip_remaining = 0
  /\ port = "bad" \/ device_disconnected
  /\ CountError
  /\ skip_count' = IF skip_count < 1 THEN 1 ELSE Least(skip_count * 2, MaxSkip)
  /\ skip_remaining' = skip_count'
  /\ failures' = Least(failures + 1, 4)
  /\ pc' = "top"
  /\ frame' = NoFrame
  /\ UNCHANGED <<setupVars, processVars, cava, loopback, port, pipe, head,
                 binary_buffer, line>>

\* cleanup(): the port is closed, the child reaped, the configuration removed.
Cleanup ==
  /\ pc = "cleanup"
  /\ pc' = "exited"
  /\ fd' = "closed"
  /\ cava' = "reaped"
  /\ binary_buffer' = 0
  /\ config_file' = FALSE
  /\ UNCHANGED <<setupVars, waited, loopback, port, pipe, head, line, frame,
                 sendVars>>

\* SIGTERM or SIGINT: the handler ends the process, no destructor runs
\* (signal_handler.rs).  The system closes the descriptors.
Signal ==
  /\ pc \notin Over
  /\ pc' = "killed"
  /\ fd' = "closed"
  /\ UNCHANGED <<setupVars, waited, config_file, cava, loopback, port,
                 streamVars, sendVars>>

-----------------------------------------------------------------------------
\* The environment

\* CAVA writes the next byte of its stream, if the pipe has room.
CavaWrite ==
  /\ cava = "alive"
  /\ pc \notin Over
  /\ pipe < PipeSize
  /\ pipe' = pipe + 1
  /\ UNCHANGED <<setupVars, pc, processVars, cava, loopback, port, head,
                 binary_buffer, line, frame, sendVars>>

\* A write to a pipe without a reader ends CAVA.
CavaBrokenPipe ==
  /\ cava = "alive"
  /\ pc \in Over
  /\ cava' = "dead"
  /\ UNCHANGED <<setupVars, pc, processVars, loopback, port, streamVars,
                 sendVars>>

CavaDie ==
  /\ cava = "alive"
  /\ cava' = "dead"
  /\ UNCHANGED <<setupVars, pc, processVars, loopback, port, streamVars,
                 sendVars>>

LoopbackChange ==
  /\ pc = "loopback"
  /\ loopback' = ~loopback
  /\ UNCHANGED <<setupVars, pc, processVars, cava, port, streamVars, sendVars>>

PortChange ==
  /\ pc \in Loop
  /\ port' \in {"good", "bad"} \ {port}
  /\ UNCHANGED <<setupVars, pc, processVars, cava, loopback, streamVars,
                 sendVars>>

Ended == pc \in Over /\ cava # "alive" /\ UNCHANGED vars

Read ==
  \/ ReadExited \/ ReadBinary
  \/ BeginLine \/ ReadByte \/ ReadNewline \/ ReadEnd

BridgeStep ==
  \/ Connect \/ Identify \/ WriteConfig \/ WaitForLoopback \/ Spawn \/ Settle
  \/ Read
  \/ SkipFrame \/ SendGood \/ SendBad
  \/ Cleanup

CavaStep == CavaWrite \/ CavaBrokenPipe

Next ==
  \/ BridgeStep \/ Signal
  \/ CavaStep \/ CavaDie \/ LoopbackChange \/ PortChange
  \/ Ended

Spec == Init /\ [][Next]_vars

\* The bridge goes on as long as it can, and CAVA, while it lives, writes.
Fairness == WF_vars(BridgeStep) /\ WF_vars(CavaStep)

FairSpec == Spec /\ Fairness

-----------------------------------------------------------------------------
\* A frame for the display is one frame of CAVA, from its first value on;
\* with at most MaxValues bars it has as many values as its header announces
\* (binary_header, line 223: with more bars it has fewer).  A value can have
\* lost digits only if CAVA has died.  Between two reads less than one frame
\* is held back, so that what is sent next is never older than the backlog
\* of one read (read_ascii and read_binary, lines 245-327).
FramesWhole ==
  /\ pc = "frame" =>
       /\ frame.from = 0
       /\ frame.values <= bars
       /\ bars <= MaxValues => frame.values = Header
       /\ frame.torn => cava = "dead"
  /\ format = "binary" => head = 0 /\ binary_buffer < bars

\* What a display misses of the spectrum is earned: the skip after the n-th
\* failure in a row is 1, 2, 4, 8, 8, ... frames, and the write path gives
\* the port up with the third of them (run, lines 83-91, against
\* write_to_device, which keeps its own count).
SkipAfter(n) ==
  CASE n = 0 -> 0 [] n = 1 -> 1 [] n = 2 -> 2 [] n = 3 -> 4 [] OTHER -> MaxSkip

BackoffEarned ==
  /\ skip_count = SkipAfter(failures)
  /\ skip_remaining <= skip_count
  /\ consecutive_errors = Least(failures, MaxConsecutiveErrors)
  /\ device_disconnected <=> failures >= MaxConsecutiveErrors

\* The main loop serves a port that takes what is written.
Serving ==
  /\ pc \in Loop
  /\ cava = "alive"
  /\ port = "good" /\ ~device_disconnected
  /\ format = "binary" \/ bars <= MaxValues

\* Liveness: once the port is good for ever and was not given up, frames
\* reach it again and again, whatever is in the buffer and however many
\* frames are still to be skipped.  ASCII frames need bars <= MaxValues.
SpectrumFlows == <>[]Serving => []<><<SendGood>>_vars

\* Liveness: a bridge whose CAVA died ends, so that the watcher can start
\* another one (run, lines 79-82), and a CAVA whose bridge ended does too.
NeitherOutlives ==
  /\ cava = "dead" ~> pc \in Over
  /\ pc \in Over ~> cava # "alive"

=============================================================================

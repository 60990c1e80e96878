-------------------------- MODULE CavaBridgeProofs --------------------------
(***************************************************************************)
(* Proofs about CavaBridge, for every set of numbers of bars, every size   *)
(* of the pipe and of a read, and every wait for the loopback.             *)
(***************************************************************************)
EXTENDS CavaBridge, TLAPS

-----------------------------------------------------------------------------
\* Arithmetic of frames

LEMMA Division ==
  ASSUME NEW b \in Nat \ {0}, NEW held \in Nat
  PROVE  /\ held \div b \in Nat
         /\ held % b \in 0..(b - 1)
         /\ held = (held \div b) * b + (held % b)
  OBVIOUS

LEMMA WholeFramesLeaveNothing ==
  ASSUME NEW b \in Nat \ {0}, NEW k \in Nat
  PROVE  (k * b) % b = 0
  OBVIOUS

\* What read_binary does to its buffer: it skips whole frames, takes one, and
\* holds back less than one.
LEMMA NewestFrameIsWhole ==
  ASSUME bars \in Nat \ {0}, NEW held \in Nat, held >= bars
  PROVE  /\ NewestFrame(held) \in Nat
         /\ NewestFrame(held) % bars = 0
         /\ (NewestFrame(held) + bars) % bars = 0
         /\ held - NewestFrame(held) - bars \in 0..(bars - 1)
<1> DEFINE n == held \div bars
<1>1. /\ n \in Nat
      /\ held % bars \in 0..(bars - 1)
      /\ held = n * bars + (held % bars)
  BY Division
<1>2. n # 0
  <2>1. SUFFICES ASSUME n = 0 PROVE FALSE
    OBVIOUS
  <2>2. n * bars = 0
    BY <2>1
  <2> HIDE DEF n
  <2>3. QED BY <1>1, <2>2
<1>3. NewestFrame(held) = (n - 1) * bars
  BY DEF NewestFrame
<1> HIDE DEF n
<1>4. n - 1 \in Nat
  BY <1>1, <1>2
<1>5. (n - 1) * bars \in Nat /\ (n - 1) * bars + bars = n * bars
  <2>1. (n - 1) * bars + bars = n * bars
    BY <1>1
  <2>2. \A k \in Nat : k * bars \in Nat
    OBVIOUS
  <2>3. QED BY <1>4, <2>1, <2>2
<1>6. ((n - 1) * bars) % bars = 0
  BY <1>4, WholeFramesLeaveNothing
<1>7. (n * bars) % bars = 0
  BY <1>1, WholeFramesLeaveNothing
<1>8. held - (n - 1) * bars - bars = held % bars
  <2>1. held - ((n - 1) * bars + bars) = held % bars
    BY <1>1, <1>5
  <2>2. QED BY <1>5, <2>1
<1> DEFINE skip == (n - 1) * bars
<1>9. /\ skip \in Nat
      /\ skip % bars = 0
      /\ (skip + bars) % bars = 0
      /\ held - skip - bars \in 0..(bars - 1)
  BY <1>1, <1>5, <1>6, <1>7, <1>8
<1> HIDE DEF skip
<1>10. NewestFrame(held) = skip
  BY <1>3 DEF skip
<1>11. QED BY <1>9, <1>10

-----------------------------------------------------------------------------
\* The variables outside the stream and the back-off keep their types.
Flags ==
  /\ bars \in BarCounts
  /\ format \in {"json", "binary"}
  /\ pc \in Startup \cup Loop \cup {"cleanup"} \cup Over
  /\ waited \in 0..MaxWait
  /\ fd \in {"open", "closed"}
  /\ cava \in {"none", "alive", "dead", "reaped"}
  /\ port \in {"good", "bad"}
  /\ pipe \in 0..PipeSize
  /\ pc \in {"connect", "identify", "config", "loopback"} => cava = "none"
  /\ pc = "line" => format = "json"

LEMMA FlagsHold == Spec => []Flags
<1> USE BarsAssumption, LimitsAssumption DEF Startup, Loop, Over
<1>1. Init => Flags
  BY DEF Init, Flags
<1>2. Flags /\ [Next]_vars => Flags'
  <2> SUFFICES ASSUME Flags, [Next]_vars PROVE Flags'
    OBVIOUS
  <2> USE DEF Flags, GiveUp, setupVars, processVars, streamVars, skipVars,
              sendVars
  <2>1. CASE Connect \/ Identify \/ WriteConfig
    <3>1. CASE Connect
      BY <3>1 DEF Connect
    <3>2. CASE Identify
      BY <3>2 DEF Identify
    <3>3. CASE WriteConfig
      BY <3>3 DEF WriteConfig
    <3>4. QED BY <2>1, <3>1, <3>2, <3>3
  <2>2. CASE WaitForLoopback \/ Spawn \/ Settle
    <3>1. CASE WaitForLoopback
      BY <3>1 DEF WaitForLoopback
    <3>2. CASE Spawn
      BY <3>2 DEF Spawn
    <3>3. CASE Settle
      BY <3>3 DEF Settle
    <3>4. QED BY <2>2, <3>1, <3>2, <3>3
  <2>3. CASE ReadExited \/ BeginLine
    BY <2>3 DEF ReadExited, BeginLine
  <2>4. CASE ReadBinary
    <3> DEFINE n == Least(pipe, ChunkFrames * bars)
    <3>1. /\ pipe' = pipe - n
          /\ pc' \in {pc, "frame"}
          /\ UNCHANGED <<setupVars, processVars, cava, loopback, port>>
      BY <2>4 DEF ReadBinary
    <3>2. ChunkFrames * bars \in Nat
      OBVIOUS
    <3>3. n \in 0..pipe
      BY <3>2 DEF Least
    <3> HIDE DEF n
    <3>4. pipe' \in 0..PipeSize
      BY <3>1, <3>3
    <3>5. QED BY <3>1, <3>4
  <2>5. CASE ReadByte \/ ReadNewline \/ ReadEnd
    BY <2>5 DEF ReadByte, ReadNewline, ReadEnd, EndLine
  <2>6. CASE SkipFrame \/ SendGood \/ SendBad \/ Cleanup
    BY <2>6 DEF SkipFrame, SendGood, SendBad, Cleanup
  <2>7. CASE Signal \/ LoopbackChange \/ PortChange
    BY <2>7 DEF Signal, LoopbackChange, PortChange
  <2>8. CASE CavaStep \/ CavaDie
    BY <2>8 DEF CavaStep, CavaWrite, CavaBrokenPipe, CavaDie
  <2>9. CASE UNCHANGED vars
    BY <2>9 DEF vars
  <2>10. QED
    BY <2>1, <2>2, <2>3, <2>4, <2>5, <2>6, <2>7, <2>8, <2>9
    DEF Next, BridgeStep, Read, Ended
<1>3. QED BY <1>1, <1>2, PTL DEF Spec

Truths ==
  /\ config_file \in BOOLEAN
  /\ loopback \in BOOLEAN
  /\ device_disconnected \in BOOLEAN

LEMMA TruthsHold == Spec => []Truths
<1>1. Init => Truths
  BY Zenon DEF Init, Truths
<1>2. Truths /\ [Next]_vars => Truths'
  <2> SUFFICES ASSUME Truths, [Next]_vars PROVE Truths'
    OBVIOUS
  <2> USE DEF Truths, GiveUp, setupVars, processVars, streamVars, sendVars
  <2>1. CASE Connect \/ Identify \/ WriteConfig
    BY <2>1, Zenon DEF Connect, Identify, WriteConfig
  <2>2. CASE WaitForLoopback \/ Spawn \/ Settle
    BY <2>2, Zenon DEF WaitForLoopback, Spawn, Settle
  <2>3. CASE Read
    BY <2>3, Zenon DEF Read, ReadExited, BeginLine, ReadBinary, ReadByte,
                       ReadNewline, ReadEnd
  <2>4. CASE SkipFrame \/ SendGood \/ SendBad \/ Cleanup
    <3>1. device_disconnected' \in BOOLEAN
      <4>1. (consecutive_errors + 1 >= MaxConsecutiveErrors) \in BOOLEAN
        OBVIOUS
      <4>2. CASE SendBad
        BY <4>1, <4>2, Zenon DEF SendBad, CountError
      <4>3. CASE ~SendBad
        BY <2>4, <4>3, Zenon DEF SkipFrame, SendGood, Cleanup
      <4>4. QED BY <4>2, <4>3
    <3>2. QED BY <2>4, <3>1, Zenon DEF SkipFrame, SendGood, SendBad, Cleanup
  <2>5. CASE Signal \/ LoopbackChange \/ PortChange
    BY <2>5, Zenon DEF Signal, LoopbackChange, PortChange
  <2>6. CASE CavaStep \/ CavaDie
    BY <2>6, Zenon DEF CavaStep, CavaWrite, CavaBrokenPipe, CavaDie
  <2>7. CASE UNCHANGED vars
    BY <2>7, Zenon DEF vars
  <2>8. QED
    BY <2>1, <2>2, <2>3, <2>4, <2>5, <2>6, <2>7
    DEF Next, BridgeStep, Ended
<1>3. QED BY <1>1, <1>2, PTL DEF Spec

-----------------------------------------------------------------------------
\* The frames.

StreamOK ==
  /\ head \in Nat
  /\ binary_buffer \in Nat
  /\ line \in Nat
  /\ frame \in [from : Nat, values : Nat, torn : BOOLEAN]

\* In ASCII the line held is what was used of the frame, from its first byte
\* on, for as long as CAVA lives; when it has died one more line may be cut
\* off, and nothing is read after that.
LineIsFrame ==
  format = "json" /\ (pc = "line" \/ cava \in {"none", "alive"}) =>
    head = line /\ head < FrameSize

FrameInv == StreamOK /\ LineIsFrame /\ FramesWhole

\* A step that uses up nothing of the stream and does not come to a frame or
\* a line from elsewhere keeps the frames whole.
LEMMA OtherSteps ==
  ASSUME Flags, FrameInv,
         UNCHANGED <<bars, format, head, line>>,
         frame' \in {frame, NoFrame},
         binary_buffer' \in {binary_buffer, 0},
         pc' = "line" => pc = "line",
         pc' = "frame" =>
           /\ pc = "frame" /\ frame' = frame
           /\ cava = "dead" => cava' = "dead",
         cava' \in {"none", "alive"} => cava \in {"none", "alive"}
  PROVE  FrameInv'
<1> USE DEF FrameInv
<1>1. StreamOK'
  <2>1. NoFrame \in [from : Nat, values : Nat, torn : BOOLEAN]
    BY Zenon DEF NoFrame
  <2>2. frame' \in [from : Nat, values : Nat, torn : BOOLEAN]
    BY <2>1, Zenon DEF StreamOK
  <2>3. QED BY <2>2 DEF StreamOK
<1>2. LineIsFrame'
  BY DEF LineIsFrame, FrameSize
<1>3. FramesWhole'
  <2>1. (pc = "frame" =>
           /\ frame.from = 0
           /\ frame.values <= bars
           /\ bars <= MaxValues => frame.values = Header
           /\ frame.torn => cava = "dead")'
    BY Zenon DEF FramesWhole, Header
  <2>2. (format = "binary" => head = 0 /\ binary_buffer < bars)'
    BY BarsAssumption DEF FramesWhole, Flags
  <2>3. QED BY <2>1, <2>2 DEF FramesWhole
<1>4. QED BY <1>1, <1>2, <1>3

\* A step of read_ascii that goes on with a line.
LEMMA LineSteps ==
  ASSUME Flags, FrameInv, BeginLine \/ ReadByte
  PROVE  FrameInv'
<1> USE BarsAssumption
    DEF Flags, FrameInv, BeginLine, ReadByte, setupVars, streamVars
<1>1. UNCHANGED <<bars, format, cava, binary_buffer, frame>> /\ pc' = "line"
  OBVIOUS
<1>2. StreamOK'
  BY <1>1 DEF StreamOK
<1>3. LineIsFrame'
  BY <1>1 DEF LineIsFrame, FrameSize, StreamOK
<1>4. format = "json"
  OBVIOUS
<1>5. FramesWhole'
  BY <1>1, <1>4 DEF FramesWhole
<1>6. QED BY <1>2, <1>3, <1>5

\* read_ascii comes to the end of its line: by the newline the line is one
\* frame, by the end of the pipe it may have fewer values than that.
LEMMA EndOfLine ==
  ASSUME Flags, FrameInv, ReadNewline \/ ReadEnd
  PROVE  FrameInv'
<1> USE BarsAssumption, LimitsAssumption
<1>1. /\ format = "json" /\ pc = "line"
      /\ head = line
      /\ UNCHANGED <<bars, format, binary_buffer, cava>>
      /\ line' = 0
  BY DEF Flags, FrameInv, LineIsFrame, ReadNewline, ReadEnd, EndLine,
         setupVars
<1>2. head' = 0 \/ cava' = "dead"
  BY <1>1 DEF ReadNewline, ReadEnd
<1>3. ASSUME NEW torn \in BOOLEAN, EndLine(torn), torn => cava = "dead"
      PROVE  FrameInv'
  <2> DEFINE values == Least((line + 1) \div 2, MaxValues)
  <2>0. line \in Nat /\ bars \in Nat /\ format' = "json"
    BY <1>1 DEF FrameInv, StreamOK, Flags
  <2>1. head' \in Nat /\ binary_buffer' \in Nat /\ line' \in Nat
    <3>1. head' = 0 \/ head' = head
      BY Zenon DEF ReadNewline, ReadEnd
    <3>2. QED BY <1>1, <3>1 DEF FrameInv, StreamOK
  <2>2. LineIsFrame'
    BY <1>1, <1>2, <1>3, <2>0 DEF LineIsFrame, FrameSize, EndLine
  <2>3. CASE values = bars
    <3>1. /\ pc' = "frame"
          /\ frame' = [from |-> head - line, values |-> values,
                       torn |-> torn]
      BY <1>3, <2>3, Zenon DEF EndLine
    <3>2. head - line = 0 /\ values \in Nat
      BY <1>1, <2>0, <2>3
    <3>3. bars <= MaxValues
      BY <2>0, <2>3 DEF Least
    <3> HIDE DEF values
    <3>4. frame' = [from |-> 0, values |-> bars, torn |-> torn]
      BY <2>3, <3>1, <3>2
    <3>5. frame' \in [from : Nat, values : Nat, torn : BOOLEAN]
      BY <2>0, <3>4, Zenon
    <3>6. StreamOK'
      BY <2>1, <3>5 DEF StreamOK
    <3>7. /\ frame'.from = 0 /\ frame'.values = bars
          /\ frame'.torn => cava' = "dead"
      BY <1>1, <1>3, <3>4, Zenon
    <3>8. bars = bars % 128
      BY <2>0, <3>3
    <3>9. FramesWhole'
      BY <1>1, <2>0, <3>7, <3>8 DEF FramesWhole, Header
    <3>10. QED BY <2>2, <3>6, <3>9 DEF FrameInv
  <2>4. CASE values # bars
    <3>1. pc' = "top" /\ UNCHANGED frame
      BY <1>3, <2>4, Zenon DEF EndLine
    <3>2. StreamOK'
      BY <2>1, <3>1 DEF StreamOK, FrameInv
    <3>3. FramesWhole'
      BY <2>0, <3>1 DEF FramesWhole
    <3>4. QED BY <2>2, <3>2, <3>3 DEF FrameInv
  <2>5. QED BY <2>3, <2>4
<1>4. CASE ReadNewline
  <2>1. EndLine(FALSE)
    BY <1>4 DEF ReadNewline
  <2>2. QED BY <1>3, <2>1
<1>5. CASE ReadEnd
  <2>1. EndLine(line % 2 = 1) /\ cava = "dead"
    BY <1>5 DEF ReadEnd
  <2>2. (line % 2 = 1) \in BOOLEAN
    OBVIOUS
  <2>3. QED BY <1>3, <2>1, <2>2, Zenon
<1>6. QED BY <1>4, <1>5

\* read_binary: what is yielded is the newest complete frame.
LEMMA BinaryFrame ==
  ASSUME Flags, FrameInv, ReadBinary
  PROVE  FrameInv'
<1> USE BarsAssumption, LimitsAssumption
<1> DEFINE n == Least(pipe, ChunkFrames * bars)
           held == binary_buffer + n
           skip == NewestFrame(held)
<1>1. /\ format = "binary" /\ pc = "top" /\ cava = "alive"
      /\ head = 0
      /\ UNCHANGED <<bars, format, cava, line>>
      /\ IF held < bars
           THEN /\ binary_buffer' = held
                /\ UNCHANGED <<pc, head, frame>>
           ELSE /\ frame' = [from |-> (head + skip) % bars,
                             values |-> Least(bars, MaxValues),
                             torn |-> FALSE]
                /\ binary_buffer' = held - skip - bars
                /\ head' = (head + skip + bars) % bars
                /\ pc' = "frame"
  BY DEF ReadBinary, FrameInv, FramesWhole, setupVars
<1>2. bars \in Nat \ {0}
  BY DEF Flags
<1>3. held \in Nat
  <2>1. ChunkFrames * bars \in Nat
    BY <1>2
  <2>2. n \in Nat
    BY <2>1 DEF Least, Flags
  <2> HIDE DEF n
  <2>3. QED BY <2>2 DEF FrameInv, StreamOK
<1> HIDE DEF held
<1>4. CASE held < bars
  <2>1. /\ binary_buffer' = held
        /\ UNCHANGED <<pc, head, frame>>
    BY <1>1, <1>4
  <2>2. StreamOK'
    BY <1>1, <1>3, <2>1 DEF FrameInv, StreamOK
  <2>3. LineIsFrame'
    BY <1>1 DEF LineIsFrame
  <2>4. FramesWhole'
    BY <1>1, <1>4, <2>1 DEF FramesWhole
  <2>5. QED BY <2>2, <2>3, <2>4 DEF FrameInv
<1>5. CASE held >= bars
  <2>1. /\ skip \in Nat
        /\ skip % bars = 0
        /\ (skip + bars) % bars = 0
        /\ held - skip - bars \in 0..(bars - 1)
    BY <1>2, <1>3, <1>5, NewestFrameIsWhole
  <2> HIDE DEF skip
  <2>2. /\ frame' = [from |-> 0, values |-> Least(bars, MaxValues),
                     torn |-> FALSE]
        /\ binary_buffer' \in 0..(bars - 1)
        /\ head' = 0
        /\ pc' = "frame"
    BY <1>1, <1>2, <1>3, <1>5, <2>1
  <2>3. /\ Least(bars, MaxValues) \in Nat
        /\ Least(bars, MaxValues) <= bars
        /\ bars <= MaxValues => Least(bars, MaxValues) = bars % 128
    BY <1>2 DEF Least
  <2>4. StreamOK'
    BY <1>1, <1>2, <2>2, <2>3 DEF FrameInv, StreamOK
  <2>5. LineIsFrame'
    BY <1>1 DEF LineIsFrame
  <2>6. FramesWhole'
    BY <1>1, <1>2, <2>2, <2>3 DEF FramesWhole, Header
  <2>7. QED BY <2>4, <2>5, <2>6 DEF FrameInv
<1>6. QED BY <1>2, <1>3, <1>4, <1>5

LEMMA FrameInvHolds == Spec => []FrameInv
<1>1. Init => FrameInv
  <2> SUFFICES ASSUME Init PROVE FrameInv
    OBVIOUS
  <2>1. NoFrame \in [from : Nat, values : Nat, torn : BOOLEAN]
    BY Zenon DEF NoFrame
  <2>2. StreamOK
    BY <2>1 DEF Init, StreamOK
  <2>3. LineIsFrame /\ FramesWhole
    BY BarsAssumption DEF Init, LineIsFrame, FramesWhole, FrameSize
  <2>4. QED BY <2>2, <2>3 DEF FrameInv
<1>2. Flags /\ FrameInv /\ [Next]_vars => FrameInv'
  <2> SUFFICES ASSUME Flags, FrameInv, [Next]_vars PROVE FrameInv'
    OBVIOUS
  <2>1. CASE BeginLine \/ ReadByte
    BY <2>1, LineSteps
  <2>2. CASE ReadNewline \/ ReadEnd
    BY <2>2, EndOfLine
  <2>3. CASE ReadBinary
    BY <2>3, BinaryFrame
  <2> DEFINE Other ==
        /\ UNCHANGED <<bars, format, head, line>>
        /\ frame' \in {frame, NoFrame}
        /\ binary_buffer' \in {binary_buffer, 0}
        /\ pc' = "line" => pc = "line"
        /\ pc' = "frame" => /\ pc = "frame" /\ frame' = frame
                            /\ cava = "dead" => cava' = "dead"
        /\ cava' \in {"none", "alive"} => cava \in {"none", "alive"}
  <2> USE DEF GiveUp, setupVars, processVars, streamVars
  <2>4. CASE Connect \/ Identify \/ WriteConfig
    <3>1. Other
      BY <2>4 DEF Connect, Identify, WriteConfig
    <3>2. QED BY <3>1, OtherSteps
  <2>5. CASE WaitForLoopback \/ Spawn \/ Settle
    <3>1. Other
      BY <2>5 DEF WaitForLoopback, Spawn, Settle, Flags
    <3>2. QED BY <3>1, OtherSteps
  <2>6. CASE ReadExited \/ SkipFrame \/ SendGood \/ SendBad
    <3>1. Other
      BY <2>6 DEF ReadExited, SkipFrame, SendGood, SendBad
    <3>2. QED BY <3>1, OtherSteps
  <2>7. CASE Cleanup \/ Signal \/ LoopbackChange \/ PortChange
    <3>1. Other
      BY <2>7 DEF Cleanup, Signal, LoopbackChange, PortChange
    <3>2. QED BY <3>1, OtherSteps
  <2>8. CASE CavaStep \/ CavaDie
    <3>1. Other
      BY <2>8 DEF CavaStep, CavaWrite, CavaBrokenPipe, CavaDie
    <3>2. QED BY <3>1, OtherSteps
  <2>9. CASE UNCHANGED vars
    <3>1. Other
      BY <2>9 DEF vars
    <3>2. QED BY <3>1, OtherSteps
  <2>10. QED
    BY <2>1, <2>2, <2>3, <2>4, <2>5, <2>6, <2>7, <2>8, <2>9
    DEF Next, BridgeStep, Read, Ended
<1>3. QED BY <1>1, <1>2, FlagsHold, PTL DEF Spec

\* What is sent to the display is one frame of CAVA from its first value on,
\* with the number of values its header announces, and less than one frame
\* is held back, however the bytes of the stream fall into reads.
THEOREM FramesAreWhole == Spec => []FramesWhole
BY FrameInvHolds, PTL DEF FrameInv

-----------------------------------------------------------------------------
\* The back-off.

Counters ==
  /\ skip_count \in 0..MaxSkip
  /\ skip_remaining \in 0..MaxSkip
  /\ consecutive_errors \in 0..MaxConsecutiveErrors
  /\ failures \in 0..4

LEMMA CountersHold == Spec => [](Counters /\ BackoffEarned)
<1> DEFINE Counted == Counters /\ BackoffEarned
<1> USE ErrorsAssumption DEF Counters, BackoffEarned, SkipAfter, Least
<1>1. Init => Counted
  <2> SUFFICES ASSUME Init PROVE Counted
    OBVIOUS
  <2>1. /\ skip_count = 0 /\ skip_remaining = 0
        /\ consecutive_errors = 0 /\ failures = 0
        /\ ~device_disconnected
    BY DEF Init
  <2>2. QED BY <2>1
<1>2. Counted /\ [Next]_vars => Counted'
  <2> SUFFICES ASSUME Counted, [Next]_vars PROVE Counted'
    OBVIOUS
  <2>1. CASE SkipFrame
    <3>1. /\ skip_remaining' = skip_remaining - 1 /\ skip_remaining > 0
          /\ UNCHANGED <<skip_count, consecutive_errors, device_disconnected,
                         failures>>
      BY <2>1 DEF SkipFrame
    <3>2. QED BY <3>1
  <2>2. CASE SendGood
    <3>1. /\ skip_remaining' = 0 /\ skip_count' = 0
          /\ consecutive_errors' = 0 /\ failures' = 0
          /\ ~device_disconnected'
      BY <2>2 DEF SendGood, skipVars
    <3>2. QED BY <3>1
  <2>3. CASE SendBad
    <3>1. /\ CountError
          /\ skip_count' = IF skip_count < 1 THEN 1
                                             ELSE Least(skip_count * 2, MaxSkip)
          /\ skip_remaining' = skip_count'
          /\ failures' = Least(failures + 1, 4)
      BY <2>3 DEF SendBad
    <3>2. CASE device_disconnected
      <4>1. failures \in {3, 4} /\ device_disconnected'
            /\ consecutive_errors' = consecutive_errors
        BY <3>1, <3>2 DEF CountError
      <4>2. QED BY <3>1, <4>1
    <3>3. CASE ~device_disconnected
      <4>1. /\ failures \in {0, 1, 2} /\ consecutive_errors = failures
            /\ consecutive_errors' = failures + 1
            /\ device_disconnected' <=> (failures = 2)
        <5>1. /\ consecutive_errors' = consecutive_errors + 1
              /\ device_disconnected'
                   = (consecutive_errors + 1 >= MaxConsecutiveErrors)
          BY <3>1, <3>3, Zenon DEF CountError
        <5>2. failures \in {0, 1, 2} /\ consecutive_errors = failures
          BY <3>3
        <5>3. (consecutive_errors + 1 >= MaxConsecutiveErrors)
                <=> (failures = 2)
          BY <5>2
        <5>4. device_disconnected' <=> (failures = 2)
          BY <5>1, <5>3, Zenon
        <5>5. QED BY <5>1, <5>2, <5>4
      <4>2. QED BY <3>1, <4>1
    <3>4. QED BY <3>2, <3>3
  <2>4. CASE UNCHANGED sendVars
    BY <2>4 DEF sendVars, skipVars
  <2>5. SkipFrame \/ SendGood \/ SendBad \/ UNCHANGED sendVars
    BY DEF Next, BridgeStep, Connect, Identify, WriteConfig, WaitForLoopback,
           Spawn, Settle, Read, ReadExited, ReadBinary, BeginLine, ReadByte,
           ReadNewline, ReadEnd, Cleanup, Signal, CavaStep, CavaWrite,
           CavaBrokenPipe, CavaDie, LoopbackChange, PortChange, Ended, vars
  <2>6. QED BY <2>1, <2>2, <2>3, <2>4, <2>5
<1>3. QED BY <1>1, <1>2, PTL DEF Spec

\* What a display misses is earned by failed sends, and the port is given up
\* with the third of them in a row.
THEOREM BackoffIsEarned == Spec => []BackoffEarned
BY CountersHold, PTL

-----------------------------------------------------------------------------
\* Type correctness: every variable keeps its type, the lengths of the
\* buffers among them, which are differences of lengths in the code.
THEOREM TypeCorrect == Spec => []TypeOK
<1>1. Flags /\ Truths /\ FrameInv /\ Counters => TypeOK
  BY DEF Flags, Truths, FrameInv, StreamOK, Counters, TypeOK
<1>2. QED BY <1>1, FlagsHold, TruthsHold, FrameInvHolds, CountersHold, PTL

-----------------------------------------------------------------------------
\* How many steps the bridge has left when CAVA is dead: the bytes in the
\* pipe, the end of the line, a frame to send, a last look, the cleanup.
Rank ==
  CASE pc = "line" -> pipe + 4
    [] pc = "frame" -> 3
    [] pc = "top" -> 2
    [] pc \in {"cleanup", "settle"} -> 1
    [] OTHER -> 0

\* From the death of CAVA on every step of the bridge comes closer to its
\* end, and nothing else takes it further away or fills the pipe again: the
\* bridge outlives CAVA by the bytes in the pipe and four more steps at most
\* (read_data looks for the end before it polls; run leaves its loop on it).
OutlivesBriefly ==
  cava = "dead" /\ pc \notin Over =>
    /\ cava' \in {"dead", "reaped"}
    /\ BridgeStep => Rank' < Rank
    /\ UNCHANGED <<pc, pipe>> \/ Rank' < Rank

THEOREM DeathIsNoticed == Spec => [][OutlivesBriefly]_vars
<1>1. ASSUME Flags, Next, cava = "dead", pc \notin Over
      PROVE  OutlivesBriefly
  <2> USE <1>1
  <2>1. /\ pipe \in Nat
        /\ pc \in {"settle", "line", "frame", "top", "cleanup"}
    BY LimitsAssumption DEF Flags, Startup, Loop, Over
  <2>2. ASSUME BridgeStep
        PROVE  cava' \in {"dead", "reaped"} /\ Rank' < Rank
    <3>1. CASE pc = "settle"
      <4>1. Settle
        BY <2>2, <3>1
        DEF BridgeStep, Connect, Identify, WriteConfig, WaitForLoopback, Spawn,
            Read, ReadExited, ReadBinary, BeginLine, ReadByte, ReadNewline,
            ReadEnd, SkipFrame, SendGood, SendBad, Cleanup
      <4>2. QED BY <3>1, <4>1 DEF Settle, GiveUp, Rank
    <3>2. CASE pc = "top"
      <4>1. ReadExited
        BY <2>2, <3>2
        DEF BridgeStep, Connect, Identify, WriteConfig, WaitForLoopback, Spawn,
            Settle, Read, ReadBinary, BeginLine, ReadByte, ReadNewline,
            ReadEnd, SkipFrame, SendGood, SendBad, Cleanup
      <4>2. QED BY <3>2, <4>1 DEF ReadExited, Rank
    <3>3. CASE pc = "line"
      <4>1. ReadByte \/ ReadNewline \/ ReadEnd
        BY <2>2, <3>3
        DEF BridgeStep, Connect, Identify, WriteConfig, WaitForLoopback, Spawn,
            Settle, Read, ReadExited, ReadBinary, BeginLine, SkipFrame,
            SendGood, SendBad, Cleanup
      <4>2. CASE ReadByte
        BY <2>1, <3>3, <4>2 DEF ReadByte, Rank
      <4>3. CASE ReadNewline \/ ReadEnd
        <5>1. cava' = cava /\ pc' \in {"frame", "top"}
          BY <4>3 DEF ReadNewline, ReadEnd, EndLine
        <5>2. QED BY <2>1, <3>3, <5>1 DEF Rank
      <4>4. QED BY <4>1, <4>2, <4>3
    <3>4. CASE pc = "frame"
      <4>1. SkipFrame \/ SendGood \/ SendBad
        BY <2>2, <3>4
        DEF BridgeStep, Connect, Identify, WriteConfig, WaitForLoopback, Spawn,
            Settle, Read, ReadExited, ReadBinary, BeginLine, ReadByte,
            ReadNewline, ReadEnd, Cleanup
      <4>2. cava' = cava /\ pc' = "top"
        BY <4>1 DEF SkipFrame, SendGood, SendBad
      <4>3. QED BY <3>4, <4>2 DEF Rank
    <3>5. CASE pc = "cleanup"
      <4>1. Cleanup
        BY <2>2, <3>5
        DEF BridgeStep, Connect, Identify, WriteConfig, WaitForLoopback, Spawn,
            Settle, Read, ReadExited, ReadBinary, BeginLine, ReadByte,
            ReadNewline, ReadEnd, SkipFrame, SendGood, SendBad
      <4>2. QED BY <3>5, <4>1 DEF Cleanup, Rank
    <3>6. QED BY <2>1, <3>1, <3>2, <3>3, <3>4, <3>5
  <2>3. CASE Signal
    <3>1. pc' = "killed" /\ cava' = cava
      BY <2>3 DEF Signal
    <3>2. Rank' = 0 /\ Rank > 0
      BY <2>1, <3>1 DEF Rank
    <3>3. QED BY <2>2, <3>1, <3>2 DEF OutlivesBriefly
  <2>4. ~CavaStep /\ ~CavaDie /\ ~Ended
    BY DEF CavaStep, CavaWrite, CavaBrokenPipe, CavaDie, Ended
  <2>5. CASE LoopbackChange \/ PortChange
    <3>1. UNCHANGED <<pc, pipe, cava>>
      BY <2>5 DEF LoopbackChange, PortChange, streamVars
    <3>2. QED BY <2>2, <3>1 DEF OutlivesBriefly
  <2>6. QED BY <2>2, <2>3, <2>4, <2>5 DEF Next, OutlivesBriefly
<1>2. Flags /\ [Next]_vars => [OutlivesBriefly]_vars
  BY <1>1 DEF OutlivesBriefly
<1>3. QED BY <1>2, FlagsHold, PTL DEF Spec
=============================================================================

--------------------------- MODULE HandshakeProofs ---------------------------
(***************************************************************************)
(* Proofs about Handshake, for every number of attempts and every bound.   *)
(***************************************************************************)
EXTENDS Handshake, FiniteSetTheorems, SequenceTheorems, TLAPS

\* The modes of an answer are known ones, and both sides find the same.
LEMMA SameModes ==
  ASSUME NEW a \in Answers
  PROVE  /\ WatcherModes(a) \subseteq Modes
         /\ BridgeModes(a) = WatcherModes(a)
BY DEF WatcherModes, BridgeModes, Answers

LEMMA HybridHasTwo ==
  ASSUME NEW S \in SUBSET Modes, Type(S) = "hybrid"
  PROVE  Cardinality(S) >= 2
<1>1. S # {} /\ \A m \in Modes : S # {m}
  BY DEF Type, Modes
<1>2. PICK x \in S, y \in S : x # y
  BY <1>1
<1>3. IsFiniteSet(Modes)
  <2>1. IsFiniteSet({"mpd"})
    BY FS_Singleton
  <2>2. IsFiniteSet({"mpd"} \cup {"cava"})
    BY <2>1, FS_AddElement
  <2>3. IsFiniteSet(({"mpd"} \cup {"cava"}) \cup {"sysinfo"})
    BY <2>2, FS_AddElement
  <2>4. Modes = ({"mpd"} \cup {"cava"}) \cup {"sysinfo"}
    BY DEF Modes
  <2>5. QED BY <2>3, <2>4
<1>4. IsFiniteSet(S)
  BY <1>3, FS_Subset
<1>5. IsFiniteSet({x}) /\ Cardinality({x}) = 1
  BY FS_Singleton
<1>6. Cardinality({x} \cup {y}) = 2
  BY <1>2, <1>5, FS_AddElement
<1>7. Cardinality({x} \cup {y}) <= Cardinality(S)
  BY <1>2, <1>4, FS_Subset
<1>8. QED BY <1>4, <1>6, <1>7, FS_CardinalityType

\* A display with one mode is run as just that mode.
LEMMA SingleMode ==
  ASSUME NEW S \in SUBSET Modes, Type(S) # "none", Type(S) # "hybrid"
  PROVE  S = {Type(S)}
BY Zenon DEF Type

-----------------------------------------------------------------------------
\* The two sides.

\* The bridge that is started is the one for what the watcher found.
Found ==
  /\ answer \in Answers
  /\ id \subseteq Modes
  /\ pc \in {"start"} \cup BridgePc \cup {"running"} =>
       id = WatcherModes(answer) /\ Type(id) # "none"

LEMMA FoundAndAgreed == Spec => [](Found /\ Agreement)
<1> DEFINE Inv == Found /\ Agreement
<1> USE DEF BridgePc, Over
<1>1. Init => Inv
  BY DEF Init, Found, Agreement
<1>2. Inv /\ [Next]_vars => Inv'
  <2> SUFFICES ASSUME Inv, [Next]_vars PROVE Inv'
    OBVIOUS
  <2> USE DEF displayVars, resultVars, hostVars
  <2>1. ASSUME NEW line, BridgeRuns(line), UNCHANGED answer,
               pc \in {"b_drain", "b_read", "b_again"}
        PROVE  Inv'
    <3>1. /\ id' = id /\ pc' = "running"
          /\ id = WatcherModes(answer) /\ Type(id) # "none"
          /\ heard' = line
          /\ serves' = IF Type(id) = "hybrid" THEN Supported(line)
                                              ELSE {Type(id)}
      BY <2>1 DEF BridgeRuns, Found
    <3>2. Found'
      BY <2>1, <3>1 DEF Found
    <3>3. ASSUME line = "answer"
          PROVE  serves' = id
      <4>1. CASE Type(id) = "hybrid"
        <5>1. Supported(line) = BridgeModes(answer) \cup Override
          BY <3>3 DEF Supported
        <5>2. BridgeModes(answer) = id
          BY <3>1, SameModes DEF Found
        <5>3. QED BY <3>1, <4>1, <5>1, <5>2 DEF Override
      <4>2. CASE Type(id) # "hybrid"
        BY <3>1, <4>2, SingleMode DEF Found
      <4>3. QED BY <4>1, <4>2
    <3>4. Agreement'
      BY <2>1, <3>1, <3>2, <3>3, HybridHasTwo DEF Agreement, Found
    <3>5. QED BY <3>2, <3>4
  <2>2. ASSUME UNCHANGED answer, id' = {}, pc' = "w_open"
        PROVE  Inv'
    BY <2>2 DEF Found, Agreement
  <2>3. CASE WatcherStep
    <3>1. CASE WatcherReadLine
      <4>1. PICK line \in Lines :
              IF line = "answer" /\ Type(WatcherModes(answer)) # "none"
                THEN pc' = "start" /\ id' = WatcherModes(answer)
                ELSE WatcherFails /\ UNCHANGED id
        BY <3>1 DEF WatcherReadLine
      <4>2. UNCHANGED answer
        BY <3>1 DEF WatcherReadLine
      <4>3. QED
        BY <4>1, <4>2, SameModes DEF Found, Agreement, WatcherFails
    <3>2. CASE WatcherOpen \/ WatcherDrain \/ WatcherAsk
                 \/ WatcherReadPart \/ WatcherTimeout
      BY <3>2 DEF WatcherOpen, WatcherDrain, WatcherAsk, WatcherReadPart,
                  WatcherTimeout, WatcherFails, Found, Agreement
    <3>3. QED BY <2>3, <3>1, <3>2 DEF WatcherStep
  <2>4. CASE StartBridge \/ BridgeDrain \/ BridgeReadPart
    BY <2>4 DEF StartBridge, BridgeDrain, BridgeReadPart, Found, Agreement
  <2>5. CASE BridgeOpen
    <3>1. CASE BridgeExits
      BY <2>2, <2>5, <3>1 DEF BridgeOpen, BridgeExits
    <3>2. CASE ~BridgeExits
      BY <2>5, <3>2 DEF BridgeOpen, Found, Agreement
    <3>3. QED BY <3>1, <3>2
  <2>6. BridgeHearsNothing => BridgeRuns("none") \/ BridgeExits
    BY DEF BridgeHearsNothing
  <2>7. CASE BridgeAsk
    <3>1. CASE BridgeHearsNothing
      BY <2>1, <2>2, <2>6, <2>7, <3>1 DEF BridgeAsk, BridgeExits
    <3>2. CASE ~BridgeHearsNothing
      BY <2>7, <3>2 DEF BridgeAsk, Found, Agreement
    <3>3. QED BY <3>1, <3>2
  <2>80. ASSUME BridgeReadsNothing, UNCHANGED answer,
                pc \in {"b_read", "b_again"}
         PROVE  Inv'
    <3>1. CASE pc = "b_again"
      BY <2>1, <2>2, <2>6, <2>80, <3>1 DEF BridgeReadsNothing, BridgeExits
    <3>2. CASE pc # "b_again"
      BY <2>80, <3>2 DEF BridgeReadsNothing, Found, Agreement
    <3>3. QED BY <3>1, <3>2
  <2>8. CASE BridgeReadLine
    <3>1. PICK line \in Lines :
            IF line = "blank" THEN BridgeReadsNothing ELSE BridgeRuns(line)
      BY <2>8 DEF BridgeReadLine
    <3>2. UNCHANGED answer /\ pc \in {"b_read", "b_again"}
      BY <2>8 DEF BridgeReadLine
    <3>3. QED BY <2>1, <2>80, <3>1, <3>2
  <2>9. CASE BridgeTimeout
    BY <2>1, <2>80, <2>9 DEF BridgeTimeout
  <2>10. CASE DisplayStep
    BY <2>10 DEF DisplayStep, DisplayTalks, BootChatter, Booted, AnswerWhole,
                 AnswerPart, AnswerRest, Garble, KeyPress, Found, Agreement
  <2>11. CASE UNCHANGED vars
    BY <2>11 DEF vars, Found, Agreement
  <2>12. QED
    BY <2>3, <2>4, <2>5, <2>7, <2>8, <2>9, <2>10, <2>11
    DEF Next, BridgeStep, Finished
<1>3. QED BY <1>1, <1>2, PTL DEF Spec

\* A bridge that heard the answer runs exactly what the watcher found: it
\* finds the same modes itself, and the override adds none.
THEOREM BothAgree == Spec => []Agreement
BY FoundAndAgreed, PTL

-----------------------------------------------------------------------------
\* Type correctness.  The tty never holds more than its bound, and what is
\* taken for a line is one.
Wires ==
  /\ tty \in Seq(Pieces)
  /\ Len(tty) <= MaxTty

LEMMA WiresHold == Spec => []Wires
<1> USE BoundsAssumption
<1>1. Init => Wires
  BY DEF Init, Wires
<1>2. Wires /\ [Next]_vars => Wires'
  <2> SUFFICES ASSUME Wires, [Next]_vars PROVE Wires'
    OBVIOUS
  <2> USE DEF Wires
  <2>1. ASSUME tty' \in {tty, <<>>}
        PROVE  Wires'
    <3>1. CASE tty' = tty
      BY <3>1
    <3>2. CASE tty' = <<>>
      BY <3>2
    <3>3. QED BY <2>1, <3>1, <3>2
  <2>2. ASSUME NEW piece \in Pieces, Sends(piece)
        PROVE  Wires'
    BY <2>2 DEF Sends
  <2>3. ASSUME tty # <<>>, NEW n \in 1..Len(tty),
               tty' = SubSeq(tty, n + 1, Len(tty))
        PROVE  Wires'
    <3>1. \A i \in (n + 1)..Len(tty) : tty[i] \in Pieces
      OBVIOUS
    <3>2. tty' \in Seq(Pieces)
      BY <2>3, <3>1
    <3>3. Len(tty') = Len(tty) - n
      BY <2>3
    <3>4. QED BY <3>2, <3>3
  <2>4. ASSUME tty # <<>>, tty' = Tail(tty)
        PROVE  Wires'
    BY <2>4
  <2> HIDE DEF Wires
  <2> USE DEF displayVars, resultVars, hostVars
  <2>5. CASE WatcherStep
    <3>1. CASE WatcherOpen \/ WatcherDrain \/ WatcherAsk \/ WatcherTimeout
      BY <2>1, <3>1, Zenon DEF WatcherOpen, WatcherDrain, WatcherAsk,
                               WatcherTimeout, Reset
    <3>2. CASE WatcherReadPart
      BY <2>4, <3>2 DEF WatcherReadPart, TakePart
    <3>3. CASE WatcherReadLine
      BY <2>3, <3>3 DEF WatcherReadLine, TakeLine
    <3>4. QED BY <2>5, <3>1, <3>2, <3>3 DEF WatcherStep
  <2>6. CASE BridgeStep
    <3>1. CASE StartBridge \/ BridgeOpen \/ BridgeDrain \/ BridgeAsk
                 \/ BridgeTimeout
      BY <2>1, <3>1, Zenon DEF StartBridge, BridgeOpen, BridgeDrain,
                               BridgeAsk, BridgeTimeout, Reset
    <3>2. CASE BridgeReadPart
      BY <2>4, <3>2 DEF BridgeReadPart, TakePart
    <3>3. CASE BridgeReadLine
      BY <2>3, <3>3 DEF BridgeReadLine, TakeLine
    <3>4. QED BY <2>6, <3>1, <3>2, <3>3 DEF BridgeStep
  <2>7. CASE DisplayStep
    <3>1. {"boot", "blank", "answer", "part", "rest", "noise", "cmd"}
            \subseteq Pieces
      BY DEF Pieces, Lines
    <3>2. CASE Booted
      BY <2>1, <3>2 DEF Booted
    <3>3. CASE ~Booted
      <4>1. PICK piece \in {"boot", "blank", "answer", "part", "rest", "noise", "cmd"} :
              Sends(piece)
        BY <2>7, <3>3, Zenon DEF DisplayStep, DisplayTalks, BootChatter,
              AnswerWhole, AnswerPart, AnswerRest, Garble, KeyPress
      <4>2. QED BY <2>2, <3>1, <4>1
    <3>4. QED BY <3>2, <3>3
  <2>8. UNCHANGED vars => Wires'
    BY <2>1 DEF vars
  <2>9. QED
    BY <2>5, <2>6, <2>7, <2>8 DEF Next, Finished
<1>3. QED BY <1>1, <1>2, PTL DEF Spec

Steps ==
  /\ answer \in Answers
  /\ display \in {"mute", "booting", "ready", "asked", "half"}
  /\ pc \in WatcherPc \cup {"start"} \cup BridgePc \cup Over
  /\ attempt \in 1..IdentifyRetries
  /\ id \subseteq Modes
  /\ heard \in Lines \cup {"none"}
  /\ serves \subseteq Modes
  /\ troubles \in 0..MaxTroubles
  /\ lost \in Nat

LEMMA StepsHold == Spec => []Steps
<1> USE BoundsAssumption DEF WatcherPc, BridgePc, Over
<1>1. Init => Steps
  BY DEF Init, Steps
<1>2. Steps /\ Found /\ Found' /\ [Next]_vars => Steps'
  <2> SUFFICES ASSUME Steps, Found, Found', [Next]_vars PROVE Steps'
    OBVIOUS
  <2> USE DEF displayVars, resultVars, hostVars
  <2>0. /\ Trouble => troubles' \in 0..MaxTroubles
        /\ Ask => /\ troubles' \in 0..MaxTroubles
                  /\ display' \in {"mute", "booting", "ready", "asked", "half"}
        /\ Silence => troubles' \in 0..MaxTroubles
        /\ Reset => display' \in {"mute", "booting", "ready", "asked", "half"}
        /\ WatcherFails => /\ lost' \in Nat /\ attempt' \in 1..IdentifyRetries
                           /\ pc' \in {"w_open", "failed"}
        /\ BridgeExits => /\ lost' \in Nat /\ attempt' \in 1..IdentifyRetries
                          /\ pc' = "w_open" /\ id' = {}
                          /\ UNCHANGED <<heard, serves>>
    BY DEF Steps, Trouble, Ask, Silence, Reset, WatcherFails, BridgeExits
  <2>1. ASSUME NEW line \in Lines \cup {"none"}, BridgeRuns(line),
               pc \in {"b_drain", "b_read", "b_again"}
        PROVE  /\ pc' = "running"
               /\ heard' \in Lines \cup {"none"}
               /\ serves' \subseteq Modes
               /\ lost' \in Nat
               /\ UNCHANGED <<attempt, id>>
    <3>1. Supported(line) \subseteq Modes
      BY SameModes DEF Supported, Override, Steps, Modes
    <3>2. Type(id) # "hybrid" => {Type(id)} \subseteq Modes
      BY <2>1, SingleMode DEF Found
    <3>3. serves' \subseteq Modes
      BY <2>1, <3>1, <3>2 DEF BridgeRuns
    <3>4. QED BY <2>1, <3>3 DEF BridgeRuns, Steps
  <2>2. {"boot", "blank", "cmd", "noise", "answer", "rest"} = Lines
    BY DEF Lines
  <2> USE DEF Steps
  <2>3. CASE WatcherOpen \/ WatcherDrain \/ WatcherAsk
    BY <2>0, <2>3 DEF WatcherOpen, WatcherDrain, WatcherAsk
  <2>4. CASE WatcherReadPart \/ WatcherTimeout
    BY <2>0, <2>4 DEF WatcherReadPart, WatcherTimeout
  <2>5. CASE WatcherReadLine
    <3>1. PICK line \in Lines :
            IF line = "answer" /\ Type(WatcherModes(answer)) # "none"
              THEN /\ pc' = "start"
                   /\ id' = WatcherModes(answer)
                   /\ UNCHANGED <<attempt, lost>>
              ELSE WatcherFails /\ UNCHANGED id
      BY <2>5 DEF WatcherReadLine
    <3>2. QED BY <2>0, <2>5, <3>1, SameModes DEF WatcherReadLine
  <2>6. CASE StartBridge \/ BridgeDrain \/ BridgeReadPart
    BY <2>6 DEF StartBridge, BridgeDrain, BridgeReadPart
  <2>7. BridgeHearsNothing => BridgeRuns("none") \/ BridgeExits
    BY DEF BridgeHearsNothing
  <2>8. CASE BridgeOpen
    BY <2>0, <2>8 DEF BridgeOpen
  <2>9. CASE BridgeAsk
    <3>1. CASE BridgeHearsNothing
      BY <2>0, <2>1, <2>7, <2>9, <3>1 DEF BridgeAsk
    <3>2. CASE ~BridgeHearsNothing
      BY <2>0, <2>9, <3>2 DEF BridgeAsk
    <3>3. QED BY <3>1, <3>2
  <2>100. ASSUME BridgeReadsNothing, UNCHANGED displayVars,
                 troubles' \in 0..MaxTroubles, pc \in {"b_read", "b_again"}
          PROVE  Steps'
    <3>1. CASE pc = "b_again"
      BY <2>0, <2>1, <2>7, <2>100, <3>1 DEF BridgeReadsNothing
    <3>2. CASE pc # "b_again"
      BY <2>100, <3>2 DEF BridgeReadsNothing
    <3>3. QED BY <3>1, <3>2
  <2>10. CASE BridgeReadLine
    <3>1. PICK line \in Lines :
            IF line = "blank" THEN BridgeReadsNothing ELSE BridgeRuns(line)
      BY <2>10 DEF BridgeReadLine
    <3>2. /\ UNCHANGED <<displayVars, troubles>>
          /\ pc \in {"b_read", "b_again"}
      BY <2>10 DEF BridgeReadLine
    <3>3. CASE line = "blank"
      BY <2>100, <3>1, <3>2, <3>3
    <3>4. CASE line # "blank"
      BY <2>1, <3>1, <3>2, <3>4
    <3>5. QED BY <3>3, <3>4
  <2>11. CASE BridgeTimeout
    <3>1. /\ UNCHANGED displayVars
          /\ troubles' \in 0..MaxTroubles /\ pc \in {"b_read", "b_again"}
      BY <2>0, <2>11 DEF BridgeTimeout
    <3>2. CASE buf
      BY <2>1, <2>2, <2>11, <3>1, <3>2 DEF BridgeTimeout
    <3>3. CASE ~buf
      BY <2>11, <2>100, <3>1, <3>3 DEF BridgeTimeout
    <3>4. QED BY <3>2, <3>3
  <2>12. CASE DisplayStep
    BY <2>0, <2>12 DEF DisplayStep, DisplayTalks, BootChatter, Booted,
              AnswerWhole, AnswerPart, AnswerRest, Garble, KeyPress
  <2>13. CASE UNCHANGED vars
    BY <2>13 DEF vars
  <2>14. QED
    BY <2>3, <2>4, <2>5, <2>6, <2>8, <2>9, <2>10, <2>11, <2>12, <2>13
    DEF Next, WatcherStep, BridgeStep, Finished
<1>3. QED BY <1>1, <1>2, FoundAndAgreed, PTL DEF Spec

BufOK == buf \in BOOLEAN

LEMMA BufHolds == Spec => []BufOK
<1>1. Init => BufOK
  BY Zenon DEF Init, BufOK
<1>2. BufOK /\ [Next]_vars => BufOK'
  BY Zenon DEF BufOK, Next, WatcherStep, BridgeStep, DisplayStep, DisplayTalks,
       Finished, vars, hostVars, WatcherOpen, WatcherDrain, WatcherAsk,
       WatcherReadPart, WatcherReadLine, WatcherTimeout, StartBridge,
       BridgeOpen, BridgeDrain, BridgeAsk, BridgeReadPart, BridgeReadLine,
       BridgeTimeout, BootChatter, Booted, AnswerWhole, AnswerPart,
       AnswerRest, Garble, KeyPress, Reset, TakePart
<1>3. QED BY <1>1, <1>2, PTL DEF Spec

\* Every variable keeps its type: the tty its bound, the attempts their
\* number, and what a bridge runs are modes of a display.
THEOREM TypeCorrect == Spec => []TypeOK
<1>1. Wires /\ Steps /\ BufOK => TypeOK
  BY DEF Wires, Steps, BufOK, TypeOK
<1>2. QED BY <1>1, WiresHold, StepsHold, BufHolds, PTL

-----------------------------------------------------------------------------
\* The ledger of troubles.

Reading == {"w_read", "b_read", "b_again"}

\* An exchange that will succeed, unless a trouble comes: the display was
\* asked, and nothing but its answer is there or will come.
Clean ==
  \/ display = "asked" /\ tty = <<>> /\ ~buf
  \/ display = "ready" /\ tty = <<"answer">> /\ ~buf
  \/ display = "half" /\ tty = <<"part">> /\ ~buf
  \/ display = "half" /\ tty = <<>> /\ buf
  \/ display = "ready" /\ tty = <<"part", "rest">> /\ ~buf
  \/ display = "ready" /\ tty = <<"rest">> /\ buf

\* Every failure was paid for, and so is the one that an exchange that is
\* not clean may come to.
Ledger ==
  /\ Identifiable => lost <= troubles
  /\ Identifiable /\ pc \in Reading /\ ~Clean => lost < troubles
  /\ pc \in {"w_drain", "b_drain"} => ~buf

LEMMA CleanReadsAnswer ==
  ASSUME Clean, tty # <<>>, NEW n \in 1..Len(tty), NEW line,
         TakeLine(n, line)
  PROVE  line = "answer"
<1>0. Joined("rest") = {"answer"}
  BY DEF Joined
<1>1. CASE tty = <<"answer">> /\ ~buf
  BY <1>1 DEF TakeLine
<1>2. CASE tty = <<"part">> /\ ~buf
  BY <1>2 DEF TakeLine
<1>3. CASE tty = <<"part", "rest">> /\ ~buf
  BY <1>0, <1>3 DEF TakeLine
<1>4. CASE tty = <<"rest">> /\ buf
  BY <1>0, <1>4 DEF TakeLine
<1>5. QED BY <1>1, <1>2, <1>3, <1>4 DEF Clean

LEMMA CleanTakesPart ==
  ASSUME Clean, tty # <<>>, NEW n \in 1..Len(tty), TakePart(n),
         UNCHANGED display
  PROVE  Clean'
<1>1. CASE tty = <<"part">> /\ ~buf /\ display = "half"
  BY <1>1 DEF TakePart, Clean
<1>2. CASE tty = <<"part", "rest">> /\ ~buf /\ display = "ready"
  BY <1>2 DEF TakePart, Clean
<1>3. Head(tty) = "part"
  BY DEF TakePart
<1>4. QED BY <1>1, <1>2, <1>3 DEF Clean

LEMMA TwoPieces == Append(<<"part">>, "rest") = <<"part", "rest">>
<1> DEFINE s == <<"part">>
           t == <<"part", "rest">>
           u == Append(s, "rest")
<1>1. s \in Seq({"part", "rest"}) /\ t \in Seq({"part", "rest"})
  OBVIOUS
<1>2. u \in Seq({"part", "rest"}) /\ Len(u) = 2 /\ u[1] = "part" /\ u[2] = "rest"
  BY <1>1
<1>3. Len(t) = 2 /\ t[1] = "part" /\ t[2] = "rest"
  OBVIOUS
<1> HIDE DEF s, t, u
<1>4. \A i \in 1..Len(t) : u[i] = t[i]
  BY <1>2, <1>3
<1>5. u = t
  BY <1>1, <1>2, <1>3, <1>4, SeqEqual
<1>6. QED BY <1>5 DEF s, t, u

LEMMA LedgerHolds == Spec => []Ledger
<1>1. Init => Ledger
  BY DEF Init, Ledger, Reading
<1>2. Steps /\ Ledger /\ [Next]_vars => Ledger'
  <2> SUFFICES ASSUME Steps, Ledger, [Next]_vars PROVE Ledger'
    OBVIOUS
  <2>0. /\ lost \in Nat /\ troubles \in Nat
        /\ Trouble => troubles' = troubles + 1
    BY BoundsAssumption DEF Steps, Trouble
  <2> USE DEF displayVars, resultVars, hostVars
  <2>1. ASSUME UNCHANGED answer, display = "mute" => display' = "mute"
        PROVE  Identifiable' => Identifiable
    BY <2>1 DEF Identifiable
  <2>2. ASSUME UNCHANGED answer, display = "mute" => display' = "mute",
               \/ lost' = lost /\ UNCHANGED troubles
               \/ lost' = lost /\ troubles' = troubles + 1
               \/ lost' = lost + 1 /\ troubles' = troubles + 1
               \/ /\ lost' = lost + 1 /\ UNCHANGED troubles
                  /\ pc \in Reading /\ ~Clean,
               pc' \notin Reading \cup {"w_drain", "b_drain"}
        PROVE  Ledger'
    BY <2>0, <2>1, <2>2 DEF Ledger
  <2>3. ASSUME UNCHANGED answer, display = "mute" => display' = "mute",
               lost' = lost, troubles' = troubles + 1, pc' \in Reading
        PROVE  Ledger'
    BY <2>0, <2>1, <2>3 DEF Ledger, Reading
  <2>4. ASSUME UNCHANGED <<answer, lost, troubles>>,
               display = "mute" => display' = "mute",
               pc \in Reading, pc' \in Reading, Clean => Clean'
        PROVE  Ledger'
    BY <2>0, <2>1, <2>4 DEF Ledger, Reading
  <2>5. ASSUME UNCHANGED <<answer, lost, troubles>>,
               display = "mute" => display' = "mute",
               pc' \in {"w_drain", "b_drain"}, ~buf'
        PROVE  Ledger'
    BY <2>0, <2>1, <2>5 DEF Ledger, Reading
  <2>6. CASE WatcherOpen \/ BridgeOpen
    BY <2>0, <2>2, <2>5, <2>6
    DEF WatcherOpen, BridgeOpen, Reset, WatcherFails, BridgeExits, Reading
  <2>7. CASE WatcherDrain \/ BridgeDrain
    <3>1. /\ UNCHANGED <<answer, display, lost, troubles, pc, buf>>
          /\ pc \in {"w_drain", "b_drain"}
      BY <2>7 DEF WatcherDrain, BridgeDrain
    <3>2. QED BY <2>5, <3>1 DEF Ledger
  <2>8. ASSUME Ask, tty = <<>>, UNCHANGED <<answer, tty, buf, lost>>,
               pc \in {"w_drain", "b_drain"}, pc' \in Reading
        PROVE  Ledger'
    <3>1. CASE display = "ready"
      <4>1. Clean' /\ UNCHANGED troubles
        BY <2>8, <3>1 DEF Ask, Clean, Ledger
      <4>2. QED BY <2>0, <2>8, <3>1, <4>1 DEF Ledger, Reading, Identifiable
    <3>2. CASE display = "mute"
      BY <2>8, <3>2 DEF Ask, Ledger, Identifiable, Reading
    <3>3. CASE display \notin {"ready", "mute"}
      BY <2>0, <2>3, <2>8, <3>3 DEF Ask
    <3>4. QED BY <3>1, <3>2, <3>3
  <2>9. CASE WatcherAsk
    <3>1. CASE Trouble /\ WatcherFails /\ UNCHANGED display
      BY <2>0, <2>2, <2>9, <3>1 DEF WatcherAsk, WatcherFails, Reading
    <3>2. CASE Ask /\ pc' = "w_read" /\ UNCHANGED <<attempt, lost>>
      BY <2>8, <2>9, <3>2 DEF WatcherAsk, Reading
    <3>3. QED BY <2>9, <3>1, <3>2 DEF WatcherAsk
  <2>10. BridgeHearsNothing =>
           lost' = lost + 1 /\ pc' \in {"running", "w_open"}
    BY DEF BridgeHearsNothing, BridgeExits, BridgeRuns
  <2>11. CASE BridgeAsk
    <3>1. CASE Trouble /\ BridgeHearsNothing /\ UNCHANGED display
      BY <2>0, <2>2, <2>10, <2>11, <3>1 DEF BridgeAsk, Reading
    <3>2. CASE Ask /\ pc' = "b_read" /\ UNCHANGED lost
      BY <2>8, <2>11, <3>2 DEF BridgeAsk, Reading
    <3>3. QED BY <2>11, <3>1, <3>2 DEF BridgeAsk
  <2>12. CASE WatcherReadPart \/ BridgeReadPart
    <3>1. /\ UNCHANGED <<answer, display, lost, troubles, pc>>
          /\ pc \in Reading /\ tty # <<>>
          /\ \E n \in 1..Len(tty) : TakePart(n)
      BY <2>12 DEF WatcherReadPart, BridgeReadPart, Reading
    <3>2. QED BY <2>4, <3>1, CleanTakesPart
  <2>13. CASE WatcherReadLine
    <3>1. PICK n \in 1..Len(tty), line \in Lines :
            /\ TakeLine(n, line)
            /\ IF line = "answer" /\ Type(WatcherModes(answer)) # "none"
                 THEN pc' = "start" /\ UNCHANGED lost
                 ELSE WatcherFails
      BY <2>13 DEF WatcherReadLine
    <3>2. /\ UNCHANGED <<answer, display, troubles>>
          /\ pc \in Reading /\ tty # <<>>
      BY <2>13 DEF WatcherReadLine, Reading
    <3>3. CASE line = "answer" /\ Type(WatcherModes(answer)) # "none"
      BY <2>2, <3>1, <3>2, <3>3 DEF Reading
    <3>4. CASE Identifiable /\ line # "answer"
      <4>1. ~Clean
        BY <3>1, <3>2, <3>4, CleanReadsAnswer
      <4>2. QED BY <2>2, <3>1, <3>2, <3>4, <4>1 DEF Reading, WatcherFails
    <3>5. CASE ~Identifiable
      BY <3>1, <3>2, <3>5 DEF Ledger, Identifiable, WatcherFails
    <3>6. QED BY <3>3, <3>4, <3>5 DEF Identifiable
  <2>14. Silence => \/ UNCHANGED troubles /\ ~Clean
                    \/ troubles' = troubles + 1
    BY <2>0 DEF Silence, Clean
  <2>15. CASE WatcherTimeout
    BY <2>0, <2>2, <2>14, <2>15 DEF WatcherTimeout, WatcherFails, Reading
  <2>16. CASE StartBridge
    BY <2>2, <2>16 DEF StartBridge, Reading
  <2>170. BridgeReadsNothing =>
            \/ lost' = lost + 1 /\ pc' \in {"running", "w_open"}
            \/ pc' = "b_again" /\ UNCHANGED lost
    BY <2>10 DEF BridgeReadsNothing
  <2>17. CASE BridgeReadLine
    <3>1. PICK n \in 1..Len(tty), line \in Lines :
            /\ TakeLine(n, line)
            /\ IF line = "blank" THEN BridgeReadsNothing ELSE BridgeRuns(line)
      BY <2>17 DEF BridgeReadLine
    <3>2. /\ UNCHANGED <<answer, display, troubles>>
          /\ pc \in Reading /\ tty # <<>>
      BY <2>17 DEF BridgeReadLine, Reading
    <3>3. line = "answer" \/ ~Clean
      BY <3>1, <3>2, CleanReadsAnswer
    <3>4. CASE line = "blank"
      BY <2>2, <2>4, <2>170, <3>1, <3>2, <3>3, <3>4 DEF Reading
    <3>5. CASE line # "blank"
      <4>1. /\ pc' = "running"
            /\ lost' = IF line = "answer" THEN lost ELSE lost + 1
        BY <3>1, <3>5 DEF BridgeRuns
      <4>2. QED BY <2>2, <3>2, <3>3, <4>1 DEF Reading
    <3>6. QED BY <3>4, <3>5
  <2>18. CASE BridgeTimeout
    <3>1. /\ UNCHANGED <<answer, display, tty>>
          /\ pc \in Reading /\ Silence /\ ~buf'
          /\ \/ lost' = lost + 1 /\ pc' \in {"running", "w_open"}
             \/ pc' = "b_again" /\ UNCHANGED lost /\ ~buf
      BY <2>18, <2>170 DEF BridgeTimeout, BridgeRuns, Reading
    <3>2. CASE lost' = lost + 1 /\ pc' \in {"running", "w_open"}
      BY <2>2, <2>14, <3>1, <3>2 DEF Reading
    <3>3. CASE pc' = "b_again" /\ UNCHANGED lost /\ ~buf
      <4>1. Clean => Clean'
        BY <3>1, <3>3 DEF Clean
      <4>2. QED BY <2>3, <2>4, <2>14, <3>1, <3>3, <4>1 DEF Reading
    <3>4. QED BY <3>1, <3>2, <3>3
  <2>19. ASSUME UNCHANGED <<answer, lost, troubles, pc, buf>>,
                display = "mute" => display' = "mute",
                Clean => Clean'
         PROVE  Ledger'
    BY <2>0, <2>1, <2>19 DEF Ledger
  <2>20. CASE BootChatter \/ Booted
    BY <2>19, <2>20 DEF BootChatter, Booted, Clean
  <2>21. CASE AnswerWhole \/ AnswerPart \/ AnswerRest
    <3>1. ASSUME Clean PROVE Clean'
      <4>1. UNCHANGED buf
        BY <2>21 DEF AnswerWhole, AnswerPart, AnswerRest
      <4>2. CASE AnswerWhole
        <5>1. tty = <<>> /\ ~buf
          BY <3>1, <4>2 DEF AnswerWhole, Clean
        <5>2. tty' = <<"answer">>
          BY <4>2, <5>1 DEF AnswerWhole, Sends
        <5>3. QED BY <4>1, <4>2, <5>1, <5>2 DEF AnswerWhole, Clean
      <4>3. CASE AnswerPart
        <5>1. tty = <<>> /\ ~buf
          BY <3>1, <4>3 DEF AnswerPart, Clean
        <5>2. tty' = <<"part">>
          BY <4>3, <5>1 DEF AnswerPart, Sends
        <5>3. QED BY <4>1, <4>3, <5>1, <5>2 DEF AnswerPart, Clean
      <4>4. CASE AnswerRest
        <5>1. display' = "ready" /\ tty' = Append(tty, "rest")
          BY <4>4 DEF AnswerRest, Sends
        <5>2. CASE tty = <<"part">> /\ ~buf
          <6>1. tty' = <<"part", "rest">>
            BY <5>1, <5>2, TwoPieces
          <6>2. QED BY <4>1, <5>1, <5>2, <6>1 DEF Clean
        <5>3. CASE tty = <<>> /\ buf
          <6>1. tty' = <<"rest">>
            BY <5>1, <5>3
          <6>2. QED BY <4>1, <5>1, <5>3, <6>1 DEF Clean
        <5>4. QED BY <3>1, <4>4, <5>2, <5>3 DEF AnswerRest, Clean
      <4>5. QED BY <2>21, <4>2, <4>3, <4>4
    <3>2. QED BY <2>19, <2>21, <3>1 DEF AnswerWhole, AnswerPart, AnswerRest
  <2>22. CASE Garble \/ KeyPress
    <3>1. /\ UNCHANGED <<answer, lost, pc, buf>>
          /\ troubles' = troubles + 1
          /\ display = "mute" => display' = "mute"
      BY <2>0, <2>22 DEF Garble, KeyPress
    <3>2. QED BY <2>0, <2>1, <3>1 DEF Ledger
  <2>23. CASE UNCHANGED vars
    BY <2>23 DEF vars, Ledger, Clean, Identifiable
  <2>24. QED
    BY <2>6, <2>7, <2>9, <2>11, <2>12, <2>13, <2>15, <2>16, <2>17, <2>18,
       <2>20, <2>21, <2>22, <2>23
    DEF Next, WatcherStep, BridgeStep, DisplayStep, DisplayTalks, Finished
<1>3. QED BY <1>1, <1>2, StepsHold, PTL DEF Spec

\* A display that can be identified is identified by both sides, unless
\* something went wrong, and one trouble spoils at most one exchange.
THEOREM FailuresAreEarned == Spec => []FailuresEarned
BY LedgerHolds, PTL DEF Ledger, FailuresEarned

-----------------------------------------------------------------------------
\* Every attempt but the first of a round follows a failure, and so does a
\* bridge that runs on something else than the answer.
Counted ==
  /\ lost >= attempt - 1
  /\ pc = "failed" => lost >= IdentifyRetries
  /\ pc = "running" /\ lost = 0 => heard = "answer"

LEMMA CountedHolds == Spec => []Counted
<1> USE BoundsAssumption
<1>1. Init => Counted
  BY DEF Init, Counted
<1>2. Steps /\ Counted /\ [Next]_vars => Counted'
  <2> SUFFICES ASSUME Steps, Counted, [Next]_vars PROVE Counted'
    OBVIOUS
  <2>0. lost \in Nat /\ attempt \in 1..IdentifyRetries
    BY DEF Steps
  <2> USE DEF displayVars, resultVars, hostVars, Counted
  <2>1. ASSUME UNCHANGED <<attempt, lost>>, pc' \notin Over \/ UNCHANGED <<pc, heard>>
        PROVE  Counted'
    BY <2>1 DEF Over
  <2>2. WatcherFails => Counted'
    BY <2>0 DEF WatcherFails
  <2>3. BridgeExits => Counted'
    BY <2>0 DEF BridgeExits
  <2>4. ASSUME NEW line, BridgeRuns(line) PROVE Counted'
    BY <2>0, <2>4 DEF BridgeRuns
  <2>5. BridgeHearsNothing => Counted'
    BY <2>3, <2>4 DEF BridgeHearsNothing
  <2> HIDE DEF Counted
  <2>50. ASSUME BridgeReadsNothing PROVE Counted'
    BY <2>1, <2>5, <2>50 DEF BridgeReadsNothing, Over
  <2>6. CASE WatcherStep
    BY <2>1, <2>2, <2>6
    DEF WatcherStep, WatcherOpen, WatcherDrain, WatcherAsk, WatcherReadPart,
        WatcherReadLine, WatcherTimeout, Over
  <2>7. CASE BridgeStep
    BY <2>1, <2>3, <2>4, <2>5, <2>50, <2>7
    DEF BridgeStep, StartBridge, BridgeOpen, BridgeDrain, BridgeAsk,
        BridgeReadPart, BridgeReadLine, BridgeTimeout, Over
  <2>8. CASE DisplayStep
    BY <2>1, <2>8
    DEF DisplayStep, DisplayTalks, BootChatter, Booted, AnswerWhole,
        AnswerPart, AnswerRest, Garble, KeyPress
  <2>9. CASE UNCHANGED vars
    BY <2>1, <2>9 DEF vars
  <2>10. QED BY <2>6, <2>7, <2>8, <2>9 DEF Next, Finished
<1>3. QED BY <1>1, <1>2, StepsHold, PTL DEF Spec

\* The promise of the whole exchange: a display that can be identified is
\* never left alone on fewer troubles than there are attempts, and with no
\* trouble at all it gets a bridge that heard its answer and runs exactly
\* its modes, at the first attempt.
Welcome ==
  Identifiable =>
    /\ troubles < IdentifyRetries => pc # "failed"
    /\ troubles = 0 => attempt = 1
    /\ troubles = 0 /\ pc = "running" => serves = WatcherModes(answer)

THEOREM WelcomeIsKept == Spec => []Welcome
<1>1. Steps /\ FailuresEarned /\ Counted /\ Agreement => Welcome
  <2> SUFFICES ASSUME Steps, FailuresEarned, Counted, Agreement, Identifiable
               PROVE  Welcome
    BY DEF Welcome
  <2>1. /\ lost \in Nat /\ troubles \in Nat /\ attempt \in Nat \ {0}
        /\ lost <= troubles
    BY BoundsAssumption DEF Steps, FailuresEarned
  <2>2. QED
    BY <2>1, BoundsAssumption DEF Welcome, Counted, Agreement
<1>2. QED BY <1>1, StepsHold, FailuresAreEarned, CountedHolds, BothAgree, PTL
=============================================================================

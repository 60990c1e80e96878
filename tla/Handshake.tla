------------------------------- MODULE Handshake -------------------------------
(***************************************************************************)
(* The identification of a display: the watcher asks it what it is         *)
(* (core/device_identifier.rs), starts the bridge of that type, and the    *)
(* bridge asks again on its own connection (core/serial_comm.rs,           *)
(* modules/hybrid_bridge.rs).  The two sides read the line and understand  *)
(* it by rules of their own.                                               *)
(*                                                                         *)
(* tty is what the display has sent and nobody has read: lines, except     *)
(* that the line of the answer may arrive in two pieces, "part" and        *)
(* "rest".  The display may boot when DTR is toggled, send other lines and *)
(* be slow; what can spoil an exchange (a trouble) is counted.  Format and *)
(* number of bars travel in the environment of the bridge and are left     *)
(* out; so is the watcher's handling of a start that fails (Watcher).      *)
(***************************************************************************)
EXTENDS Integers, Sequences, FiniteSets

CONSTANTS
  IdentifyRetries,  \* attempts of the watcher (IDENTIFY_RETRIES)
  MaxTty,           \* bound: pieces that wait in the tty
  MaxTroubles       \* bound: troubles in a behaviour

ASSUME BoundsAssumption == /\ IdentifyRetries \in Nat \ {0}
                           /\ MaxTty \in Nat \ {0}
                           /\ MaxTroubles \in Nat

Modes == {"mpd", "cava", "sysinfo"}

\* What a display answers: a list of modes, perhaps with words the program
\* does not know, and a name that may contain some of them.
Answers == [modes : SUBSET (Modes \cup {"other"}), name : SUBSET Modes]

VARIABLES
  answer,     \* what this display answers
  display,    \* "mute", "booting", "ready", "asked" or "half" (has sent a part)
  tty,        \* pieces sent and not read
  pc,         \* where the exchange is, on the side of the watcher or the bridge
  buf,        \* readline has read the first part of a line
  attempt,    \* of the watcher, in this round
  id,         \* what the watcher found: the modes, {} before
  heard,      \* the line the bridge took for the answer
  serves,     \* what the bridge runs
  troubles,   \* for the bound MaxTroubles
  lost        \* history: identifications that failed

displayVars == <<answer, display>>
resultVars == <<id, heard, serves>>
vars == <<displayVars, tty, pc, buf, attempt, resultVars, troubles, lost>>

WatcherPc == {"w_open", "w_drain", "w_read"}
BridgePc == {"b_open", "b_drain", "b_read", "b_again"}
Over == {"running", "failed"}

\* A "blank" line is one that the bridge's readline takes for nothing: it is
\* empty, or no UTF-8.
Lines == {"boot", "blank", "cmd", "noise", "answer", "rest"}
Pieces == Lines \cup {"part"}

TypeOK ==
  /\ answer \in Answers
  /\ display \in {"mute", "booting", "ready", "asked", "half"}
  /\ tty \in Seq(Pieces)
  /\ Len(tty) <= MaxTty
  /\ pc \in WatcherPc \cup {"start"} \cup BridgePc \cup Over
  /\ buf \in BOOLEAN
  /\ attempt \in 1..IdentifyRetries
  /\ id \subseteq Modes
  /\ heard \in Lines \cup {"none"}
  /\ serves \subseteq Modes
  /\ troubles \in 0..MaxTroubles
  /\ lost \in Nat

\* Something else than a display, a modem say, never answers.
Init ==
  /\ answer \in Answers
  /\ display \in {"mute", "booting", "ready"}
  /\ tty = <<>>
  /\ pc = "w_open"
  /\ buf = FALSE
  /\ attempt = 1
  /\ id = {}
  /\ heard = "none"
  /\ serves = {}
  /\ troubles = 0
  /\ lost = 0

Trouble == troubles < MaxTroubles /\ troubles' = troubles + 1

-----------------------------------------------------------------------------
\* What is common to both connections

\* open, flush and the DTR toggle: some displays boot again.
Reset ==
  /\ tty' = <<>>
  /\ buf' = FALSE
  /\ display' \in IF display = "mute" THEN {"mute"} ELSE {display, "booting"}

\* The request.  A display that is not ready for it misses it.
Ask ==
  /\ display' = IF display = "ready" THEN "asked" ELSE display
  /\ IF display \in {"ready", "mute"} THEN UNCHANGED troubles ELSE Trouble

\* What the first part of the answer makes with the line that follows it.
Joined(piece) ==
  CASE piece = "rest" -> {"answer"}
    [] piece = "blank" -> {"noise", "blank"}
    [] OTHER -> {"noise"}

\* One read of readline takes n pieces, and the line is what comes before
\* the first newline: the rest of what was read is dropped.
TakeLine(n, line) ==
  /\ tty' = SubSeq(tty, n + 1, Len(tty))
  /\ \/ /\ Head(tty) # "part"
        /\ line \in IF buf THEN Joined(Head(tty)) ELSE {Head(tty)}
     \/ /\ Head(tty) = "part" /\ n > 1
        /\ line \in IF buf THEN {"noise"} ELSE Joined(tty[2])

\* The first part of the answer alone, which has no newline.
TakePart(n) ==
  /\ Head(tty) = "part" /\ n = 1
  /\ tty' = Tail(tty)
  /\ buf' = TRUE

\* Nothing comes any more before the deadline.
Silence ==
  /\ tty = <<>>
  /\ IF display \in {"asked", "half"} THEN Trouble ELSE UNCHANGED troubles

-----------------------------------------------------------------------------
\* The watcher: identify() and the attempts of handle_new_device()

\* The modes of an answer: the words of the list that are known, or, if
\* there is no list, those in the name.
WatcherModes(a) == IF a.modes # {} THEN a.modes \cap Modes ELSE a.name

\* The type of a display: hybrid with two modes or three.
Type(modes) ==
  CASE modes = {} -> "none"
    [] modes = {"mpd"} -> "mpd"
    [] modes = {"cava"} -> "cava"
    [] modes = {"sysinfo"} -> "sysinfo"
    [] OTHER -> "hybrid"

\* Mutant: one attempt too many.
WatcherFailsLate ==
  /\ lost' = lost + 1
  /\ IF attempt <= IdentifyRetries
       THEN pc' = "w_open" /\ attempt' = attempt + 1
       ELSE pc' = "failed" /\ UNCHANGED attempt

\* An attempt has failed: the next one, or the display is left alone.
WatcherFails ==
  /\ lost' = lost + 1
  /\ IF attempt < IdentifyRetries
       THEN pc' = "w_open" /\ attempt' = attempt + 1
       ELSE pc' = "failed" /\ UNCHANGED attempt

WatcherOpen ==
  /\ pc = "w_open"
  /\ \/ /\ Reset
        /\ pc' = "w_drain"
        /\ UNCHANGED <<attempt, troubles, lost>>
     \/ /\ Trouble
        /\ WatcherFails
        /\ UNCHANGED <<display, tty, buf>>
  /\ UNCHANGED <<answer, resultVars>>

WatcherDrain ==
  /\ pc = "w_drain"
  /\ tty # <<>>
  /\ tty' = <<>>
  /\ UNCHANGED <<displayVars, pc, buf, attempt, resultVars, troubles, lost>>

\* Mutant: what came during the settling is not drained.
WatcherAskUndrained ==
  /\ pc = "w_drain"
  /\ Ask
  /\ pc' = "w_read"
  /\ UNCHANGED <<answer, tty, buf, attempt, resultVars, lost>>

\* The drain found silence.
WatcherAsk ==
  /\ pc = "w_drain"
  /\ tty = <<>>
  /\ \/ Ask /\ pc' = "w_read" /\ UNCHANGED <<attempt, lost>>
     \/ Trouble /\ WatcherFails /\ UNCHANGED display
  /\ UNCHANGED <<answer, tty, buf, resultVars>>

WatcherReadPart ==
  /\ pc = "w_read" /\ tty # <<>>
  /\ \E n \in 1..Len(tty) : TakePart(n)
  /\ UNCHANGED <<displayVars, pc, attempt, resultVars, troubles, lost>>

\* Only an answer with t = "id" and a mode that is known will do.
WatcherReadLine ==
  /\ pc = "w_read" /\ tty # <<>>
  /\ \E n \in 1..Len(tty), line \in Lines :
       /\ TakeLine(n, line)
       /\ IF line = "answer" /\ Type(WatcherModes(answer)) # "none"
            THEN /\ pc' = "start"
                 /\ id' = WatcherModes(answer)
                 /\ UNCHANGED <<attempt, lost>>
            ELSE WatcherFails /\ UNCHANGED id
  /\ buf' = FALSE
  /\ UNCHANGED <<displayVars, heard, serves, troubles>>

\* A part of a line is returned at the deadline, and is no JSON.
WatcherTimeout ==
  /\ pc = "w_read"
  /\ Silence
  /\ WatcherFails
  /\ buf' = FALSE
  /\ UNCHANGED <<displayVars, tty, resultVars>>

-----------------------------------------------------------------------------
\* The bridge: identify_device() and extract_supported_modes()

\* start_bridge passes the type as the argument, and MCUB_HAS_SYSINFO.
StartBridge ==
  /\ pc = "start"
  /\ pc' = "b_open"
  /\ UNCHANGED <<displayVars, tty, buf, attempt, resultVars, troubles, lost>>

\* Mutant: only the list of modes is looked at.
BridgeModesList(a) == a.modes \cap Modes

BridgeModes(a) ==
  IF a.modes # {} THEN {m \in Modes : m \in a.modes} ELSE Modes \cap a.name

\* MCUB_HAS_SYSINFO, which only adds.
Override == id \cap {"sysinfo"}

\* Every JSON object is understood, one without modes as a display without
\* modes; from another line nothing follows, not even the override.
Supported(line) ==
  CASE line = "answer" -> BridgeModes(answer) \cup Override
    [] line = "cmd" -> Override
    [] OTHER -> {}

\* run() goes on whatever the line says; only the hybrid bridge looks at it.
BridgeRuns(line) ==
  /\ pc' = "running"
  /\ heard' = line
  /\ serves' = IF Type(id) = "hybrid" THEN Supported(line) ELSE {Type(id)}
  /\ lost' = IF line = "answer" THEN lost ELSE lost + 1
  /\ UNCHANGED <<attempt, id>>

\* run() returns 1; the watcher finds the child dead and begins again.
BridgeExits ==
  /\ pc' = "w_open"
  /\ attempt' = 1
  /\ id' = {}
  /\ lost' = lost + 1
  /\ UNCHANGED <<heard, serves>>

\* identify_device returned None: the hybrid bridge ends, the others run.
BridgeHearsNothing ==
  IF Type(id) = "hybrid" THEN BridgeExits ELSE BridgeRuns("none")

BridgeOpen ==
  /\ pc = "b_open"
  /\ \/ /\ Reset
        /\ pc' = "b_drain"
        /\ UNCHANGED <<attempt, resultVars, troubles, lost>>
     \/ /\ Trouble
        /\ BridgeExits
        /\ UNCHANGED <<display, tty, buf>>
  /\ UNCHANGED answer

BridgeDrain ==
  /\ pc = "b_drain"
  /\ tty # <<>>
  /\ tty' = <<>>
  /\ UNCHANGED <<displayVars, pc, buf, attempt, resultVars, troubles, lost>>

BridgeAsk ==
  /\ pc = "b_drain"
  /\ tty = <<>>
  /\ \/ Ask /\ pc' = "b_read" /\ UNCHANGED <<attempt, resultVars, lost>>
     \/ Trouble /\ BridgeHearsNothing /\ UNCHANGED display
  /\ UNCHANGED <<answer, tty, buf>>

BridgeReadPart ==
  /\ pc \in {"b_read", "b_again"} /\ tty # <<>>
  /\ \E n \in 1..Len(tty) : TakePart(n)
  /\ UNCHANGED <<displayVars, pc, attempt, resultVars, troubles, lost>>

\* Mutant: it is read again and again until something comes.
BridgeReadsForever ==
  pc' = "b_again" /\ UNCHANGED <<attempt, resultVars, lost>>

\* Nothing came of a read: a second one follows the first.
BridgeReadsNothing ==
  IF pc = "b_again" THEN BridgeHearsNothing
  ELSE pc' = "b_again" /\ UNCHANGED <<attempt, resultVars, lost>>

BridgeReadLine ==
  /\ pc \in {"b_read", "b_again"} /\ tty # <<>>
  /\ \E n \in 1..Len(tty), line \in Lines :
       /\ TakeLine(n, line)
       /\ IF line = "blank" THEN BridgeReadsNothing ELSE BridgeRuns(line)
  /\ buf' = FALSE
  /\ UNCHANGED <<displayVars, troubles>>

\* A part of a line is returned as it is.
BridgeTimeout ==
  /\ pc \in {"b_read", "b_again"}
  /\ Silence
  /\ IF buf THEN BridgeRuns("noise") ELSE BridgeReadsNothing
  /\ buf' = FALSE
  /\ UNCHANGED <<displayVars, tty>>

-----------------------------------------------------------------------------
\* The display

Sends(piece) ==
  /\ pc \notin Over
  /\ Len(tty) < MaxTty
  /\ tty' = Append(tty, piece)

hostVars == <<pc, buf, attempt, resultVars, lost>>

BootChatter ==
  /\ display = "booting"
  /\ Sends("boot") \/ Sends("blank")
  /\ UNCHANGED <<displayVars, troubles, hostVars>>

Booted ==
  /\ pc \notin Over
  /\ display = "booting"
  /\ display' = "ready"
  /\ UNCHANGED <<answer, tty, troubles, hostVars>>

AnswerWhole ==
  /\ display = "asked"
  /\ Sends("answer")
  /\ display' = "ready"
  /\ UNCHANGED <<answer, troubles, hostVars>>

AnswerPart ==
  /\ display = "asked"
  /\ Sends("part")
  /\ display' = "half"
  /\ UNCHANGED <<answer, troubles, hostVars>>

AnswerRest ==
  /\ display = "half"
  /\ Sends("rest")
  /\ display' = "ready"
  /\ UNCHANGED <<answer, troubles, hostVars>>

\* Trouble: the answer is garbled.
Garble ==
  /\ display = "asked"
  /\ Trouble
  /\ Sends("noise") \/ Sends("blank")
  /\ display' = "ready"
  /\ UNCHANGED <<answer, hostVars>>

\* Trouble: the user presses a key of the display.
KeyPress ==
  /\ display \in {"ready", "asked"}
  /\ Trouble
  /\ Sends("cmd")
  /\ UNCHANGED <<displayVars, hostVars>>

Finished == pc \in Over /\ UNCHANGED vars

WatcherStep ==
  \/ WatcherOpen \/ WatcherDrain \/ WatcherAsk
  \/ WatcherReadPart \/ WatcherReadLine \/ WatcherTimeout

BridgeStep ==
  \/ StartBridge \/ BridgeOpen \/ BridgeDrain \/ BridgeAsk
  \/ BridgeReadPart \/ BridgeReadLine \/ BridgeTimeout

DisplayTalks ==
  BootChatter \/ Booted \/ AnswerWhole \/ AnswerPart \/ AnswerRest
DisplayStep == DisplayTalks \/ Garble \/ KeyPress

Next ==
  \/ WatcherStep
  \/ BridgeStep
  \/ DisplayStep
  \/ Finished

Spec == Init /\ [][Next]_vars

\* Both sides go on, and a display that boots or was asked gets done with it.
Fairness ==
  /\ WF_vars(WatcherStep \/ BridgeStep)
  /\ WF_vars(Booted \/ AnswerWhole \/ AnswerRest)

FairSpec == Spec /\ Fairness

-----------------------------------------------------------------------------
\* A bridge that heard the answer runs exactly the modes for which the
\* watcher started it, though the two understand the answer by rules of
\* their own (identify, lines 115-142, against extract_supported_modes,
\* lines 312-348); a hybrid bridge runs two modes at least.
Agreement ==
  pc = "running" /\ heard = "answer" =>
    /\ serves = WatcherModes(answer)
    /\ Type(id) = "hybrid" => Cardinality(serves) >= 2

\* A display that can be identified is identified, by the watcher and by
\* the bridge, unless something went wrong, and one trouble spoils at most
\* one exchange: nothing of a spoiled exchange is left to spoil the next
\* (flush, settling and drain, identify, lines 83-99, identify_device,
\* lines 122-154).
Identifiable == display # "mute" /\ Type(WatcherModes(answer)) # "none"

FailuresEarned == Identifiable => lost <= troubles

\* Liveness: once the display has booted, the exchange comes to an end within
\* the attempts of the watcher and the two reads of the bridge.  (The drains
\* have no bound of their own: they last as long as the display chatters.)
Settles == <>(pc \in Over)

\* What REPORT.md (lines 284-288) takes for granted: that the bridge needs
\* the answer only as a confirmation, since the environment tells it the
\* same.
BridgeServes == pc = "running" => serves = WatcherModes(answer)

=============================================================================

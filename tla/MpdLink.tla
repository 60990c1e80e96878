------------------------------- MODULE MpdLink -------------------------------
(***************************************************************************)
(* The connection of a bridge to the MPD server (core/mpd_client.rs, and   *)
(* modules/mpd_bridge.rs as the hybrid bridge uses it).                    *)
(*                                                                         *)
(* The checker thread builds the state for the display with up to three    *)
(* queries, and connects when the connection is lost; the command thread   *)
(* carries out what is pressed on the display.  Each holds the lock of the *)
(* client for the whole of its call, so at most one call is in progress.   *)
(* MPD answers in the order it was asked; the client takes the next answer *)
(* for the answer to what it asked last.                                   *)
(*                                                                         *)
(* Of the player only what the display shows of it is kept: its state, the *)
(* position of the song in the playlist and the length of the playlist.    *)
(***************************************************************************)
EXTENDS Integers, Sequences

CONSTANTS
  MaxLength,    \* bound: songs in a playlist
  MaxTroubles   \* bound: timeouts, restarts of MPD, acts of other clients

ASSUME LimitsAssumption == MaxLength \in Nat \ {0} /\ MaxTroubles \in Nat

States == {"play", "pause", "stop"}

\* An empty playlist has no song, and nothing of it can play.
Player == {p \in [state : States, song : 0..MaxLength, length : 0..MaxLength] :
             IF p.length = 0 THEN p.song = 0 /\ p.state = "stop"
                             ELSE p.song \in 1..p.length}

Queries == {"status", "playlistinfo", "currentsong"}
Orders == {"play", "play 0", "pause 1", "pause 0", "stop", "next", "set"}
Commands == Queries \cup Orders

NoPlayer == [state |-> "stop", song |-> 0, length |-> 0]

Answer == [to : Commands, ack : BOOLEAN, player : Player]

\* What the display shows of a title: that of a song, or "Unknown", or the
\* empty name of a song without a file.
Unknown == -1
Empty == 0
Titles == {Unknown, Empty} \cup 1..MaxLength

VARIABLES
  server,           \* MPD is up
  player,           \* MPD's player
  sent,             \* commands MPD has not carried out yet
  answers,          \* answers the client has not read yet
  link,             \* the client: "none", "open" or "broken"
  call,             \* the call that holds the lock: "free" when there is none
  script,           \* the orders a command has still to give
  waiting,          \* the last command was sent, its answer not read
  mpd_connected,
  playlist_length,  \* the length of the cached playlist time
  got,              \* the status read, while a state is built
  shown,            \* the state last sent to the display
  troubles,         \* for the bound MaxTroubles
  slipped,          \* history: a read timed out that drops no connection
  during            \* history: the player since the state began to be built

mpdVars == <<server, player>>
wireVars == <<sent, answers>>
callVars == <<call, script, waiting, got>>
cacheVars == <<mpd_connected, playlist_length>>
historyVars == <<slipped, during>>
vars == <<mpdVars, wireVars, link, callVars, cacheVars, shown, troubles,
          historyVars>>

\* What the holder of the lock is at: the queries of build_state_json, or a
\* command that begins with a status, or the orders of one ("do").
StatePath == {"status", "playlist", "song"}
Calls == {"free", "cached", "do", "play_pause", "adjust"} \cup StatePath

Status == [state : States, length : 0..MaxLength]
NoStatus == [state |-> "stop", length |-> 0]

TypeOK ==
  /\ server \in BOOLEAN
  /\ player \in Player
  /\ sent \in Seq(Commands)
  /\ answers \in Seq(Answer)
  /\ link \in {"none", "open", "broken"}
  /\ call \in Calls
  /\ script \in Seq(Orders)
  /\ waiting \in BOOLEAN
  /\ mpd_connected \in BOOLEAN
  /\ playlist_length \in -1..MaxLength
  /\ got \in Status
  /\ shown \in [state : States, title : Titles]
  /\ troubles \in 0..MaxTroubles
  /\ slipped \in BOOLEAN
  /\ during \subseteq Player

Init ==
  /\ server \in BOOLEAN
  /\ player \in Player
  /\ sent = <<>> /\ answers = <<>>
  /\ link = "none"
  /\ call = "free"
  /\ script = <<>>
  /\ waiting = FALSE
  /\ mpd_connected = FALSE
  /\ playlist_length = -1
  /\ got = NoStatus
  /\ shown = [state |-> "stop", title |-> Unknown]
  /\ troubles = 0
  /\ slipped = FALSE
  /\ during = {}

\* Where a state for the display is being built.
Building == call \in StatePath \cup {"cached"}

Witness(p) == during' = IF Building THEN during \cup {p} ELSE {}

Trouble == troubles < MaxTroubles /\ troubles' = troubles + 1

-----------------------------------------------------------------------------
\* MPD

\* What an order does to the player.  "next" stands for "previous" too, and
\* "set" for the volume, the flags and seeking: the model does not tell them
\* apart.
Obey(order) ==
  CASE order = "play" /\ player.length > 0 -> [player EXCEPT !.state = "play"]
    [] order = "play 0" /\ player.length > 0 ->
         [state |-> "play", song |-> 1, length |-> player.length]
    [] order = "pause 1" /\ player.state = "play" ->
         [player EXCEPT !.state = "pause"]
    [] order = "pause 0" /\ player.state = "pause" ->
         [player EXCEPT !.state = "play"]
    [] order = "stop" -> [player EXCEPT !.state = "stop"]
    [] order = "next" /\ player.length > 0 ->
         [player EXCEPT !.song = (@ % player.length) + 1]
    [] OTHER -> player

\* An order may be refused (ACK); the queries never are.  Only the answer to
\* a query tells anything.
Serve ==
  /\ link = "open"
  /\ sent # <<>>
  /\ \E ack \in IF Head(sent) \in Orders THEN BOOLEAN ELSE {FALSE} :
       /\ player' = IF ack THEN player ELSE Obey(Head(sent))
       /\ answers' = Append(answers,
            [to |-> Head(sent), ack |-> ack,
             player |-> IF Head(sent) \in Queries THEN player ELSE NoPlayer])
  /\ sent' = Tail(sent)
  /\ Witness(player')
  /\ UNCHANGED <<server, link, callVars, cacheVars, shown, troubles, slipped>>

OtherClient ==
  /\ Trouble
  /\ player' \in Player
  /\ Witness(player')
  /\ UNCHANGED <<server, wireVars, link, callVars, cacheVars, shown, slipped>>

ServerDown ==
  /\ server
  /\ Trouble
  /\ server' = FALSE
  /\ link' = IF link = "open" THEN "broken" ELSE link
  /\ sent' = <<>> /\ answers' = <<>>
  /\ UNCHANGED <<player, callVars, cacheVars, shown, historyVars>>

ServerUp ==
  /\ ~server
  /\ server' = TRUE
  /\ UNCHANGED <<player, wireVars, link, callVars, cacheVars, shown, troubles,
                 historyVars>>

-----------------------------------------------------------------------------
\* The calls

Begin(c) ==
  /\ call = "free"
  /\ call' = c
  /\ waiting' = FALSE

\* MpdBridge::connect, by the checker: a new stream, a new reader.
Connect ==
  /\ call = "free"
  /\ ~mpd_connected
  /\ IF server
       THEN /\ link' = "open"
            /\ mpd_connected' = TRUE
            /\ slipped' = FALSE
       ELSE link' = "none" /\ UNCHANGED <<mpd_connected, slipped>>
  /\ sent' = <<>> /\ answers' = <<>>
  /\ UNCHANGED <<mpdVars, callVars, playlist_length, shown, troubles, during>>

\* Mutant: the checker builds a state only while the connection is lost.
BuildStateLost ==
  /\ ~mpd_connected
  /\ link # "none"
  /\ Begin("status")
  /\ during' = {player}
  /\ UNCHANGED <<mpdVars, wireVars, link, script, cacheVars, got, shown,
                 troubles, slipped>>

\* build_state_json, by the checker.
BuildState ==
  /\ mpd_connected
  /\ link # "none"
  /\ Begin("status")
  /\ during' = {player}
  /\ UNCHANGED <<mpdVars, wireVars, link, script, cacheVars, got, shown,
                 troubles, slipped>>

\* handle_command: one order, or two for "stop" pressed twice.
Press ==
  /\ link # "none"
  /\ \/ \E c \in {"play_pause", "adjust"} : Begin(c) /\ script' = <<>>
     \/ /\ Begin("do")
        /\ script' \in {<<"next">>, <<"set">>, <<"stop">>, <<"play 0", "stop">>}
  /\ UNCHANGED <<mpdVars, wireVars, link, cacheVars, got, shown, troubles,
                 historyVars>>

Command ==
  IF call = "do" THEN Head(script)
  ELSE IF call = "playlist" THEN "playlistinfo"
  ELSE IF call = "song" THEN "currentsong"
  ELSE "status"

Send ==
  /\ call \notin {"free", "cached"} /\ ~waiting
  /\ link = "open"
  /\ sent' = Append(sent, Command)
  /\ waiting' = TRUE
  /\ UNCHANGED <<mpdVars, answers, link, call, script, got, cacheVars, shown,
                 troubles, historyVars>>

Finish(title) ==
  /\ shown' = [state |-> got.state, title |-> title]
  /\ call' = "free"
  /\ got' = NoStatus /\ during' = {}

AskSong ==
  /\ call' = "song"
  /\ UNCHANGED <<shown, got, during>>

\* The call ends with nothing for the display.
EndCall ==
  /\ call' = "free"
  /\ got' = NoStatus /\ during' = {}
  /\ UNCHANGED shown

\* A player that is stopped has no song to ask for.
AfterPlaylist ==
  IF got.state = "stop" THEN Finish(Unknown) ELSE AskSong

-----------------------------------------------------------------------------
\* Answers, each read as if it were to the command sent last

\* Mutant: there is no state for what a status does not say.
StatusFromAny(a) ==
  [state |-> IF a.to = "status" THEN a.player.state ELSE "unknown",
   length |-> IF a.to = "status" THEN a.player.length ELSE 0]

\* MpdClient::status: what the pairs do not name keeps its default.
StatusFrom(a) ==
  IF a.to = "status"
    THEN [state |-> a.player.state, length |-> a.player.length]
    ELSE NoStatus

\* MpdClient::currentsong: the songs of a playlist run together and the last
\* one wins; the pairs of a status name no file.
TitleFrom(a) ==
  CASE a.to = "currentsong" /\ a.player.song # 0 -> a.player.song
    [] a.to = "playlistinfo" /\ a.player.length # 0 -> a.player.length
    [] a.to = "status" -> Empty
    [] OTHER -> Unknown

Read ==
  /\ waiting
  /\ answers # <<>>
  /\ answers' = Tail(answers)
  /\ waiting' = FALSE

ReadOk == Read /\ ~Head(answers).ack

\* The cached time of the playlist serves while its length is the same.
Cached(length) == length = playlist_length /\ length > 0

ReadStatus ==
  /\ call = "status"
  /\ ReadOk
  /\ got' = StatusFrom(Head(answers))
  /\ call' = IF Cached(got'.length) THEN "cached" ELSE "playlist"
  /\ UNCHANGED <<mpdVars, sent, link, script, cacheVars, shown, troubles,
                 historyVars>>

UseCache ==
  /\ call = "cached"
  /\ AfterPlaylist
  /\ UNCHANGED <<mpdVars, wireVars, link, script, waiting, cacheVars, troubles,
                 slipped>>

ReadPlaylist ==
  /\ call = "playlist"
  /\ ReadOk
  /\ playlist_length' = got.length
  /\ AfterPlaylist
  /\ UNCHANGED <<mpdVars, sent, link, script, mpd_connected, troubles, slipped>>

ReadSong ==
  /\ call = "song"
  /\ ReadOk
  /\ Finish(TitleFrom(Head(answers)))
  /\ UNCHANGED <<mpdVars, sent, link, script, cacheVars, troubles, slipped>>

\* The status a command begins with decides what it orders.
ReadAsked ==
  /\ call \in {"play_pause", "adjust"}
  /\ ReadOk
  /\ call' = "do"
  /\ script' = <<IF call = "adjust" THEN "set"
                 ELSE CASE StatusFrom(Head(answers)).state = "stop" -> "play"
                        [] StatusFrom(Head(answers)).state = "play" -> "pause 1"
                        [] OTHER -> "pause 0">>
  /\ UNCHANGED <<mpdVars, sent, link, got, cacheVars, shown, troubles,
                 historyVars>>

\* Mutant: an order is given without waiting for its answer.
ReadDoneUnread ==
  /\ call = "do" /\ waiting
  /\ waiting' = FALSE
  /\ script' = Tail(script)
  /\ call' = IF script' = <<>> THEN "free" ELSE "do"
  /\ UNCHANGED <<mpdVars, wireVars, link, got, cacheVars, shown, troubles,
                 historyVars>>

ReadDone ==
  /\ call = "do"
  /\ ReadOk
  /\ script' = Tail(script)
  /\ call' = IF script' = <<>> THEN "free" ELSE "do"
  /\ UNCHANGED <<mpdVars, sent, link, got, cacheVars, shown, troubles,
                 historyVars>>

\* Mutant: a failed status is not told.
GiveUpQuietly ==
  /\ waiting' = FALSE
  /\ script' = <<>>
  /\ CASE call = "playlist" -> AfterPlaylist
       [] call = "song" -> Finish(Unknown)
       [] OTHER -> EndCall
  /\ UNCHANGED mpd_connected

\* What an exchange that failed leads to: a failed status drops the flag, a
\* failed playlist or song is done without, a command ends.
GiveUp ==
  /\ waiting' = FALSE
  /\ script' = <<>>
  /\ CASE call = "playlist" -> AfterPlaylist
       [] call = "song" -> Finish(Unknown)
       [] OTHER -> EndCall
  /\ mpd_connected' = (mpd_connected /\ call # "status")

unchangedByFailure == <<mpdVars, sent, link, playlist_length>>

\* The stream is at its end, or cannot be written.
FailBroken ==
  /\ call \notin {"free", "cached"}
  /\ link = "broken"
  /\ GiveUp
  /\ UNCHANGED <<unchangedByFailure, answers, troubles, slipped>>

\* MPD refused, or that is what an earlier answer says.
FailRefused ==
  /\ Read
  /\ Head(answers).ack
  /\ GiveUp
  /\ UNCHANGED <<unchangedByFailure, troubles, slipped>>

\* No answer within three seconds.  It will still come.
FailTimeout ==
  /\ waiting
  /\ link = "open"
  /\ answers = <<>>
  /\ Trouble
  /\ GiveUp
  /\ slipped' = (slipped \/ call # "status")
  /\ UNCHANGED <<unchangedByFailure, answers>>

Exchange ==
  \/ Send \/ ReadStatus \/ UseCache \/ ReadPlaylist \/ ReadSong
  \/ ReadAsked \/ ReadDone \/ FailBroken \/ FailRefused

Next ==
  \/ Serve \/ OtherClient \/ ServerDown \/ ServerUp
  \/ Connect \/ BuildState \/ Press
  \/ Exchange \/ FailTimeout

Spec == Init /\ [][Next]_vars

\* MPD answers, a call goes on, and the checker gets the lock and its turn
\* however often the command thread takes the lock.
Fairness ==
  /\ WF_vars(Serve)
  /\ WF_vars(Exchange)
  /\ SF_vars(BuildState \/ Connect)

FairSpec == Spec /\ Fairness

-----------------------------------------------------------------------------
\* Between two calls a connection that is thought good has no command and no
\* answer under way, so that every answer is read by the command it is for;
\* unless a read timed out other than of a status: that one alone makes the
\* checker connect again (build_state_json, lines 196-207).
InStep ==
  call = "free" /\ link = "open" /\ mpd_connected /\ ~slipped =>
    sent = <<>> /\ answers = <<>>

\* What is sent to the display was true of the player at some time during
\* the call that built it, state and title each, whatever the other thread
\* and other clients of MPD did (build_state_json holds the lock throughout).
ShownHappened ==
  [][shown' # shown /\ ~slipped' =>
       /\ \E p \in during : p.state = shown'.state
       /\ shown'.title # Unknown => \E p \in during : p.song = shown'.title]_vars

View(p) == [state |-> p.state,
            title |-> IF p.state = "stop" THEN Unknown ELSE p.song]

\* Liveness: when the player rests and the connection keeps in step, the
\* display comes to show the player and stays with it, however the
\* connection was lost and made again before (mpd_checker_loop).
DisplayFollows ==
  <>[][FALSE]_player /\ <>[](link = "open" /\ mpd_connected /\ ~slipped)
    => <>[](shown = View(player))

\* Violated: an error on the way to the state marks the connection as lost
\* ("state-JSON path flips mpd_connected on error", mpd_bridge.rs:159-160).
ErrorsFlip ==
  [][(FailBroken \/ FailRefused \/ FailTimeout) /\ call \in StatePath
       => ~mpd_connected']_vars
=============================================================================

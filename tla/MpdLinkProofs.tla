--------------------------- MODULE MpdLinkProofs ---------------------------
(***************************************************************************)
(* Proofs about MpdLink, for playlists of any length and any number of     *)
(* troubles.                                                               *)
(***************************************************************************)
EXTENDS MpdLink, TLAPS

-----------------------------------------------------------------------------
\* What an order leads to is again a player.
LEMMA ObeyType ==
  ASSUME player \in Player, NEW order
  PROVE  Obey(order) \in Player
<1> USE LimitsAssumption DEF Player, States
<1>1. CASE order = "next" /\ player.length > 0
  <2> DEFINE n == player.length
             s == player.song
  <2>1. n \in 1..MaxLength /\ s \in 1..n
    BY <1>1
  <2>2. (s % n) \in 0..(n - 1)
    BY <2>1
  <2>3. (s % n) + 1 \in 1..n /\ (s % n) + 1 \in 0..MaxLength
    BY <2>1, <2>2
  <2>4. Obey(order) = [player EXCEPT !.song = (s % n) + 1]
    BY <1>1 DEF Obey
  <2>5. QED BY <2>1, <2>3, <2>4
<1>2. CASE ~(order = "next" /\ player.length > 0)
  <2>1. ASSUME NEW st \in States, player.length > 0 \/ st = "stop"
        PROVE  [player EXCEPT !.state = st] \in Player
    BY <2>1
  <2>2. ASSUME player.length > 0
        PROVE  [state |-> "play", song |-> 1, length |-> player.length]
                 \in Player
    BY <2>2
  <2>3. player.state # "stop" => player.length > 0
    <3>1. player.length = 0 \/ player.length > 0
      OBVIOUS
    <3>2. player.length = 0 => player.state = "stop"
      OBVIOUS
    <3>3. QED BY <3>1, <3>2
  <2>4. \/ Obey(order) = player
        \/ player.length > 0 /\ Obey(order) = [player EXCEPT !.state = "play"]
        \/ player.length > 0
           /\ Obey(order) = [state |-> "play", song |-> 1, length |-> player.length]
        \/ player.state = "play" /\ Obey(order) = [player EXCEPT !.state = "pause"]
        \/ player.state = "pause" /\ Obey(order) = [player EXCEPT !.state = "play"]
        \/ Obey(order) = [player EXCEPT !.state = "stop"]
    BY <1>2, Zenon DEF Obey
  <2>5. "play" \in States /\ "pause" \in States /\ "stop" \in States
    OBVIOUS
  <2> HIDE DEF Player, States
  <2>6. QED BY <2>1, <2>2, <2>3, <2>4, <2>5
<1>3. QED BY <1>1, <1>2

-----------------------------------------------------------------------------
\* The types are proved in three parts: the flags; the player, the wire and
\* the call; and what is kept of the answers.
Flags ==
  /\ server \in BOOLEAN
  /\ waiting \in BOOLEAN
  /\ mpd_connected \in BOOLEAN
  /\ slipped \in BOOLEAN

\* A command always has an order to give.
Wire ==
  /\ player \in Player
  /\ sent \in Seq(Commands)
  /\ answers \in Seq(Answer)
  /\ call \in Calls
  /\ script \in Seq(Orders)
  /\ call = "do" => script # <<>>

LEMMA FlagsHold == Spec => []Flags
<1> USE DEF Flags
<1>1. Init => Flags
  BY DEF Init
<1>2. Flags /\ [Next]_vars => Flags'
  <2> SUFFICES ASSUME Flags, [Next]_vars PROVE Flags'
    OBVIOUS
  <2> USE DEF mpdVars, wireVars, callVars, cacheVars, historyVars
  <2>1. CASE Serve \/ OtherClient \/ ServerDown \/ ServerUp
    BY <2>1 DEF Serve, OtherClient, ServerDown, ServerUp
  <2>2. CASE Connect
    BY <2>2 DEF Connect
  <2>3. CASE BuildState \/ Press
    BY <2>3 DEF BuildState, Press, Begin
  <2>4. CASE Exchange
    BY <2>4 DEF Exchange, Send, ReadStatus, UseCache, ReadPlaylist, ReadSong,
                ReadAsked, ReadDone, FailBroken, FailRefused, Read, ReadOk,
                GiveUp, unchangedByFailure
  <2>5. CASE FailTimeout
    BY <2>5 DEF FailTimeout, GiveUp, unchangedByFailure
  <2>6. CASE UNCHANGED vars
    BY <2>6 DEF vars
  <2>7. QED BY <2>1, <2>2, <2>3, <2>4, <2>5, <2>6 DEF Next
<1>3. QED BY <1>1, <1>2, PTL DEF Spec

LEMMA WireHolds == Spec => []Wire
<1>1. Init => Wire
  BY DEF Init, Wire, Calls
<1>2. Wire /\ [Next]_vars => Wire'
  <2> SUFFICES ASSUME Wire, [Next]_vars PROVE Wire'
    OBVIOUS
  <2> USE DEF Wire, mpdVars, wireVars, callVars, cacheVars, historyVars
  <2>1. CASE Serve
    <3>1. PICK ack \in BOOLEAN :
            /\ player' = IF ack THEN player ELSE Obey(Head(sent))
            /\ answers' = Append(answers,
                 [to |-> Head(sent), ack |-> ack,
                  player |-> IF Head(sent) \in Queries THEN player
                                                       ELSE NoPlayer])
      BY <2>1 DEF Serve
    <3>2. /\ Head(sent) \in Commands /\ Tail(sent) \in Seq(Commands)
          /\ sent' = Tail(sent) /\ UNCHANGED <<call, script>>
      BY <2>1 DEF Serve
    <3>3. NoPlayer \in Player
      BY LimitsAssumption DEF NoPlayer, Player, States
    <3>4. player' \in Player
      BY <3>1, ObeyType
    <3>5. answers' \in Seq(Answer)
      BY <3>1, <3>2, <3>3 DEF Answer
    <3>6. QED BY <3>2, <3>4, <3>5
  <2>2. CASE OtherClient \/ ServerDown \/ ServerUp
    <3>1. CASE OtherClient \/ ServerUp
      BY <3>1 DEF OtherClient, ServerUp
    <3>2. CASE ServerDown
      BY <3>2 DEF ServerDown
    <3>3. QED BY <2>2, <3>1, <3>2
  <2>3. CASE Connect
    BY <2>3 DEF Connect
  <2>4. CASE BuildState
    BY <2>4 DEF BuildState, Begin, Calls, StatePath
  <2>5. CASE Press
    <3>1. <<>> \in Seq(Orders)
          /\ \A o \in {<<"next">>, <<"set">>, <<"stop">>, <<"play 0", "stop">>} :
               o \in Seq(Orders) /\ o # <<>>
      <4>1. \A a, b \in Orders :
              /\ <<a>> \in Seq(Orders) /\ <<a>> # <<>>
              /\ <<a, b>> \in Seq(Orders) /\ <<a, b>> # <<>>
        OBVIOUS
      <4>2. {"next", "set", "stop", "play 0"} \subseteq Orders
        BY DEF Orders
      <4>3. <<>> \in Seq(Orders)
        OBVIOUS
      <4>4. QED BY <4>1, <4>2, <4>3, Zenon
    <3>2. UNCHANGED <<player, sent, answers>>
      BY <2>5 DEF Press
    <3>3. \/ call' \in {"play_pause", "adjust"} /\ script' = <<>>
          \/ call' = "do" /\ script' \in Seq(Orders) /\ script' # <<>>
      BY <2>5, <3>1, Zenon DEF Press, Begin
    <3>4. QED BY <3>1, <3>2, <3>3 DEF Calls
  <2>6. CASE Exchange
    <3>1. CASE Send
      <4>1. Command \in Commands
        BY <3>1 DEF Send, Command, Commands, Queries
      <4>2. QED BY <3>1, <4>1 DEF Send
    <3>2. CASE ReadStatus \/ UseCache \/ ReadPlaylist \/ ReadSong
      <4>1. UNCHANGED <<player, sent, script>>
            /\ call' \in Calls \ {"do"}
        BY <3>2 DEF ReadStatus, UseCache, ReadPlaylist, ReadSong, AfterPlaylist,
                    Finish, AskSong, Calls, StatePath
      <4>2. answers' \in Seq(Answer)
        <5>1. CASE ReadOk
          BY <5>1 DEF ReadOk, Read
        <5>2. CASE UseCache
          BY <5>2 DEF UseCache
        <5>3. QED
          BY <3>2, <5>1, <5>2, Zenon DEF ReadStatus, ReadPlaylist, ReadSong
      <4>3. QED BY <4>1, <4>2, Zenon
    <3>3. CASE ReadAsked
      <4>1. /\ UNCHANGED <<player, sent>>
            /\ answers # <<>> /\ answers' = Tail(answers)
            /\ call' = "do"
            /\ \E o \in Orders : script' = <<o>>
        <5>1. UNCHANGED <<player, sent>> /\ ReadOk /\ call' = "do"
          BY <3>3 DEF ReadAsked
        <5>2. /\ answers # <<>> /\ answers' = Tail(answers)
          BY <5>1 DEF ReadOk, Read
        <5>3. \E o \in {"set", "play", "pause 1", "pause 0"} : script' = <<o>>
          BY <3>3 DEF ReadAsked
        <5>4. QED BY <5>1, <5>2, <5>3 DEF Orders
      <4>2. QED BY <4>1 DEF Calls
    <3>4. CASE ReadDone
      <4>1. /\ UNCHANGED <<player, sent>>
            /\ answers # <<>> /\ answers' = Tail(answers)
            /\ script # <<>> /\ script' = Tail(script)
            /\ call' = IF script' = <<>> THEN "free" ELSE "do"
        BY <3>4 DEF ReadDone, ReadOk, Read
      <4>2. QED BY <4>1 DEF Calls
    <3>5. CASE FailBroken
      BY <3>5 DEF FailBroken, GiveUp, AfterPlaylist, Finish, AskSong, EndCall,
                  unchangedByFailure, Calls, StatePath
    <3>6. CASE FailRefused
      BY <3>6 DEF FailRefused, Read, GiveUp, AfterPlaylist, Finish, AskSong,
                  EndCall, unchangedByFailure, Calls, StatePath
    <3>7. QED BY <2>6, <3>1, <3>2, <3>3, <3>4, <3>5, <3>6 DEF Exchange
  <2>7. CASE FailTimeout
    BY <2>7 DEF FailTimeout, GiveUp, AfterPlaylist, Finish, AskSong, EndCall,
                unchangedByFailure, Calls, StatePath
  <2>8. CASE UNCHANGED vars
    BY <2>8 DEF vars
  <2>9. QED BY <2>1, <2>2, <2>3, <2>4, <2>5, <2>6, <2>7, <2>8 DEF Next
<1>3. QED BY <1>1, <1>2, PTL DEF Spec

\* What is read from an answer, whichever command it is to.
LEMMA ReadingsType ==
  ASSUME NEW a \in Answer
  PROVE  StatusFrom(a) \in Status /\ TitleFrom(a) \in Titles
<1> USE LimitsAssumption
<1>1. a.player.state \in States /\ a.player.length \in 0..MaxLength
      /\ a.player.song \in 0..MaxLength
  BY DEF Answer, Player
<1>2. StatusFrom(a) \in Status
  BY <1>1 DEF StatusFrom, Status, NoStatus, States
<1>3. {a.player.song, a.player.length, Empty, Unknown} \subseteq Titles
  BY <1>1 DEF Titles, Empty, Unknown
<1>4. TitleFrom(a) \in {a.player.song, a.player.length, Empty, Unknown}
  BY Zenon DEF TitleFrom
<1>5. QED BY <1>2, <1>3, <1>4

Shown == [state : States, title : Titles]

Kept ==
  /\ link \in {"none", "open", "broken"}
  /\ playlist_length \in -1..MaxLength
  /\ got \in Status
  /\ shown \in Shown
  /\ troubles \in 0..MaxTroubles
  /\ during \subseteq Player

\* The ways a state for the display can end, each with a title that fits.
LEMMA FinishKept ==
  ASSUME got \in Status, during \subseteq Player, shown \in Shown,
         \/ \E title \in Titles : Finish(title)
         \/ AskSong
         \/ EndCall
  PROVE  got' \in Status /\ during' \subseteq Player /\ shown' \in Shown
<1>1. NoStatus \in Status
  BY LimitsAssumption DEF NoStatus, Status, States
<1>2. ASSUME NEW title \in Titles, Finish(title)
      PROVE  got' \in Status /\ during' \subseteq Player /\ shown' \in Shown
  BY <1>1, <1>2 DEF Finish, Status, Shown
<1>3. CASE AskSong
  BY <1>3 DEF AskSong
<1>4. CASE EndCall
  BY <1>1, <1>4 DEF EndCall
<1>5. QED BY <1>2, <1>3, <1>4

LEMMA KeptHolds == Spec => []Kept
<1> USE LimitsAssumption
<1>0. Unknown \in Titles
  BY DEF Unknown, Titles
<1>1. Init => Kept
  BY <1>0 DEF Init, Kept, NoStatus, Status, States, Shown
<1>2. Wire /\ Wire' /\ Kept /\ [Next]_vars => Kept'
  <2> SUFFICES ASSUME Wire, Wire', Kept, [Next]_vars PROVE Kept'
    OBVIOUS
  <2> USE DEF Kept, mpdVars, wireVars, callVars, cacheVars, historyVars
  <2>0. Trouble => troubles' \in 0..MaxTroubles
    BY DEF Trouble
  <2>1. ASSUME NEW p \in Player, Witness(p)
        PROVE  during' \subseteq Player
    BY <2>1 DEF Witness
  <2>2. CASE Serve
    BY <2>1, <2>2 DEF Serve, Wire
  <2>3. CASE OtherClient
    BY <2>0, <2>1, <2>3 DEF OtherClient, Wire
  <2>4. CASE ServerDown \/ ServerUp
    BY <2>0, <2>4 DEF ServerDown, ServerUp
  <2>5. CASE Connect
    BY <2>5 DEF Connect
  <2>6. CASE BuildState \/ Press
    BY <2>6 DEF BuildState, Press, Wire
  <2>7. AfterPlaylist => AskSong \/ \E title \in Titles : Finish(title)
    BY <1>0 DEF AfterPlaylist
  <2>8. GiveUp => EndCall \/ AskSong \/ \E title \in Titles : Finish(title)
    BY <1>0, <2>7 DEF GiveUp
  <2>9. CASE Exchange
    <3>1. CASE Send
      BY <3>1 DEF Send
    <3>2. ReadOk => Head(answers) \in Answer
      BY DEF ReadOk, Read, Wire
    <3>3. CASE ReadStatus
      BY <3>2, <3>3, ReadingsType DEF ReadStatus
    <3>4. CASE UseCache
      BY <3>4, <2>7, FinishKept DEF UseCache
    <3>5. CASE ReadPlaylist
      BY <3>5, <2>7, FinishKept DEF ReadPlaylist, Status
    <3>6. CASE ReadSong
      BY <3>6, <3>2, ReadingsType, FinishKept DEF ReadSong
    <3>7. CASE ReadAsked \/ ReadDone
      BY <3>7 DEF ReadAsked, ReadDone
    <3>8. CASE FailBroken
      BY <3>8, <2>8, FinishKept DEF FailBroken, unchangedByFailure
    <3>9. CASE FailRefused
      BY <3>9, <2>8, FinishKept DEF FailRefused, unchangedByFailure
    <3>10. QED BY <2>9, <3>1, <3>3, <3>4, <3>5, <3>6, <3>7, <3>8, <3>9
               DEF Exchange
  <2>10. CASE FailTimeout
    BY <2>0, <2>8, <2>10, FinishKept DEF FailTimeout, unchangedByFailure
  <2>11. CASE UNCHANGED vars
    BY <2>11 DEF vars
  <2>12. QED BY <2>2, <2>3, <2>4, <2>5, <2>6, <2>9, <2>10, <2>11 DEF Next
<1>3. QED BY <1>1, <1>2, WireHolds, PTL DEF Spec

\* Type correctness of the link, of the client and of what the display shows.
THEOREM TypeCorrect == Spec => []TypeOK
<1>1. Flags /\ Wire /\ Kept => TypeOK
  BY DEF Flags, Wire, Kept, Shown, TypeOK
<1>2. QED BY <1>1, FlagsHold, WireHolds, KeptHolds, PTL

-----------------------------------------------------------------------------
\* The invariant behind InStep and ShownHappened.

\* A connection whose next answer is that to the next command.
Good == link = "open" /\ mpd_connected /\ ~slipped

\* What was under way on a connection is lost with it.
GoneEmpty == link # "open" => sent = <<>> /\ answers = <<>>

BuildsConnected == Building => mpd_connected /\ player \in during

CachedIdle == call = "cached" => ~waiting

\* The command of the call in progress is on its way ...
Asked == sent = <<Command>> /\ answers = <<>>

\* ... or its answer is; one for the display tells of a player that was.
Answered ==
  /\ sent = <<>>
  /\ \E a \in Answer :
       /\ answers = <<a>>
       /\ a.to = Command
       /\ call \in StatePath => a.player \in during

Paired ==
  Good => IF call # "free" /\ waiting THEN Asked \/ Answered
                                      ELSE sent = <<>> /\ answers = <<>>

\* The status a state is built from was true during the call.
GotHappened ==
  ~slipped /\ call \in {"cached", "playlist", "song"} =>
    \E p \in during : p.state = got.state

LinkInv ==
  /\ GoneEmpty
  /\ BuildsConnected
  /\ CachedIdle
  /\ Paired
  /\ GotHappened

\* In a good connection a reader gets the answer to its own command.
LEMMA ReadOwn ==
  ASSUME Wire, LinkInv, Read, call # "free", mpd_connected, ~slipped
  PROVE  /\ sent = <<>> /\ answers' = <<>>
         /\ Head(answers) \in Answer
         /\ Head(answers).to = Command
         /\ call \in StatePath => Head(answers).player \in during
<1>1. link = "open"
  BY DEF LinkInv, GoneEmpty, Read
<1>2. Asked \/ Answered
  BY <1>1 DEF LinkInv, Paired, Good, Read
<1>3. ~Asked
  BY DEF Asked, Read
<1>4. PICK a \in Answer : /\ answers = <<a>>
                          /\ a.to = Command
                          /\ call \in StatePath => a.player \in during
  BY <1>2, <1>3 DEF Answered
<1>5. Head(answers) = a /\ Tail(answers) = <<>>
  BY <1>4
<1>6. sent = <<>>
  BY <1>2, <1>3 DEF Answered
<1>7. QED BY <1>4, <1>5, <1>6 DEF Read

\* The invariant holds of a client without a connection, and each kind of step
\* keeps it: MPD's own, those of the world around, the beginning of a call,
\* the answers read and given up, and the timeout.
LEMMA LinkInvInit == Init => LinkInv
BY DEF Init, LinkInv, GoneEmpty, BuildsConnected, CachedIdle, Paired, Good,
       GotHappened, Building, StatePath

LEMMA ServeKeeps ==
  ASSUME Wire, LinkInv, Serve
  PROVE  LinkInv'
<1> USE DEF callVars, cacheVars
<1>1. /\ UNCHANGED <<server, link, call, script, waiting, got, mpd_connected,
                     slipped>>
      /\ link = "open" /\ sent # <<>>
      /\ Witness(player')
      /\ Command' = Command
  BY DEF Serve, Command
<1>2. GoneEmpty'
  BY <1>1 DEF GoneEmpty
<1>3. Building => during' = during \cup {player'}
  BY <1>1 DEF Witness
<1>4. BuildsConnected'
  BY <1>1, <1>3 DEF LinkInv, BuildsConnected, Building
<1>5. CachedIdle'
  BY <1>1 DEF LinkInv, CachedIdle
<1>6. Paired'
  <2> SUFFICES ASSUME Good' PROVE Paired'
    BY DEF Paired
  <2>1. Good /\ call # "free" /\ waiting /\ Asked
    BY <1>1 DEF LinkInv, Paired, Good, Answered
  <2>2. sent = <<Command>> /\ Head(sent) = Command /\ Tail(sent) = <<>>
        /\ answers = <<>>
    BY <2>1 DEF Asked
  <2>3. Command \in Commands
    BY <2>2, <1>1 DEF Wire
  <2>4. PICK ack \in BOOLEAN :
          answers' = <<[to |-> Command, ack |-> ack,
                        player |-> IF Command \in Queries THEN player
                                                          ELSE NoPlayer]>>
    <3>1. PICK ack \in BOOLEAN :
            answers' = Append(answers,
              [to |-> Head(sent), ack |-> ack,
               player |-> IF Head(sent) \in Queries THEN player
                                                    ELSE NoPlayer])
      BY DEF Serve
    <3>2. \A x : Append(<<>>, x) = <<x>>
      OBVIOUS
    <3>3. QED BY <2>2, <3>1, <3>2, Zenon
  <2>5. NoPlayer \in Player
    BY LimitsAssumption DEF NoPlayer, Player, States
  <2>6. call \in StatePath => Command \in Queries /\ player \in during'
    BY <1>3 DEF StatePath, Building, Command, Queries, LinkInv, BuildsConnected
  <2>7. Answered'
    <3> DEFINE a == [to |-> Command, ack |-> ack,
                     player |-> IF Command \in Queries THEN player
                                                       ELSE NoPlayer]
    <3>1. a \in Answer /\ answers' = <<a>> /\ a.to = Command
      BY <2>3, <2>4, <2>5 DEF Answer, Wire
    <3>2. call \in StatePath => a.player \in during'
      BY <2>6
    <3>3. sent' = <<>>
      BY <2>2 DEF Serve
    <3> HIDE DEF a
    <3>4. QED BY <1>1, <3>1, <3>2, <3>3 DEF Answered
  <2>8. QED BY <1>1, <2>1, <2>7 DEF Paired
<1>7. GotHappened'
  BY <1>1, <1>3 DEF LinkInv, GotHappened, Building, StatePath
<1>8. QED BY <1>2, <1>4, <1>5, <1>6, <1>7 DEF LinkInv

LEMMA OthersKeep ==
  ASSUME Wire, LinkInv, OtherClient \/ ServerDown \/ ServerUp
  PROVE  LinkInv'
<1> USE DEF LinkInv, wireVars, callVars, cacheVars, historyVars
<1>1. CASE OtherClient
  <2>1. /\ UNCHANGED <<sent, answers, link, call, script, waiting, got,
                       mpd_connected, slipped>>
        /\ Command' = Command
        /\ Witness(player')
    BY <1>1 DEF OtherClient, Command
  <2>2. Building => during' = during \cup {player'}
    BY <2>1 DEF Witness
  <2>3. GoneEmpty' /\ CachedIdle'
    BY <2>1 DEF GoneEmpty, CachedIdle
  <2>4. BuildsConnected'
    BY <2>1, <2>2 DEF BuildsConnected, Building
  <2>5. Answered => Answered'
    BY <2>1, <2>2 DEF Answered, Building
  <2>6. Paired'
    BY <2>1, <2>5 DEF Paired, Good, Asked
  <2>7. GotHappened'
    BY <2>1, <2>2 DEF GotHappened, Building, StatePath
  <2>8. QED BY <2>3, <2>4, <2>6, <2>7
<1>2. CASE ServerDown
  <2>1. /\ UNCHANGED <<player, call, waiting, got, mpd_connected, slipped,
                       during>>
        /\ sent' = <<>> /\ answers' = <<>>
        /\ link' # "open"
    BY <1>2 DEF ServerDown
  <2>2. GoneEmpty' /\ CachedIdle' /\ Paired'
    BY <2>1 DEF GoneEmpty, CachedIdle, Paired, Good
  <2>3. BuildsConnected'
    BY <2>1 DEF BuildsConnected, Building
  <2>4. GotHappened'
    BY <2>1 DEF GotHappened
  <2>5. QED BY <2>2, <2>3, <2>4
<1>3. CASE ServerUp
  <2>1. /\ UNCHANGED <<player, sent, answers, link, call, script, waiting, got,
                       mpd_connected, slipped, during>>
        /\ Command' = Command
    BY <1>3 DEF ServerUp, Command
  <2>2. QED BY <2>1 DEF GoneEmpty, BuildsConnected, CachedIdle, Paired, Good,
                        GotHappened, Building, Asked, Answered
<1>4. QED BY <1>1, <1>2, <1>3

LEMMA BeginKeeps ==
  ASSUME Wire, LinkInv, Connect \/ BuildState \/ Press \/ Send
  PROVE  LinkInv'
<1> USE DEF LinkInv, mpdVars, wireVars, callVars, cacheVars, historyVars
<1>1. CASE Connect
  BY <1>1 DEF Connect, GoneEmpty, BuildsConnected, CachedIdle, Paired, Good,
              GotHappened, Building, StatePath
<1>2. CASE BuildState
  BY <1>2 DEF BuildState, Begin, GoneEmpty, BuildsConnected, CachedIdle, Paired,
              Good, GotHappened, Building, StatePath
<1>3. CASE Press
  <2>1. /\ call = "free" /\ call' \in {"play_pause", "adjust", "do"}
        /\ waiting' = FALSE
        /\ UNCHANGED <<sent, answers, link, mpd_connected, slipped>>
    BY <1>3 DEF Press, Begin
  <2>2. QED BY <2>1 DEF GoneEmpty, BuildsConnected, CachedIdle, Paired, Good,
                        GotHappened, Building, StatePath
<1>4. CASE Send
  <2>1. /\ call \notin {"free", "cached"} /\ ~waiting /\ waiting' = TRUE
        /\ link = "open"
        /\ sent' = Append(sent, Command)
        /\ UNCHANGED <<player, answers, link, call, got, mpd_connected, slipped,
                       during>>
        /\ Command' = Command
    BY <1>4 DEF Send, Command
  <2>2. GoneEmpty' /\ CachedIdle' /\ BuildsConnected' /\ GotHappened'
    BY <2>1 DEF GoneEmpty, CachedIdle, BuildsConnected, Building, GotHappened
  <2>3. Paired'
    <3> SUFFICES ASSUME Good' PROVE Asked'
      BY <2>1 DEF Paired
    <3>1. sent = <<>> /\ answers = <<>>
      BY <2>1 DEF Paired, Good
    <3>2. QED BY <2>1, <3>1 DEF Asked
  <2>4. QED BY <2>2, <2>3
<1>5. QED BY <1>1, <1>2, <1>3, <1>4

\* A call that ends, goes on with orders, or goes on to the song.
LEMMA GoOnKeeps ==
  ASSUME LinkInv,
         \/ call' \in {"free", "do"}
         \/ /\ call' = "song" /\ call \in {"cached", "playlist"}
            /\ UNCHANGED <<got, during, mpd_connected>>,
         waiting' = FALSE,
         UNCHANGED <<player, link, sent>>,
         slipped => slipped',
         link # "open" => answers' = <<>>,
         Good' => sent = <<>> /\ answers' = <<>>
  PROVE  LinkInv'
<1> USE DEF LinkInv
<1>1. GoneEmpty' /\ CachedIdle' /\ Paired'
  BY DEF GoneEmpty, CachedIdle, Paired
<1>2. BuildsConnected'
  BY DEF BuildsConnected, Building, StatePath
<1>3. GotHappened'
  BY DEF GotHappened
<1>4. QED BY <1>1, <1>2, <1>3

\* Where a call stands after the playlist time, and after an exchange failed.
LEMMA AfterPlaylistGoesOn ==
  ASSUME AfterPlaylist
  PROVE  \/ call' = "free"
         \/ call' = "song" /\ UNCHANGED <<got, during>>
<1>1. Finish(Unknown) => call' = "free"
  BY DEF Finish
<1>2. AskSong => call' = "song" /\ UNCHANGED <<got, during>>
  BY Zenon DEF AskSong
<1>3. QED BY <1>1, <1>2, Zenon DEF AfterPlaylist

LEMMA GiveUpGoesOn ==
  ASSUME GiveUp, LinkInv
  PROVE  /\ waiting' = FALSE
         /\ \/ call' = "free"
            \/ /\ call' = "song" /\ call \in {"cached", "playlist"}
               /\ UNCHANGED <<got, during, mpd_connected>>
         /\ mpd_connected' => mpd_connected /\ call # "status"
<1>1. CASE call = "playlist"
  <2>1. waiting' = FALSE /\ AfterPlaylist /\ mpd_connected
        /\ mpd_connected' = (mpd_connected /\ call # "status")
    BY <1>1 DEF GiveUp, LinkInv, BuildsConnected, Building, StatePath
  <2>2. QED BY <1>1, <2>1, AfterPlaylistGoesOn
<1>2. CASE call # "playlist"
  BY <1>2 DEF GiveUp, Finish, EndCall
<1>3. QED BY <1>1, <1>2

LEMMA ReadKeeps ==
  ASSUME Wire, LinkInv, Exchange, ~Send
  PROVE  LinkInv'
<1> USE DEF mpdVars, wireVars, callVars, cacheVars, historyVars,
            unchangedByFailure
<1>1. Read => answers' = Tail(answers) /\ waiting' = FALSE /\ link = "open"
  BY DEF Read, LinkInv, GoneEmpty
<1>2. ASSUME ReadOk \/ Read, call # "free", Good
      PROVE  sent = <<>> /\ answers' = <<>>
  BY <1>2, ReadOwn DEF ReadOk, Good
<1>3. CASE ReadStatus
  <2>1. /\ call = "status" /\ ReadOk /\ Read
        /\ call' \in {"cached", "playlist"}
        /\ got' = StatusFrom(Head(answers))
        /\ UNCHANGED <<player, sent, link, mpd_connected, slipped, during>>
    BY <1>3 DEF ReadStatus, ReadOk
  <2>2. GoneEmpty' /\ CachedIdle'
    BY <1>1, <2>1 DEF GoneEmpty, CachedIdle
  <2>3. BuildsConnected'
    BY <2>1 DEF LinkInv, BuildsConnected, Building, StatePath
  <2>4. Paired'
    BY <1>1, <1>2, <2>1 DEF Paired, Good
  <2>5. GotHappened'
    <3> SUFFICES ASSUME ~slipped PROVE \E p \in during : p.state = got'.state
      BY <2>1 DEF GotHappened
    <3>1. mpd_connected
      BY <2>1 DEF LinkInv, BuildsConnected, Building, StatePath
    <3>2. Head(answers).to = "status" /\ Head(answers).player \in during
      BY <2>1, <3>1, ReadOwn DEF Command, StatePath
    <3>3. got'.state = Head(answers).player.state
      BY <2>1, <3>2 DEF StatusFrom
    <3>4. QED BY <3>2, <3>3
  <2>6. QED BY <2>2, <2>3, <2>4, <2>5 DEF LinkInv
<1>4. CASE UseCache
  <2>1. /\ call = "cached" /\ AfterPlaylist
        /\ UNCHANGED <<player, sent, answers, link, waiting, mpd_connected,
                       slipped>>
    BY <1>4 DEF UseCache
  <2>2. waiting = FALSE
    BY <2>1 DEF LinkInv, CachedIdle
  <2>3. QED BY <2>1, <2>2, AfterPlaylistGoesOn, GoOnKeeps
            DEF LinkInv, GoneEmpty, Paired, Good
<1>5. CASE ReadPlaylist
  <2>1. /\ call = "playlist" /\ ReadOk /\ Read /\ AfterPlaylist
        /\ UNCHANGED <<player, sent, link, mpd_connected, slipped>>
    BY <1>5 DEF ReadPlaylist, ReadOk
  <2>2. QED BY <1>1, <1>2, <2>1, AfterPlaylistGoesOn, GoOnKeeps DEF Good
<1>6. CASE ReadSong
  <2>1. /\ call = "song" /\ ReadOk /\ Read /\ call' = "free"
        /\ UNCHANGED <<player, sent, link, mpd_connected, slipped>>
    BY <1>6 DEF ReadSong, ReadOk, Finish
  <2>2. QED BY <1>1, <1>2, <2>1, GoOnKeeps DEF Good
<1>7. CASE ReadAsked \/ ReadDone
  <2>1. /\ call # "free" /\ ReadOk /\ Read /\ call' \in {"free", "do"}
        /\ UNCHANGED <<player, sent, link, mpd_connected, slipped>>
    BY <1>7 DEF ReadAsked, ReadDone, ReadOk
  <2>2. QED BY <1>1, <1>2, <2>1, GoOnKeeps DEF Good
<1>8. CASE FailBroken
  <2>1. /\ link = "broken" /\ GiveUp
        /\ UNCHANGED <<player, sent, link, answers, slipped>>
    BY <1>8 DEF FailBroken
  <2>2. QED BY <2>1, GiveUpGoesOn, GoOnKeeps DEF LinkInv, GoneEmpty, Good
<1>9. CASE FailRefused
  <2>1. /\ Read /\ GiveUp
        /\ UNCHANGED <<player, sent, link, slipped>>
    BY <1>9 DEF FailRefused
  <2>2. Good' => Good
    BY <2>1, GiveUpGoesOn DEF Good
  <2>3. call # "free" => (Good' => sent = <<>> /\ answers' = <<>>)
    BY <1>2, <2>1, <2>2
  <2>4. call = "free" => (Good' => sent = <<>> /\ answers' = <<>>)
    BY <2>1, <2>2 DEF LinkInv, Paired, Read
  <2>5. QED BY <1>1, <2>1, <2>3, <2>4, GiveUpGoesOn, GoOnKeeps
<1>10. QED BY <1>3, <1>4, <1>5, <1>6, <1>7, <1>8, <1>9 DEF Exchange

LEMMA TimeoutKeeps ==
  ASSUME Wire, LinkInv, FailTimeout
  PROVE  LinkInv'
<1>1. /\ waiting /\ answers = <<>> /\ link = "open" /\ GiveUp
      /\ slipped' = (slipped \/ call # "status")
      /\ UNCHANGED <<player, sent, link, answers>>
  BY DEF FailTimeout, unchangedByFailure, mpdVars
<1>2. ~Good'
  BY <1>1, GiveUpGoesOn DEF Good
<1>3. QED BY <1>1, <1>2, GiveUpGoesOn, GoOnKeeps

LEMMA LinkInvHolds == Spec => []LinkInv
<1>1. Wire /\ LinkInv /\ [Next]_vars => LinkInv'
  <2> SUFFICES ASSUME Wire, LinkInv, [Next]_vars PROVE LinkInv'
    OBVIOUS
  <2>1. CASE UNCHANGED vars
    BY <2>1 DEF vars, mpdVars, wireVars, callVars, cacheVars, historyVars,
                LinkInv, GoneEmpty, BuildsConnected, CachedIdle, Paired, Good,
                GotHappened, Building, Asked, Answered, Command
  <2>2. QED BY <2>1, ServeKeeps, OthersKeep, BeginKeeps, ReadKeeps,
               TimeoutKeeps DEF Next
<1>2. QED BY <1>1, LinkInvInit, WireHolds, PTL DEF Spec

\* Between two calls nothing is under way on a connection that is thought
\* good, unless a read timed out that drops no connection.
THEOREM LinkInStep == Spec => []InStep
<1>1. LinkInv => InStep
  BY DEF LinkInv, Paired, Good, InStep
<1>2. QED BY <1>1, LinkInvHolds, PTL

-----------------------------------------------------------------------------
\* What is shown by a step that ends the building of a state.
ShownWell ==
  /\ \E p \in during : p.state = shown'.state
  /\ shown'.title # Unknown => \E p \in during : p.song = shown'.title

\* The ways a state for the display is finished: without a title, after the
\* playlist time, after a failure, and with the title of the song.
LEMMA FinishUnknownShows ==
  ASSUME Finish(Unknown), LinkInv, ~slipped,
         call \in {"cached", "playlist", "song"}
  PROVE  ShownWell
BY DEF Finish, LinkInv, GotHappened, ShownWell

LEMMA AfterPlaylistShows ==
  ASSUME AfterPlaylist, LinkInv, ~slipped, call \in {"cached", "playlist"},
         shown' # shown
  PROVE  ShownWell
<1>1. Finish(Unknown)
  BY DEF AfterPlaylist, AskSong
<1>2. QED BY <1>1, FinishUnknownShows

LEMMA GiveUpShows ==
  ASSUME GiveUp, LinkInv, ~slipped, shown' # shown
  PROVE  ShownWell
<1>1. CASE call = "playlist"
  BY <1>1, AfterPlaylistShows DEF GiveUp
<1>2. CASE call = "song"
  BY <1>2, FinishUnknownShows DEF GiveUp
<1>3. CASE call \notin {"playlist", "song"}
  BY <1>3 DEF GiveUp, EndCall
<1>4. QED BY <1>1, <1>2, <1>3

LEMMA ReadSongShows ==
  ASSUME Wire, LinkInv, ReadSong, ~slipped
  PROVE  ShownWell
<1> DEFINE a == Head(answers)
<1>1. /\ call = "song" /\ Read
      /\ shown' = [state |-> got.state, title |-> TitleFrom(a)]
  BY DEF ReadSong, ReadOk, Finish
<1>2. mpd_connected
  BY <1>1 DEF LinkInv, BuildsConnected, Building, StatePath
<1>3. a.to = "currentsong" /\ a.player \in during
  BY <1>1, <1>2, ReadOwn DEF Command, StatePath
<1>4. TitleFrom(a) \in {a.player.song, Unknown}
  BY <1>3, Zenon DEF TitleFrom
<1>5. \E p \in during : p.state = got.state
  BY <1>1 DEF LinkInv, GotHappened
<1>6. QED BY <1>1, <1>3, <1>4, <1>5 DEF ShownWell

\* What the display is told was true of the player during the call that built
\* it, state and title each, for any interleaving with orders of the display
\* and acts of other clients.
THEOREM ShownWasTrue == Spec => ShownHappened
<1>1. ASSUME Wire, LinkInv, [Next]_vars, shown' # shown, ~slipped'
      PROVE  ShownWell
  <2> USE DEF mpdVars, wireVars, callVars, cacheVars, historyVars
  <2>1. ~(Serve \/ OtherClient \/ ServerDown \/ ServerUp)
    BY <1>1 DEF Serve, OtherClient, ServerDown, ServerUp
  <2>2. ~(Connect \/ BuildState \/ Press \/ Send)
    BY <1>1 DEF Connect, BuildState, Press, Send
  <2>3. ~(ReadStatus \/ ReadAsked \/ ReadDone)
    BY <1>1 DEF ReadStatus, ReadAsked, ReadDone
  <2>4. UNCHANGED vars => FALSE
    BY <1>1 DEF vars
  <2>5. CASE UseCache
    BY <1>1, <2>5, AfterPlaylistShows DEF UseCache
  <2>6. CASE ReadPlaylist
    BY <1>1, <2>6, AfterPlaylistShows DEF ReadPlaylist
  <2>7. CASE ReadSong
    BY <1>1, <2>7, ReadSongShows DEF ReadSong
  <2>8. CASE FailBroken \/ FailRefused \/ FailTimeout
    <3>1. GiveUp /\ ~slipped
      <4>1. CASE FailBroken \/ FailRefused
        BY <1>1, <4>1 DEF FailBroken, FailRefused
      <4>2. CASE FailTimeout
        BY <1>1, <4>2, Zenon DEF FailTimeout
      <4>3. QED BY <2>8, <4>1, <4>2
    <3>2. QED BY <1>1, <3>1, GiveUpShows
  <2>9. QED
    BY <1>1, <2>1, <2>2, <2>3, <2>4, <2>5, <2>6, <2>7, <2>8 DEF Next, Exchange
<1>2. Wire /\ LinkInv /\ [Next]_vars
        => [shown' # shown /\ ~slipped' =>
              /\ \E p \in during : p.state = shown'.state
              /\ shown'.title # Unknown =>
                   \E p \in during : p.song = shown'.title]_vars
  BY <1>1 DEF ShownWell
<1>3. QED BY <1>2, WireHolds, LinkInvHolds, PTL DEF Spec, ShownHappened

-----------------------------------------------------------------------------
\* How many commands the call that holds the lock still sends at most: three
\* queries for a state, a status and an order, or the orders of a command.
\* Each takes two steps, the sending and the reading of the answer.
Rest ==
  CASE call = "free" -> 0
    [] call = "status" -> 3
    [] call \in {"playlist", "cached", "play_pause", "adjust"} -> 2
    [] call = "song" -> 1
    [] OTHER -> Len(script)

Left == IF waiting /\ call # "free" THEN 2 * Rest - 1 ELSE 2 * Rest

\* The lock is never held for longer than six steps, three waits for an answer
\* at most, whatever MPD answers or fails to, and whatever comes of the
\* connection: every step of a call brings it closer to its end, and no step
\* of another actor takes it further away or nearer (build_state_json and
\* handle_command have no loop).
LockIsShort ==
  IF call = "free" THEN Left' <= 6
  ELSE IF Exchange \/ FailTimeout THEN Left' < Left
  ELSE UNCHANGED Left

\* A call that is in progress has a command to send or an answer to read.
LEMMA RestIsNatural ==
  ASSUME Wire
  PROVE  /\ Rest \in Nat
         /\ call # "free" => Rest > 0
         /\ Left \in Nat
         /\ call # "free" => Left > 0
<1>1. Len(script) \in Nat /\ (call = "do" => Len(script) > 0)
  BY DEF Wire
<1>2. call \in {"free", "cached", "do", "play_pause", "adjust", "status",
                "playlist", "song"}
  BY DEF Wire, Calls, StatePath
<1>3. Rest \in Nat /\ (call # "free" => Rest > 0)
  BY <1>1, <1>2 DEF Rest
<1>4. QED BY <1>3 DEF Left

\* An exchange that failed ends the call, or goes on from the playlist to
\* the song.
LEMMA GiveUpShortens ==
  ASSUME Wire, GiveUp, call \notin {"free", "cached"}
  PROVE  Left' < Left
<1>1. waiting' = FALSE
  BY DEF GiveUp
<1>2. CASE call = "playlist"
  <2>1. call' \in {"free", "song"}
    BY <1>2, AfterPlaylistGoesOn DEF GiveUp
  <2>2. QED BY <1>1, <1>2, <2>1 DEF Left, Rest
<1>3. CASE call # "playlist"
  <2>1. call' = "free"
    BY <1>3 DEF GiveUp, Finish, EndCall
  <2>2. Left' = 0
    BY <1>1, <2>1 DEF Left, Rest
  <2>3. QED BY <2>2, RestIsNatural
<1>4. QED BY <1>2, <1>3

THEOREM LockHeldShortly == Spec => [][LockIsShort]_vars
<1>1. ASSUME Wire, Flags, LinkInv, Next PROVE LockIsShort
  <2> USE DEF mpdVars, wireVars, callVars, cacheVars, historyVars
  <2>0. waiting \in BOOLEAN
    BY <1>1 DEF Flags
  <2>1. /\ Rest \in Nat /\ Left \in Nat
        /\ call # "free" => Rest > 0 /\ Left > 0
    BY <1>1, RestIsNatural
  <2>2. CASE UNCHANGED <<call, script, waiting>> /\ ~Exchange /\ ~FailTimeout
    <3>1. Rest' = Rest
      BY <2>2 DEF Rest
    <3>2. Left' = Left
      BY <2>2, <3>1 DEF Left, Rest
    <3>3. call = "free" => Left = 0
      BY DEF Left, Rest
    <3>4. QED BY <2>1, <2>2, <3>2, <3>3 DEF LockIsShort
  <2>3. CASE call = "free" /\ ~UNCHANGED <<call, script, waiting>>
    <3>1. CASE BuildState
      BY <3>1 DEF BuildState, Begin, Left, Rest, LockIsShort
    <3>2. CASE Press
      <4>1. waiting' = FALSE
        BY <3>2 DEF Press, Begin
      <4>2. CASE call' \in {"play_pause", "adjust"}
        BY <2>3, <4>1, <4>2 DEF LockIsShort, Left, Rest
      <4>3. CASE call' = "do"
        <5>1. script' \in {<<"next">>, <<"set">>, <<"stop">>,
                           <<"play 0", "stop">>}
          BY <3>2, <4>3 DEF Press, Begin
        <5>2. Len(script') \in {1, 2}
          <6>1. \A a, b : Len(<<a>>) = 1 /\ Len(<<a, b>>) = 2
            OBVIOUS
          <6>2. QED BY <5>1, <6>1
        <5>3. Rest' = Len(script')
          BY <4>3 DEF Rest
        <5>4. Left' = 2 * Rest'
          BY <4>1 DEF Left
        <5>5. Left' <= 6
          BY <5>2, <5>3, <5>4
        <5>6. QED BY <2>3, <5>5 DEF LockIsShort
      <4>4. QED BY <3>2, <4>2, <4>3 DEF Press, Begin
    <3>3. CASE Serve \/ OtherClient \/ ServerDown \/ ServerUp \/ Connect
      BY <2>3, <3>3 DEF Serve, OtherClient, ServerDown, ServerUp, Connect
    <3>4. CASE Exchange \/ FailTimeout
      <4>1. CASE FailRefused \/ FailTimeout
        <5>1. GiveUp
          BY <4>1 DEF FailRefused, FailTimeout
        <5>2. call' = "free"
          BY <2>3, <5>1 DEF GiveUp, EndCall
        <5>3. QED BY <2>3, <5>2 DEF LockIsShort, Left, Rest
      <4>2. CASE ~FailRefused /\ ~FailTimeout
        BY <2>3, <3>4, <4>2
        DEF Exchange, Send, ReadStatus, UseCache, ReadPlaylist, ReadSong,
            ReadAsked, ReadDone, FailBroken
      <4>3. QED BY <4>1, <4>2
    <3>5. QED BY <1>1, <3>1, <3>2, <3>3, <3>4 DEF Next
  <2>4. CASE call # "free" /\ (Exchange \/ FailTimeout)
    <3>1. SUFFICES Left' < Left
      BY <2>4 DEF LockIsShort
    <3>2. CASE Send
      BY <2>1, <2>4, <3>2 DEF Send, Left, Rest
    <3>3. CASE ReadStatus
      BY <2>0, <3>3 DEF ReadStatus, ReadOk, Read, Left, Rest
    <3>4. CASE UseCache
      <4>1. call = "cached" /\ waiting = FALSE /\ waiting' = FALSE
        BY <1>1, <2>0, <3>4 DEF UseCache, LinkInv, CachedIdle
      <4>2. call' \in {"free", "song"}
        BY <3>4, AfterPlaylistGoesOn DEF UseCache
      <4>3. QED BY <4>1, <4>2 DEF Left, Rest
    <3>5. CASE ReadPlaylist
      <4>1. call = "playlist" /\ waiting /\ waiting' = FALSE
        BY <3>5 DEF ReadPlaylist, ReadOk, Read
      <4>2. call' \in {"free", "song"}
        BY <3>5, AfterPlaylistGoesOn DEF ReadPlaylist
      <4>3. QED BY <4>1, <4>2 DEF Left, Rest
    <3>6. CASE ReadSong
      <4>1. call = "song" /\ waiting /\ call' = "free"
        BY <3>6 DEF ReadSong, ReadOk, Read, Finish
      <4>2. QED BY <4>1 DEF Left, Rest
    <3>7. CASE ReadAsked
      <4>1. /\ call \in {"play_pause", "adjust"} /\ waiting
            /\ waiting' = FALSE /\ call' = "do"
        BY <3>7 DEF ReadAsked, ReadOk, Read
      <4>2. Len(script') = 1
        BY <3>7 DEF ReadAsked
      <4>3. QED BY <4>1, <4>2 DEF Left, Rest
    <3>8. CASE ReadDone
      <4>1. /\ call = "do" /\ waiting /\ waiting' = FALSE
            /\ call' = IF script' = <<>> THEN "free" ELSE "do"
        BY <3>8 DEF ReadDone, ReadOk, Read
      <4>2. Len(script') = Len(script) - 1
        BY <1>1, <3>8 DEF ReadDone, Wire
      <4>3. QED BY <2>1, <4>1, <4>2 DEF Left, Rest
    <3>9. CASE FailBroken \/ FailRefused \/ FailTimeout
      <4>1. GiveUp /\ call \notin {"free", "cached"}
        BY <1>1, <2>4, <3>9 DEF FailBroken, FailRefused, FailTimeout, Read,
                                LinkInv, CachedIdle
      <4>2. QED BY <1>1, <4>1, GiveUpShortens
    <3>10. QED
      BY <2>4, <3>2, <3>3, <3>4, <3>5, <3>6, <3>7, <3>8, <3>9 DEF Exchange
  <2>5. CASE call # "free" /\ ~Exchange /\ ~FailTimeout
    <3>1. UNCHANGED <<call, script, waiting>>
      BY <1>1, <2>5 DEF Next, Serve, OtherClient, ServerDown, ServerUp, Connect,
                        BuildState, Press, Begin
    <3>2. QED BY <2>2, <2>5, <3>1
  <2>6. CASE call = "free" /\ UNCHANGED <<call, script, waiting>>
    BY <2>6 DEF LockIsShort, Left, Rest
  <2>7. QED BY <2>3, <2>4, <2>5, <2>6
<1>2. Wire /\ Flags /\ LinkInv /\ [Next]_vars => [LockIsShort]_vars
  BY <1>1
<1>3. QED BY <1>2, WireHolds, FlagsHold, LinkInvHolds, PTL DEF Spec
=============================================================================

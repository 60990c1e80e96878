---------------------------- MODULE MpdLoopProofs ----------------------------
(***************************************************************************)
(* Proofs about MpdLoop, for every interval and every pair of delays.      *)
(***************************************************************************)
EXTENDS MpdLoop, TLAPS

LEMMA Least_Greatest ==
  ASSUME NEW a \in Int, NEW b \in Int
  PROVE  /\ Least(a, b) \in {a, b} /\ Least(a, b) <= a /\ Least(a, b) <= b
         /\ Greatest(a, b) \in {a, b}
         /\ Greatest(a, b) >= a /\ Greatest(a, b) >= b
BY DEF Least, Greatest

LEMMA HorizonType ==
  /\ Horizon \in Nat /\ Horizon >= UpdateInterval /\ Horizon >= MaxDelay
  /\ Gap \in Nat /\ Gap <= UpdateInterval /\ Gap <= Horizon
  /\ Least(2 * BaseDelay, MaxDelay) \in BaseDelay..MaxDelay
  /\ Gap <= Least(2 * BaseDelay, MaxDelay)
BY DelaysAssumption, Least_Greatest DEF Horizon, Gap, Greatest, Least

\* What a unit of time does to the clocks: their order stays, and so does
\* having passed a mark.
LEMMA LaterClock ==
  ASSUME NEW a \in Clock
  PROVE  /\ Later(a) \in Clock
         /\ Later(a) = None <=> a = None
         /\ a # None => Later(a) >= a
         /\ \A b \in Clock : a # None /\ a <= b => Later(a) <= Later(b)
BY HorizonType DEF Clock, Later, Least, None

-----------------------------------------------------------------------------
\* Type correctness: the delay stays between the base and the limit, whatever
\* is doubled.
Times ==
  /\ pc \in {"start"} \cup Loop \cup Over
  /\ client \in {"none", "live", "stale"}
  /\ server \in {"up", "down", "sick"}
  /\ last_update \in Clock
  /\ last_attempt \in Clock
  /\ newest \in Clock
  /\ before \in Clock
  /\ current_delay \in BaseDelay..MaxDelay

FlagOK == mpd_connected \in BOOLEAN

LEMMA TimesHold == Spec => []Times
<1> USE DelaysAssumption, HorizonType DEF Loop, Over
<1>0. 0 \in Clock /\ None \in Clock
  BY DEF Clock
<1>1. Init => Times
  BY <1>0 DEF Init, Times
<1>2. Times /\ [Next]_vars => Times'
  <2> SUFFICES ASSUME Times, [Next]_vars PROVE Times'
    OBVIOUS
  <2> USE DEF Times, linkVars, clocks
  <2>1. CASE Start
    BY <2>1 DEF Start, MpdConnect
  <2>2. CASE StatusEarly \/ Commands \/ Connected \/ TooEarly
    BY <2>2 DEF StatusEarly, Commands, Connected, TooEarly
  <2>3. CASE StatusDue
    <3>1. /\ last_update' = 0 /\ pc' = "commands"
          /\ UNCHANGED <<client, server, last_attempt, newest, before,
                         current_delay>>
      BY <2>3 DEF StatusDue
    <3>2. QED BY <1>0, <3>1
  <2>4. CASE Attempt
    <3>1. /\ client' \in {"none", "live"} /\ pc' = "sleep"
          /\ BackOff \/ Reset
          /\ newest' = 0 /\ before' = newest
          /\ UNCHANGED <<server, last_update>>
      BY <2>4 DEF Attempt, MpdConnect
    <3>2. last_attempt' \in Clock /\ current_delay' \in BaseDelay..MaxDelay
      BY <1>0, <3>1 DEF BackOff, Reset, Least
    <3>3. QED BY <1>0, <3>1, <3>2
  <2>5. Elapse => /\ last_update' \in Clock /\ last_attempt' \in Clock
                  /\ newest' \in Clock /\ before' \in Clock
    BY LaterClock DEF Elapse
  <2>6. CASE Sleep \/ Block
    BY <2>5, <2>6 DEF Sleep, Block
  <2>7. CASE Signal \/ ServerChange
    BY <2>7 DEF Signal, ServerChange
  <2>8. CASE UNCHANGED vars
    BY <2>8 DEF vars
  <2>9. QED
    BY <2>1, <2>2, <2>3, <2>4, <2>6, <2>7, <2>8 DEF Next, BridgeStep, Ended
<1>3. QED BY <1>1, <1>2, PTL DEF Spec

LEMMA FlagHolds == Spec => []FlagOK
<1>1. Init => FlagOK
  BY Zenon DEF Init, FlagOK
<1>2. FlagOK /\ [Next]_vars => FlagOK'
  <2> SUFFICES ASSUME FlagOK, [Next]_vars PROVE FlagOK'
    OBVIOUS
  <2>1. CASE StatusDue
    <3>1. (mpd_connected /\ (client = "none" \/ (client = "live" /\ server = "up")))
            \in BOOLEAN
      OBVIOUS
    <3>2. QED BY <2>1, <3>1, Zenon DEF StatusDue, FlagOK
  <2>2. CASE ~StatusDue
    BY <2>2, Zenon DEF FlagOK, Next, BridgeStep, Start, MpdConnect,
         StatusEarly, Commands, Connected, TooEarly, Attempt, Sleep, Block,
         Signal, ServerChange, Ended, linkVars, vars
  <2>3. QED BY <2>1, <2>2
<1>3. QED BY <1>1, <1>2, PTL DEF Spec

THEOREM TypeCorrect == Spec => []TypeOK
<1>1. Times /\ FlagOK => TypeOK
  BY DEF Times, FlagOK, TypeOK
<1>2. QED BY <1>1, TimesHold, FlagHolds, PTL

-----------------------------------------------------------------------------
\* Why the attempts keep apart.  After one that failed the back-off holds the
\* next; after one that succeeded only a query that fails can lead to the
\* next, and queries are UpdateInterval apart.

Ordered == newest # None /\ before # None => newest <= before

AfterFailure ==
  last_attempt # None =>
    /\ newest = last_attempt
    /\ current_delay >= Least(2 * BaseDelay, MaxDelay)

\* The attempt succeeded and the connection was lost again: by a query.
AfterLoss ==
  ~mpd_connected /\ last_attempt = None /\ newest # None =>
    /\ last_update # None /\ last_update <= newest
    /\ before # None => before >= Gap

WhileConnected ==
  mpd_connected /\ newest # None /\ before # None =>
    \/ before >= Gap
    \/ last_update # None /\ last_update <= before

Fresh == pc = "start" => newest = None

Apart == Fresh /\ Ordered /\ AfterFailure /\ AfterLoss /\ WhileConnected

\* An attempt that is made comes late enough after the last but one.
LEMMA AttemptIsLate ==
  ASSUME Times, Apart, Attempt
  PROVE  /\ newest # None /\ before # None => before >= Gap
         /\ newest # None =>
              \/ newest >= Gap
              \/ last_update # None /\ last_update <= newest
<1> USE HorizonType DEF Apart, Times, Clock, None
<1>1. CASE last_attempt = None
  BY <1>1 DEF Attempt, AfterLoss
<1>2. CASE last_attempt # None
  <2>1. newest = last_attempt /\ newest >= Gap
    BY <1>2 DEF Attempt, AfterFailure
  <2>2. QED BY <2>1 DEF Ordered
<1>3. QED BY <1>1, <1>2

LEMMA ApartHolds == Spec => []Apart
<1>1. Init => Apart
  BY DEF Init, Apart, Fresh, Ordered, AfterFailure, AfterLoss, WhileConnected
<1>2. Times /\ Apart /\ [Next]_vars => Apart'
  <2> SUFFICES ASSUME Times, Apart, [Next]_vars PROVE Apart'
    OBVIOUS
  <2> USE HorizonType, DelaysAssumption
  <2> USE DEF linkVars, clocks
  <2>0. Fresh'
    BY DEF Apart, Fresh, Times, Next, BridgeStep, Start, StatusEarly,
           StatusDue, Commands, Connected, TooEarly, Attempt, Sleep, Block,
           Signal, ServerChange, Ended, Loop, vars
  <2>1. ASSUME UNCHANGED <<mpd_connected, clocks, current_delay>>
        PROVE  Apart'
    BY <2>0, <2>1 DEF Apart, Ordered, AfterFailure, AfterLoss, WhileConnected
  <2>2. CASE StatusEarly \/ Commands \/ Connected \/ TooEarly \/ Signal
               \/ ServerChange \/ UNCHANGED vars
    BY <2>1, <2>2 DEF StatusEarly, Commands, Connected, TooEarly, Signal,
                      ServerChange, vars
  <2>3. CASE Start
    <3>1. UNCHANGED <<clocks, current_delay>>
      BY <2>3 DEF Start
    <3>2. newest = None
      BY <2>3 DEF Start, Apart, Fresh
    <3>3. QED BY <2>0, <3>1, <3>2
          DEF Apart, Ordered, AfterFailure, AfterLoss, WhileConnected
  <2>4. CASE StatusDue
    <3>1. /\ last_update' = 0
          /\ mpd_connected' => mpd_connected
          /\ UNCHANGED <<last_attempt, newest, before, current_delay>>
      BY <2>4, Zenon DEF StatusDue
    <3>2. /\ newest # None => 0 <= newest
          /\ before # None => 0 <= before
          /\ None # 0
      BY DEF Times, Clock, None
    <3>3. last_update = None \/ last_update >= UpdateInterval
      BY <2>4 DEF StatusDue, Due
    <3>4. mpd_connected /\ newest # None /\ before # None => before >= Gap
      BY <3>3 DEF Apart, WhileConnected, Times, Clock, None
    <3>5. Ordered' /\ AfterFailure'
      BY <3>1 DEF Apart, Ordered, AfterFailure
    <3>6. AfterLoss'
      BY <3>1, <3>2, <3>4 DEF Apart, AfterLoss
    <3>7. WhileConnected'
      BY <3>1, <3>4 DEF WhileConnected
    <3>8. QED BY <2>0, <3>5, <3>6, <3>7 DEF Apart
  <2>5. CASE Attempt
    <3>1. /\ newest' = 0 /\ before' = newest
          /\ UNCHANGED last_update
          /\ ~mpd_connected
      BY <2>5 DEF Attempt
    <3>2. Ordered'
      BY <3>1 DEF Ordered, Times, Clock, None
    <3>3. CASE server = "down"
      <4>1. /\ last_attempt' = 0 /\ UNCHANGED mpd_connected
            /\ current_delay' = Least(2 * current_delay, MaxDelay)
        BY <2>5, <3>3 DEF Attempt, MpdConnect, BackOff
      <4>2. current_delay' >= Least(2 * BaseDelay, MaxDelay)
        BY <4>1 DEF Least, Times
      <4>3. QED BY <2>0, <3>1, <3>2, <4>1, <4>2
            DEF Apart, AfterFailure, AfterLoss, WhileConnected, None
    <3>4. CASE server # "down"
      <4>1. last_attempt' = None /\ mpd_connected' = TRUE
        BY <2>5, <3>4 DEF Attempt, MpdConnect, Reset
      <4>2. QED BY <2>0, <2>5, <3>1, <3>2, <4>1, AttemptIsLate
            DEF Apart, AfterFailure, AfterLoss, WhileConnected
    <3>5. QED BY <3>3, <3>4
  <2>6. CASE Sleep \/ Block
    <3>1. /\ last_update' = Later(last_update)
          /\ last_attempt' = Later(last_attempt)
          /\ newest' = Later(newest) /\ before' = Later(before)
          /\ UNCHANGED <<mpd_connected, current_delay>>
      BY <2>6 DEF Sleep, Block, Elapse
    <3>2. \A a \in Clock : /\ Later(a) = None <=> a = None
                           /\ a # None => Later(a) >= a
                           /\ \A b \in Clock :
                                a # None /\ a <= b => Later(a) <= Later(b)
      BY LaterClock
    <3>3. before # None /\ before >= Gap => before' >= Gap
      BY <3>1, <3>2 DEF Times, Clock, None, Later, Least
    <3>4. QED BY <2>0, <3>1, <3>2, <3>3
          DEF Apart, Ordered, AfterFailure, AfterLoss, WhileConnected, Times
  <2>7. QED
    BY <2>2, <2>3, <2>4, <2>5, <2>6 DEF Next, BridgeStep, Ended
<1>3. QED BY <1>1, <1>2, TimesHold, PTL DEF Spec

\* Of three attempts the first and the last are at least Gap apart: an MPD
\* that accepts connections and then fails is not connected to in a loop.
THEOREM AttemptsKeepApart == Spec => NoStorm
<1>1. Times /\ Apart /\ [Next]_vars =>
        [Attempt => newest = None \/ before = None \/ before >= Gap]_vars
  BY AttemptIsLate
<1>2. QED BY <1>1, TimesHold, ApartHolds, PTL DEF Spec, NoStorm

\* After an attempt that failed the next one is neither hasty nor put off for
\* ever: it comes no sooner than twice the base delay (or the limit, if that
\* is less) after it, and the loop, when it looks again, never finds it too
\* early once MaxDelay has passed since it.  newest is the true time since
\* the last attempt, which should_attempt does not see: a reset() or a
\* doubling at the wrong moment would tell it and last_attempt apart.
RetryTimely ==
  /\ Attempt /\ last_attempt # None => newest >= Least(2 * BaseDelay, MaxDelay)
  /\ TooEarly => newest < MaxDelay

THEOREM RetriesAreTimely == Spec => [][RetryTimely]_vars
<1>1. Times /\ Apart => RetryTimely
  <2> SUFFICES ASSUME Times, Apart PROVE RetryTimely
    OBVIOUS
  <2> USE HorizonType, DelaysAssumption
  <2>1. last_attempt # None =>
          /\ newest = last_attempt /\ newest \in Int
          /\ current_delay >= Least(2 * BaseDelay, MaxDelay)
          /\ current_delay \in BaseDelay..MaxDelay
    BY DEF Apart, AfterFailure, Times, Clock, None
  <2>2. Attempt /\ last_attempt # None => last_attempt >= current_delay
    BY DEF Attempt
  <2>3. TooEarly => last_attempt # None /\ last_attempt < current_delay
    BY DEF TooEarly
  <2>4. Least(2 * BaseDelay, MaxDelay) \in Int
    OBVIOUS
  <2>5. QED BY <2>1, <2>2, <2>3, <2>4 DEF RetryTimely
<1>2. QED BY <1>1, TimesHold, ApartHolds, PTL DEF Spec
=============================================================================

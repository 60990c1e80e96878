------------------------------- MODULE MpdLoop -------------------------------
(***************************************************************************)
(* The standalone MPD bridge (run, send_status and attempt_reconnection of *)
(* modules/mpd_bridge.rs) with its back-off (core/reconnection.rs): one    *)
(* thread that asks MPD for its state when that is due, looks for a        *)
(* command of the display, connects again when the connection was lost,    *)
(* and sleeps.                                                             *)
(*                                                                         *)
(* Instants are kept as the time that has passed since them: None before   *)
(* the first, and no more than Horizon, behind which no comparison of the  *)
(* code can tell them apart.  What a command does is the part of MpdLink;  *)
(* here it takes time.  attempts only silences the log, and max_attempts   *)
(* is compared with nothing.                                               *)
(***************************************************************************)
EXTENDS Integers

CONSTANTS
  UpdateInterval,  \* mpd.update_interval
  BaseDelay,       \* mpd.reconnect.delay
  MaxDelay         \* DEFAULT_MAX_DELAY

ASSUME DelaysAssumption == /\ UpdateInterval \in Nat \ {0}
                           /\ BaseDelay \in Nat \ {0}
                           /\ MaxDelay \in Nat
                           /\ BaseDelay <= MaxDelay

VARIABLES
  pc,             \* where run() is
  client,         \* the MPD client: "none", "live" or "stale"
  mpd_connected,
  server,         \* MPD is "up", "down", or "sick": connects, answers nothing
  last_update,    \* time since the state was last due
  last_attempt,   \* time since the last attempt that reset() has not cleared
  current_delay,
  newest,         \* history: time since the last attempt
  before          \* history: time since the attempt before that one

clocks == <<last_update, last_attempt, newest, before>>
linkVars == <<client, mpd_connected>>
vars == <<pc, linkVars, server, clocks, current_delay>>

Loop == {"status", "commands", "reconnect", "sleep"}
Over == {"exited", "killed"}

Least(a, b) == IF a <= b THEN a ELSE b
Greatest(a, b) == IF a >= b THEN a ELSE b

Horizon == Greatest(UpdateInterval, MaxDelay)
None == -1
Clock == {None} \cup 0..Horizon

TypeOK ==
  /\ pc \in {"start"} \cup Loop \cup Over
  /\ client \in {"none", "live", "stale"}
  /\ mpd_connected \in BOOLEAN
  /\ server \in {"up", "down", "sick"}
  /\ last_update \in Clock
  /\ last_attempt \in Clock
  /\ newest \in Clock
  /\ before \in Clock
  /\ current_delay \in BaseDelay..MaxDelay

Init ==
  /\ pc = "start"
  /\ client = "none"
  /\ mpd_connected = FALSE
  /\ server \in {"up", "down", "sick"}
  /\ last_update = None /\ last_attempt = None
  /\ newest = None /\ before = None
  /\ current_delay = BaseDelay

\* A clock one unit of time later.
Later(clock) == IF clock = None THEN None ELSE Least(clock + 1, Horizon)

Elapse ==
  /\ last_update' = Later(last_update)
  /\ last_attempt' = Later(last_attempt)
  /\ newest' = Later(newest)
  /\ before' = Later(before)

-----------------------------------------------------------------------------
\* MpdBridge::connect: the old client is dropped first; the flag changes only
\* if the new connection stands.
MpdConnect ==
  IF server = "down"
    THEN client' = "none" /\ UNCHANGED mpd_connected
    ELSE client' = "live" /\ mpd_connected' = TRUE

\* run(), before its loop: without the port or without MPD it returns 1.  The
\* identification only warns.
Start ==
  /\ pc = "start"
  /\ \/ server # "down" /\ MpdConnect /\ pc' = "status"
     \/ pc' = "exited" /\ UNCHANGED linkVars
  /\ UNCHANGED <<server, clocks, current_delay>>

Due == last_update = None \/ last_update >= UpdateInterval

StatusEarly ==
  /\ pc = "status"
  /\ ~Due
  /\ pc' = "commands"
  /\ UNCHANGED <<linkVars, server, clocks, current_delay>>

\* Mutant: the state is due again at once when it could not be had.
StatusDueRetry ==
  /\ pc = "status"
  /\ Due
  /\ last_update' = IF client = "live" /\ server = "up" THEN 0 ELSE last_update
  /\ mpd_connected' =
       (mpd_connected /\ (client = "none" \/ (client = "live" /\ server = "up")))
  /\ pc' = "commands"
  /\ UNCHANGED <<client, server, last_attempt, newest, before, current_delay>>

\* send_status sets last_update first, whatever comes of the query; an error
\* of status clears mpd_connected and leaves the client.  Without a client
\* there is no query.
StatusDue ==
  /\ pc = "status"
  /\ Due
  /\ last_update' = 0
  /\ mpd_connected' =
       (mpd_connected /\ (client = "none" \/ (client = "live" /\ server = "up")))
  /\ pc' = "commands"
  /\ UNCHANGED <<client, server, last_attempt, newest, before, current_delay>>

\* process_device_commands: whatever a command meets, the flag stays.
Commands ==
  /\ pc = "commands"
  /\ pc' = "reconnect"
  /\ UNCHANGED <<linkVars, server, clocks, current_delay>>

Connected ==
  /\ pc = "reconnect"
  /\ mpd_connected
  /\ pc' = "sleep"
  /\ UNCHANGED <<linkVars, server, clocks, current_delay>>

\* Mutant: the time of the last call is kept, not that of the last attempt.
TooEarlyAnew ==
  /\ pc = "reconnect"
  /\ ~mpd_connected
  /\ last_attempt # None /\ last_attempt < current_delay
  /\ last_attempt' = 0
  /\ pc' = "sleep"
  /\ UNCHANGED <<linkVars, server, last_update, newest, before, current_delay>>

\* should_attempt says no.
TooEarly ==
  /\ pc = "reconnect"
  /\ ~mpd_connected
  /\ last_attempt # None /\ last_attempt < current_delay
  /\ pc' = "sleep"
  /\ UNCHANGED <<linkVars, server, clocks, current_delay>>

\* Mutant: the delay is doubled without a limit.
BackOffUnlimited ==
  /\ last_attempt' = 0
  /\ current_delay' = 2 * current_delay

\* should_attempt doubles the delay already when it allows an attempt, so
\* that BaseDelay itself is never waited.
BackOff ==
  /\ last_attempt' = 0
  /\ current_delay' = Least(2 * current_delay, MaxDelay)

\* reset(), after an attempt that succeeded.
Reset ==
  /\ last_attempt' = None
  /\ current_delay' = BaseDelay

Attempt ==
  /\ pc = "reconnect"
  /\ ~mpd_connected
  /\ last_attempt = None \/ last_attempt >= current_delay
  /\ MpdConnect
  /\ IF server = "down" THEN BackOff ELSE Reset
  /\ newest' = 0
  /\ before' = newest
  /\ pc' = "sleep"
  /\ UNCHANGED <<server, last_update>>

Sleep ==
  /\ pc = "sleep"
  /\ Elapse
  /\ pc' = "status"
  /\ UNCHANGED <<linkVars, server, current_delay>>

\* A call that blocks: a query, a command, a connect.
Block ==
  /\ pc \in Loop \ {"sleep"}
  /\ Elapse
  /\ UNCHANGED <<pc, linkVars, server, current_delay>>

\* SIGTERM or SIGINT.
Signal ==
  /\ pc \notin Over
  /\ pc' = "killed"
  /\ UNCHANGED <<linkVars, server, clocks, current_delay>>

\* MPD goes down, comes up, stops or begins to answer; a connection does not
\* survive a restart.
ServerChange ==
  /\ pc \notin Over
  /\ server' \in {"up", "down", "sick"} \ {server}
  /\ client' = IF client = "live" /\ server' = "down" THEN "stale" ELSE client
  /\ UNCHANGED <<pc, mpd_connected, clocks, current_delay>>

Ended == pc \in Over /\ UNCHANGED vars

BridgeStep ==
  \/ Start
  \/ StatusEarly \/ StatusDue
  \/ Commands
  \/ Connected \/ TooEarly \/ Attempt
  \/ Sleep

Next == BridgeStep \/ Block \/ Signal \/ ServerChange \/ Ended

Spec == Init /\ [][Next]_vars

\* The loop goes round: no call blocks for ever (MPD's socket has timeouts),
\* and every turn sleeps.
FairSpec == Spec /\ WF_vars(BridgeStep)

-----------------------------------------------------------------------------
\* An MPD that accepts connections and then fails cannot make the bridge
\* connect in a tight loop, though every success clears the back-off: of
\* three attempts the first and the last are at least Gap apart, by the
\* interval of the queries if not by the back-off (attempt_reconnection,
\* lines 127-139, should_attempt and reset, lines 38-68, against
\* send_status, lines 171-186).
Gap == Least(UpdateInterval, Least(2 * BaseDelay, MaxDelay))

NoStorm ==
  [][Attempt => newest = None \/ before = None \/ before >= Gap]_vars

\* Liveness: when MPD is up for good, the bridge is connected for good,
\* however long it was away (max_attempts is no limit; run, lines 156-165).
Reconnects ==
  <>[](server = "up" /\ pc \in Loop) => <>[](mpd_connected /\ client = "live")

=============================================================================

----------------------------- MODULE BridgeLife -----------------------------
(***************************************************************************)
(* What a bridge promises about the things it uses, without loops, locks   *)
(* or servers: a port, a connection to MPD and a CAVA process, used by     *)
(* threads that each work once.  A thread starts only on what it needs; it *)
(* is the connection to MPD alone that comes and goes while they work;     *)
(* nothing is released that a working thread needs; and a bridge that      *)
(* exits leaves nothing.  Only one that is killed does.                    *)
(***************************************************************************)
CONSTANT Threads

VARIABLES
  life,    \* "starting", "serving", "stopping", "exited" or "killed"
  stage,   \* of each thread: "fresh", "working" or "ended"
  held     \* the resources the process holds

lifeVars == <<life, stage, held>>

Resources == {"port", "mpd", "cava"}
Needs(t) == IF t = "cava" THEN {"port", "cava"} ELSE {"port"}

Alive == life \in {"starting", "serving", "stopping"}
Working(t) == stage[t] = "working"

Init ==
  /\ life = "starting"
  /\ stage = [t \in Threads |-> "fresh"]
  /\ held = {}

OpenPort ==
  /\ life = "starting"
  /\ held' = {"port"}
  /\ UNCHANGED <<life, stage>>

Serve ==
  /\ life = "starting"
  /\ held = {"port"}
  /\ life' = "serving"
  /\ UNCHANGED <<stage, held>>

\* A thread starts, with what was acquired for it.
Begin(t) ==
  /\ life = "serving"
  /\ stage[t] = "fresh"
  /\ stage' = [stage EXCEPT ![t] = "working"]
  /\ \E new \in SUBSET {"mpd", "cava"} : held' = held \cup new
  /\ Needs(t) \subseteq held'
  /\ UNCHANGED life

\* The connection to MPD is lost or made again.
Renew(t) ==
  /\ Alive /\ Working(t)
  /\ held' \in {held \cup {"mpd"}, held \ {"mpd"}}
  /\ UNCHANGED <<life, stage>>

End(t) ==
  /\ Alive /\ Working(t)
  /\ stage' = [stage EXCEPT ![t] = "ended"]
  /\ UNCHANGED <<life, held>>

Stop ==
  /\ life = "serving"
  /\ life' = "stopping"
  /\ UNCHANGED <<stage, held>>

Release(r) ==
  /\ life = "stopping"
  /\ \A t \in Threads : Working(t) => r \notin Needs(t)
  /\ held' = held \ {r}
  /\ UNCHANGED <<life, stage>>

Exit ==
  /\ life \in {"starting", "stopping"}
  /\ \A t \in Threads : ~Working(t)
  /\ held \subseteq {"port"}
  /\ held' = {}
  /\ life' = "exited"
  /\ UNCHANGED stage

Kill ==
  /\ Alive
  /\ life' = "killed"
  /\ UNCHANGED <<stage, held>>

Next ==
  \/ OpenPort \/ Serve \/ Stop \/ Exit \/ Kill
  \/ \E t \in Threads : Begin(t) \/ Renew(t) \/ End(t)
  \/ \E r \in Resources : Release(r)

Spec == Init /\ [][Next]_lifeVars

\* A thread at work has what it needs, and an exit leaves nothing behind.
Promise ==
  /\ \A t \in Threads : Alive /\ Working(t) => Needs(t) \subseteq held
  /\ life = "exited" => held = {} /\ \A t \in Threads : ~Working(t)
=============================================================================

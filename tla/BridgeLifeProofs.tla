-------------------------- MODULE BridgeLifeProofs --------------------------
(***************************************************************************)
(* Proofs about BridgeLife, for any set of threads: what an implementation *)
(* of it has a right to.                                                   *)
(***************************************************************************)
EXTENDS BridgeLife, TLAPS

Lives == {"starting", "serving", "stopping", "exited", "killed"}
Stages == {"fresh", "working", "ended"}

TypeOK ==
  /\ life \in Lives
  /\ stage \in [Threads -> Stages]
  /\ held \subseteq Resources

\* No thread works before the bridge serves, nor after an exit.
NobodyEarly == life = "starting" => \A t \in Threads : ~Working(t)

\* A bridge that keeps to BridgeLife keeps its promise: a thread at work has
\* what it needs for as long as the process lives, and an exit leaves no
\* thread and nothing held.
THEOREM PromiseKept == Spec => [](TypeOK /\ Promise)
<1> DEFINE Inv == TypeOK /\ NobodyEarly /\ Promise
<1> USE DEF TypeOK, Lives, Stages, NobodyEarly, Promise, Alive, Working,
            Resources, Needs
<1>1. Init => Inv
  BY DEF Init
<1>2. Inv /\ [Next]_lifeVars => Inv'
  <2> SUFFICES ASSUME Inv, [Next]_lifeVars PROVE Inv'
    OBVIOUS
  <2>1. CASE OpenPort
    BY <2>1 DEF OpenPort
  <2>2. CASE Serve
    BY <2>2 DEF Serve
  <2>3. ASSUME NEW t \in Threads, Begin(t) PROVE Inv'
    BY <2>3 DEF Begin
  <2>4. ASSUME NEW t \in Threads, Renew(t) PROVE Inv'
    BY <2>4 DEF Renew
  <2>5. ASSUME NEW t \in Threads, End(t) PROVE Inv'
    BY <2>5 DEF End
  <2>6. CASE Stop
    BY <2>6 DEF Stop
  <2>7. ASSUME NEW r \in Resources, Release(r) PROVE Inv'
    BY <2>7 DEF Release
  <2>8. CASE Exit
    BY <2>8 DEF Exit
  <2>9. CASE Kill
    BY <2>9 DEF Kill
  <2>10. CASE UNCHANGED lifeVars
    BY <2>10 DEF lifeVars
  <2>11. QED
    BY <2>1, <2>2, <2>3, <2>4, <2>5, <2>6, <2>7, <2>8, <2>9, <2>10 DEF Next
<1>3. QED BY <1>1, <1>2, PTL DEF Spec

\* Each thread goes its way once: it begins while the bridge serves, with what
\* it needs, and once ended it is not started again; and a bridge that is over
\* does nothing more.
OneWay ==
  /\ ~Alive => UNCHANGED lifeVars
  /\ \A t \in Threads :
       /\ stage[t] # "fresh" => stage'[t] # "fresh"
       /\ stage[t] = "ended" => stage'[t] = "ended"
       /\ stage[t] = "fresh" /\ stage'[t] # "fresh" =>
            life = "serving" /\ Needs(t) \subseteq held'

\* What the theorem about an implementation (EachWorksOnce in
\* HybridBridgeProofs) takes from here.
LEMMA StagesGoOneWay == Spec => [][OneWay]_lifeVars
<1>1. TypeOK /\ [Next]_lifeVars => [OneWay]_lifeVars
  <2> SUFFICES ASSUME TypeOK, Next PROVE OneWay
    OBVIOUS
  <2> USE DEF TypeOK, Stages, OneWay, Alive, Working, lifeVars
  <2>1. ASSUME NEW t \in Threads, Begin(t) PROVE OneWay
    BY <2>1 DEF Begin
  <2>2. ASSUME NEW t \in Threads, Renew(t) \/ End(t) PROVE OneWay
    BY <2>2 DEF Renew, End
  <2>3. ASSUME NEW r \in Resources, Release(r) PROVE OneWay
    BY <2>3 DEF Release
  <2>4. CASE OpenPort \/ Serve \/ Stop \/ Exit \/ Kill
    BY <2>4 DEF OpenPort, Serve, Stop, Exit, Kill
  <2>5. QED BY <2>1, <2>2, <2>3, <2>4 DEF Next
<1>2. QED BY <1>1, PromiseKept, PTL DEF Spec
=============================================================================

------------------------------- MODULE Outbox -------------------------------
(***************************************************************************)
(* What the queue of a serial connection promises its users, without heap, *)
(* threads or errors: a mailbox of limited size with one lane per          *)
(* priority.  Whoever puts a message draws the next ticket; a taker always *)
(* empties the most urgent lane first, and of a lane the oldest ticket.    *)
(* The box opens once, and once it has closed nothing is taken any more,   *)
(* though messages may still be put.                                       *)
(***************************************************************************)
EXTENDS Integers, FiniteSets

CONSTANTS Priorities, Capacity

VARIABLES
  lanes,     \* the tickets waiting in each lane
  tickets,   \* the number of tickets given out
  phase      \* "new", "open" or "closed"

boxVars == <<lanes, tickets, phase>>

Waiting == UNION {lanes[p] : p \in Priorities}

Init ==
  /\ lanes = [p \in Priorities |-> {}]
  /\ tickets = 0
  /\ phase = "new"

Open ==
  /\ phase = "new"
  /\ phase' = "open"
  /\ UNCHANGED <<lanes, tickets>>

Close ==
  /\ phase = "open"
  /\ phase' = "closed"
  /\ UNCHANGED <<lanes, tickets>>

Put(p) ==
  /\ phase # "new"
  /\ Cardinality(Waiting) < Capacity
  /\ tickets' = tickets + 1
  /\ lanes' = [lanes EXCEPT ![p] = @ \cup {tickets + 1}]
  /\ UNCHANGED phase

Take(p) ==
  /\ phase = "open"
  /\ \A q \in Priorities : q < p => lanes[q] = {}
  /\ \E n \in lanes[p] :
       /\ \A m \in lanes[p] : n <= m
       /\ lanes' = [lanes EXCEPT ![p] = @ \ {n}]
  /\ UNCHANGED <<tickets, phase>>

Next ==
  \/ Open
  \/ Close
  \/ \E p \in Priorities : Put(p) \/ Take(p)

Spec == Init /\ [][Next]_boxVars
=============================================================================

----------------------------- MODULE SerialQueue -----------------------------
(***************************************************************************)
(* The outgoing queue of one serial connection (core/serial_queue.rs).     *)
(*                                                                         *)
(* Bridge threads call send(); a message of priority >= 0 goes through a   *)
(* bounded heap to one worker thread, a message of negative priority is    *)
(* written to the device by the calling thread itself.  Two mutexes guard  *)
(* the state: `state' (heap, sequence_counter, running,                    *)
(* device_disconnected) and `error_state' (consecutive_errors).  They are  *)
(* never held together on these paths and never during libc::write, so a   *)
(* step of the model is one critical section, or the write itself, and     *)
(* pc[t] says between which two of them thread t is.                       *)
(*                                                                         *)
(* The bytes of a message play no part: an item is its priority and its    *)
(* sequence number.  The statistics of stats() are left out.               *)
(***************************************************************************)
EXTENDS Integers, FiniteSets

CONSTANTS
  Senders,              \* the threads that call send()
  Worker,               \* the thread start() spawns
  Priorities,           \* the priorities of the messages that are queued
  MaxQueueSize,         \* max_queue_size
  MaxConsecutiveErrors, \* max_consecutive_errors (3 in the code)
  MaxSends              \* bound: calls of send() in a behaviour

ASSUME ThreadsAssumption == IsFiniteSet(Senders) /\ Worker \notin Senders
ASSUME PrioritiesAssumption == Priorities \subseteq Nat
ASSUME LimitsAssumption == /\ MaxQueueSize \in Nat
                           /\ MaxConsecutiveErrors \in Nat \ {0}
                           /\ MaxSends \in Nat

Threads == Senders \cup {Worker}

VARIABLES
  heap,                 \* the queued items
  sequence_counter,     \* the sequence number given last
  running,
  device_disconnected,
  consecutive_errors,
  pc,                   \* where each thread is between two critical sections
  stopper,              \* the caller of stop(): "no", "join" or "done"
  sends,                \* calls of send() so far, for the bound MaxSends
  handed,               \* history: the items the worker has popped
  streak,               \* history: failed writes counted since a good one
  longest,              \* history: the greatest value of streak
  admitted              \* history: when stop() began, the messages accepted
                        \* and those whose senders had passed the check

stateVars == <<heap, sequence_counter, running, device_disconnected>>
historyVars == <<handed, streak, longest, admitted>>
vars == <<stateVars, consecutive_errors, pc, stopper, sends, historyVars>>

Writing == {"check", "write", "ok", "error", "latch"}
SenderPc == {"idle", "push"} \cup Writing
WorkerPc == {"none", "wait", "exited"} \cup Writing

TypeOK ==
  /\ heap \subseteq [priority : Priorities, sequence : Nat \ {0}]
  /\ sequence_counter \in Nat
  /\ running \in BOOLEAN
  /\ device_disconnected \in BOOLEAN
  /\ consecutive_errors \in Nat
  /\ pc \in [Threads -> SenderPc \cup WorkerPc]
  /\ pc[Worker] \in WorkerPc
  /\ \A t \in Senders : pc[t] \in SenderPc
  /\ stopper \in {"no", "join", "done"}
  /\ sends \in Nat
  /\ handed \subseteq [priority : Priorities, sequence : Nat \ {0}]
  /\ streak \in Nat
  /\ longest \in Nat
  /\ admitted \in Nat

Init ==
  /\ heap = {}
  /\ sequence_counter = 0
  /\ running = FALSE
  /\ device_disconnected = FALSE
  /\ consecutive_errors = 0
  /\ pc = [t \in Threads |-> IF t = Worker THEN "none" ELSE "idle"]
  /\ stopper = "no"
  /\ sends = 0
  /\ handed = {}
  /\ streak = 0
  /\ longest = 0
  /\ admitted = 0

Goto(t, label) == pc' = [pc EXCEPT ![t] = label]

\* Mutant: the worker writes one message and then leaves its loop, as a
\* sender does.
ReturnOnce(t) == Goto(t, "idle")

\* What a thread does once write_to_device has returned: a sender is back
\* from send(), the worker takes the next turn of its loop.
Return(t) == Goto(t, IF t = Worker THEN "wait" ELSE "idle")

-----------------------------------------------------------------------------
\* start() and stop(), called by the owner of the connection

\* SerialComm::connect makes a new queue and starts it, once.
Start ==
  /\ ~running
  /\ stopper = "no"
  /\ running' = TRUE
  /\ device_disconnected' = FALSE
  /\ Goto(Worker, "wait")
  /\ UNCHANGED <<heap, sequence_counter, consecutive_errors, stopper, sends,
                 historyVars>>

\* The senders between the two critical sections of send().
Pushing == {t \in Senders : pc[t] = "push"}

\* Mutant: the worker is joined before running is cleared.
StopJoinFirst ==
  /\ running
  /\ stopper = "no"
  /\ stopper' = "join"
  /\ admitted' = sequence_counter + Cardinality(Pushing)
  /\ UNCHANGED <<stateVars, consecutive_errors, pc, sends, handed, streak,
                 longest>>

\* Mutant: only device_disconnected is set, which is enough for the worker.
StopKeepsRunning ==
  /\ running
  /\ stopper = "no"
  /\ device_disconnected' = TRUE
  /\ stopper' = "join"
  /\ admitted' = sequence_counter + Cardinality(Pushing)
  /\ UNCHANGED <<heap, sequence_counter, running, consecutive_errors, pc,
                 sends, handed, streak, longest>>

StopBegin ==
  /\ running
  /\ running' = FALSE
  /\ device_disconnected' = TRUE
  /\ stopper' = "join"
  /\ admitted' = sequence_counter + Cardinality(Pushing)
  /\ UNCHANGED <<heap, sequence_counter, consecutive_errors, pc, sends,
                 handed, streak, longest>>

\* The join of the worker, outside the lock.
StopEnd ==
  /\ stopper = "join"
  /\ pc[Worker] = "exited"
  /\ stopper' = "done"
  /\ UNCHANGED <<stateVars, consecutive_errors, pc, sends, historyVars>>

-----------------------------------------------------------------------------
\* send()

\* The first critical section: a queue that does not run refuses.
SendRefused(t) ==
  /\ pc[t] = "idle"
  /\ ~running
  /\ UNCHANGED vars

\* A queue that runs sends the caller on, to the heap or, for a critical
\* message (priority < 0), to the device.
SendAccepted(t) ==
  /\ pc[t] = "idle"
  /\ running
  /\ sends < MaxSends
  /\ sends' = sends + 1
  /\ \/ Goto(t, "push")
     \/ Goto(t, "check")
  /\ UNCHANGED <<stateVars, consecutive_errors, stopper, historyVars>>

\* The second critical section.  It does not look at running again.
Push(t, p) ==
  /\ pc[t] = "push"
  /\ Cardinality(heap) < MaxQueueSize
  /\ sequence_counter' = sequence_counter + 1
  /\ heap' = heap \cup {[priority |-> p, sequence |-> sequence_counter + 1]}
  /\ Return(t)
  /\ UNCHANGED <<running, device_disconnected, consecutive_errors, stopper,
                 sends, historyVars>>

PushFull(t) ==
  /\ pc[t] = "push"
  /\ Cardinality(heap) >= MaxQueueSize
  /\ Return(t)
  /\ UNCHANGED <<stateVars, consecutive_errors, stopper, sends, historyVars>>

-----------------------------------------------------------------------------
\* worker_loop()

\* Mutant: only the comparison of priorities is reversed for the max-heap.
PrecedesNewest(a, b) ==
  \/ a.priority < b.priority
  \/ a.priority = b.priority /\ a.sequence > b.sequence

\* Mutant: priorities are not reversed for the max-heap.
PrecedesHighest(a, b) ==
  \/ a.priority > b.priority
  \/ a.priority = b.priority /\ a.sequence < b.sequence

\* QueueItem::cmp: lower priority value first, then the older item.
Precedes(a, b) ==
  \/ a.priority < b.priority
  \/ a.priority = b.priority /\ a.sequence < b.sequence

\* The wait on the condition variable times out after 10 ms and the loop
\* looks again, so a lost notification costs time only.
WorkerWait ==
  /\ pc[Worker] = "wait"
  /\ running /\ ~device_disconnected /\ heap = {}
  /\ UNCHANGED vars

\* Mutant: the worker looks at the top of the heap and leaves it there.
WorkerPeek ==
  /\ pc[Worker] = "wait"
  /\ running /\ ~device_disconnected
  /\ \E item \in heap :
       /\ \A other \in heap \ {item} : Precedes(item, other)
       /\ handed' = handed \cup {item}
  /\ Goto(Worker, "check")
  /\ UNCHANGED <<stateVars, consecutive_errors, stopper, sends, streak,
                 longest, admitted>>

WorkerPop ==
  /\ pc[Worker] = "wait"
  /\ running /\ ~device_disconnected
  /\ \E item \in heap :
       /\ \A other \in heap \ {item} : Precedes(item, other)
       /\ heap' = heap \ {item}
       /\ handed' = handed \cup {item}
  /\ Goto(Worker, "check")
  /\ UNCHANGED <<sequence_counter, running, device_disconnected,
                 consecutive_errors, stopper, sends, streak, longest,
                 admitted>>

\* Mutant: the worker ends when it finds nothing to do.
WorkerExitIdle ==
  /\ pc[Worker] = "wait"
  /\ ~running \/ device_disconnected \/ heap = {}
  /\ Goto(Worker, "exited")
  /\ UNCHANGED <<stateVars, consecutive_errors, stopper, sends, historyVars>>

WorkerExit ==
  /\ pc[Worker] = "wait"
  /\ ~running \/ device_disconnected
  /\ Goto(Worker, "exited")
  /\ UNCHANGED <<stateVars, consecutive_errors, stopper, sends, historyVars>>

-----------------------------------------------------------------------------
\* write_to_device(), run by the worker and by the senders of critical
\* messages

WriteCheck(t) ==
  /\ pc[t] = "check"
  /\ IF device_disconnected \/ ~running THEN Return(t) ELSE Goto(t, "write")
  /\ UNCHANGED <<stateVars, consecutive_errors, stopper, sends, historyVars>>

\* libc::write returns.  A short write counts as a good one.
DeviceWrite(t) ==
  /\ pc[t] = "write"
  /\ \/ Goto(t, "ok")
     \/ Goto(t, "error")
  /\ UNCHANGED <<stateVars, consecutive_errors, stopper, sends, historyVars>>

CountSuccess(t) ==
  /\ pc[t] = "ok"
  /\ consecutive_errors' = 0
  /\ streak' = 0
  /\ Return(t)
  /\ UNCHANGED <<stateVars, stopper, sends, handed, longest, admitted>>

\* Mutant: > for >=.
CountErrorLate(t) ==
  /\ pc[t] = "error"
  /\ consecutive_errors' = consecutive_errors + 1
  /\ IF consecutive_errors + 1 > MaxConsecutiveErrors
       THEN Goto(t, "latch")
       ELSE Return(t)
  /\ streak' = streak + 1
  /\ longest' = IF streak + 1 > longest THEN streak + 1 ELSE longest
  /\ UNCHANGED <<stateVars, stopper, sends, handed, admitted>>

CountError(t) ==
  /\ pc[t] = "error"
  /\ consecutive_errors' = consecutive_errors + 1
  /\ IF consecutive_errors + 1 >= MaxConsecutiveErrors
       THEN Goto(t, "latch")
       ELSE Return(t)
  /\ streak' = streak + 1
  /\ longest' = IF streak + 1 > longest THEN streak + 1 ELSE longest
  /\ UNCHANGED <<stateVars, stopper, sends, handed, admitted>>

\* The error lock has been dropped: what was counted may be out of date.
Latch(t) ==
  /\ pc[t] = "latch"
  /\ device_disconnected' = TRUE
  /\ Return(t)
  /\ UNCHANGED <<heap, sequence_counter, running, consecutive_errors, stopper,
                 sends, historyVars>>

WriteStep(t) ==
  \/ WriteCheck(t)
  \/ DeviceWrite(t)
  \/ CountSuccess(t)
  \/ CountError(t)
  \/ Latch(t)

PushStep(t) == PushFull(t) \/ \E p \in Priorities : Push(t, p)
SenderStep(t) == PushStep(t) \/ WriteStep(t)
WorkerStep == WorkerPop \/ WorkerExit \/ WriteStep(Worker)

\* stop() has returned and every caller is back: nothing is left to do.
Quiet ==
  /\ stopper = "done"
  /\ \A t \in Senders : pc[t] = "idle"
  /\ UNCHANGED vars

Next ==
  \/ Start
  \/ StopBegin
  \/ StopEnd
  \/ \E t \in Senders : SendRefused(t) \/ SendAccepted(t) \/ SenderStep(t)
  \/ WorkerWait
  \/ WorkerStep
  \/ Quiet

Spec == Init /\ [][Next]_vars

\* Every thread that is running a function goes on with it, and a write to
\* the device returns.  Nobody has to call start(), stop() or send().
Fairness ==
  /\ WF_vars(WorkerStep)
  /\ WF_vars(StopEnd)
  /\ \A t \in Senders : WF_vars(SenderStep(t))

FairSpec == Spec /\ Fairness

-----------------------------------------------------------------------------
\* The history of the queue: everything that was ever accepted into it.
Accepted == heap \cup handed

\* The heap never holds more than max_queue_size messages, however many
\* senders are between their check of running and their push (send, lines
\* 153-157: size check and push share one critical section).
BoundedQueue == Cardinality(heap) <= MaxQueueSize

\* No accepted message is lost or handed out twice on its way from send() to
\* the worker: the sequence numbers given out are exactly those of the items
\* that are queued or were popped, each carried by one item, in one place.
Conservation ==
  /\ heap \cap handed = {}
  /\ {i.sequence : i \in Accepted} = 1..sequence_counter
  /\ \A i, j \in Accepted : i.sequence = j.sequence => i = j

\* Messages of one priority leave in the order in which they were accepted
\* (the sequence tie-break of QueueItem::cmp), whichever threads sent them.
FifoWithinPriority ==
  \A h \in handed, q \in heap :
    h.priority = q.priority => h.sequence < q.sequence

\* The device is declared disconnected, other than by stop(), only if
\* max_consecutive_errors writes failed with no good write counted between
\* them (write_to_device, lines 266-289), whichever threads wrote.
LatchJustified ==
  device_disconnected /\ running => longest >= MaxConsecutiveErrors

\* ... and it is not missed: once that many failures in a row were counted,
\* the device is disconnected, or a thread that saw the count is on its way
\* to say so (the error lock is dropped before the state lock is taken).
LatchNotMissed ==
  longest >= MaxConsecutiveErrors =>
    \/ device_disconnected
    \/ \E t \in Threads : pc[t] = "latch"

\* The latch tells the truth in both directions, whichever threads wrote and
\* however their sections interleave (write_to_device, lines 251-289).
LatchCorrect == LatchJustified /\ LatchNotMissed

\* What can still get into a queue that is being stopped: send() does not look
\* at running again before it pushes (lines 142-173), but each sender that was
\* past its check when stop() began pushes one message at most, and nobody
\* gets past it afterwards.  So stop() is not outrun by its users, though the
\* device may have been given up long before, while send() accepted.
StopCutsIntake == stopper # "no" => sequence_counter <= admitted

\* The sequence numbers of the queued items of one priority.
Lane(p) == {i.sequence : i \in {j \in heap : j.priority = p}}

Phase == IF device_disconnected THEN "closed"
         ELSE IF running THEN "open" ELSE "new"

Box == INSTANCE Outbox WITH
         Capacity <- MaxQueueSize,
         lanes <- [p \in Priorities |-> Lane(p)],
         tickets <- sequence_counter,
         phase <- Phase

\* The queue of the code, with its heap, its latch and its threads, is a
\* bounded mailbox of one FIFO lane per priority that is emptied strictly by
\* priority while it is open (Ord for QueueItem, lines 18-27, and
\* worker_loop, lines 227-241).
ImplementsOutbox == Box!Spec

\* Liveness: a message that was accepted leaves the heap, unless the device
\* is disconnected or the queue stopped first (worker_loop; the sends are
\* finitely many, so that urgent messages do not starve the others for ever).
Drained == heap # {} ~> (heap = {} \/ device_disconnected)

\* Liveness: stop() returns (the worker sees running = false within a turn
\* of its loop; comment of stop, lines 132-133).
StopReturns == stopper = "join" ~> stopper = "done"

=============================================================================

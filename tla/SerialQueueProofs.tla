------------------------- MODULE SerialQueueProofs -------------------------
(***************************************************************************)
(* Proofs about SerialQueue, for every set of senders and every limit.     *)
(***************************************************************************)
EXTENDS SerialQueue, FiniteSetTheorems, FunctionTheorems,
        WellFoundedInduction, TLAPS

\* The ways in which Next changes something.
LEMMA NextCases ==
  ASSUME Next
  PROVE  \/ Start \/ StopBegin \/ StopEnd
         \/ \E t \in Senders : SendAccepted(t) \/ PushFull(t)
         \/ \E t \in Senders, p \in Priorities : Push(t, p)
         \/ WorkerPop \/ WorkerExit
         \/ \E t \in Threads : WriteStep(t)
         \/ UNCHANGED vars
  BY DEF Next, SenderStep, PushStep, WorkerStep, SendRefused, WorkerWait,
         Quiet, Threads

LEMMA PushingFinite == IsFiniteSet(Pushing) /\ Cardinality(Pushing) \in Nat
BY FS_Subset, FS_CardinalityType, ThreadsAssumption DEF Pushing

-----------------------------------------------------------------------------
\* Type correctness: every variable keeps the type its declaration in the
\* code gives it, and no thread runs another thread's code.
THEOREM TypeCorrect == Spec => []TypeOK
<1> USE ThreadsAssumption, PrioritiesAssumption, LimitsAssumption
<1>1. Init => TypeOK
  <2> SUFFICES ASSUME Init PROVE TypeOK
    OBVIOUS
  <2>1. /\ pc \in [Threads -> SenderPc \cup WorkerPc]
        /\ pc[Worker] \in WorkerPc
        /\ \A t \in Senders : pc[t] \in SenderPc
    BY DEF Init, SenderPc, WorkerPc, Threads
  <2>2. QED BY <2>1 DEF Init, TypeOK
<1>2. TypeOK /\ [Next]_vars => TypeOK'
  <2> SUFFICES ASSUME TypeOK, [Next]_vars PROVE TypeOK'
    OBVIOUS
  <2> USE DEF SenderPc, WorkerPc, Writing, Goto, Return, stateVars,
              historyVars
  <2>1. CASE Start
    BY <2>1 DEF TypeOK, Start, Threads
  <2>2. CASE StopBegin
    <3>1. admitted' \in Nat
      BY <2>2, PushingFinite DEF TypeOK, StopBegin
    <3>2. QED BY <2>2, <3>1 DEF TypeOK, StopBegin
  <2>3. CASE StopEnd
    BY <2>3 DEF TypeOK, StopEnd
  <2>4. ASSUME NEW t \in Senders, SendAccepted(t) \/ PushFull(t)
        PROVE  TypeOK'
    BY <2>4 DEF TypeOK, SendAccepted, PushFull, Threads
  <2>5. ASSUME NEW t \in Senders, NEW p \in Priorities, Push(t, p)
        PROVE  TypeOK'
    BY <2>5 DEF TypeOK, Push, Threads
  <2>6. CASE WorkerPop
    BY <2>6 DEF TypeOK, WorkerPop, Threads
  <2>7. CASE WorkerExit
    BY <2>7 DEF TypeOK, WorkerExit, Threads
  <2>8. ASSUME NEW t \in Threads, WriteStep(t)
        PROVE  TypeOK'
    <3>1. CASE WriteCheck(t)
      BY <3>1 DEF TypeOK, WriteCheck, Threads
    <3>2. CASE DeviceWrite(t)
      BY <3>2 DEF TypeOK, DeviceWrite, Threads
    <3>3. CASE CountSuccess(t)
      BY <3>3 DEF TypeOK, CountSuccess, Threads
    <3>4. CASE CountError(t)
      BY <3>4 DEF TypeOK, CountError, Threads
    <3>5. CASE Latch(t)
      BY <3>5 DEF TypeOK, Latch, Threads
    <3>6. QED BY <2>8, <3>1, <3>2, <3>3, <3>4, <3>5 DEF WriteStep
  <2>9. CASE UNCHANGED vars
    BY <2>9 DEF TypeOK, vars
  <2>10. QED
    BY <2>1, <2>2, <2>3, <2>4, <2>5, <2>6, <2>7, <2>8, <2>9, NextCases
<1>3. QED BY <1>1, <1>2, PTL DEF Spec

-----------------------------------------------------------------------------
\* The queue's own steps: everything but a push and a pop leaves the heap,
\* the counter and the history of popped items alone.
LEMMA HeapCases ==
  ASSUME Next
  PROVE  \/ \E t \in Senders, p \in Priorities : Push(t, p)
         \/ WorkerPop
         \/ UNCHANGED <<heap, sequence_counter, handed>>
<1>1. ASSUME NEW t \in Threads, WriteStep(t)
      PROVE  UNCHANGED <<heap, sequence_counter, handed>>
  BY <1>1 DEF WriteStep, WriteCheck, DeviceWrite, CountSuccess, CountError,
              Latch, stateVars, historyVars
<1>2. ASSUME NEW t \in Senders, SendAccepted(t) \/ PushFull(t)
      PROVE  UNCHANGED <<heap, sequence_counter, handed>>
  BY <1>2 DEF SendAccepted, PushFull, stateVars, historyVars
<1>3. Start \/ StopBegin \/ StopEnd \/ WorkerExit
        => UNCHANGED <<heap, sequence_counter, handed>>
  BY DEF Start, StopBegin, StopEnd, WorkerExit, stateVars, historyVars
<1>4. UNCHANGED vars => UNCHANGED <<heap, sequence_counter, handed>>
  BY DEF vars, stateVars, historyVars
<1>5. QED BY <1>1, <1>2, <1>3, <1>4, NextCases

LEMMA SequencesOfUnion ==
  ASSUME NEW S, NEW T, NEW x, T = S \cup {x}
  PROVE  {i.sequence : i \in T} = {i.sequence : i \in S} \cup {x.sequence}
  OBVIOUS

\* No accepted message is lost or handed out twice, and messages of one
\* priority leave in the order they came.  The two are proved together: a
\* push keeps the order because its number is above all those given out.
THEOREM QueueOrder == Spec => [](Conservation /\ FifoWithinPriority)
<1> DEFINE Order == Conservation /\ FifoWithinPriority
<1>1. Init => Order
  BY DEF Init, Conservation, FifoWithinPriority, Accepted
<1>2. TypeOK /\ Order /\ [Next]_vars => Order'
  <2> SUFFICES ASSUME TypeOK, Order, [Next]_vars PROVE Order'
    OBVIOUS
  <2>1. ASSUME NEW t \in Senders, NEW p \in Priorities, Push(t, p)
        PROVE  Order'
    <3> DEFINE n == sequence_counter + 1
               new == [priority |-> p, sequence |-> n]
    <3>1. /\ heap' = heap \cup {new}
          /\ handed' = handed
          /\ sequence_counter' = n
      BY <2>1 DEF Push, historyVars
    <3>2. \A i \in Accepted : i.sequence \in 1..sequence_counter
      BY DEF Conservation
    <3>3. n \in Nat /\ n \notin 1..sequence_counter
          /\ 1..n = 1..sequence_counter \cup {n}
      BY DEF TypeOK
    <3>4. Accepted' = Accepted \cup {new}
      BY <3>1 DEF Accepted
    <3>5. new \notin Accepted
      BY <3>2, <3>3
    <3>6. Conservation'
      <4>1. (heap \cap handed = {})'
        BY <3>1, <3>5 DEF Conservation, Accepted
      <4>2. {i.sequence : i \in Accepted'} = 1..sequence_counter'
        <5>1. {i.sequence : i \in Accepted} = 1..sequence_counter
          BY DEF Conservation
        <5>2. {i.sequence : i \in Accepted'}
                = {i.sequence : i \in Accepted} \cup {n}
          <6>1. new.sequence = n
            OBVIOUS
          <6> HIDE DEF new
          <6>2. QED BY <3>4, <6>1, SequencesOfUnion
        <5>3. QED BY <5>1, <5>2, <3>1, <3>3
      <4>3. \A i, j \in Accepted' : i.sequence = j.sequence => i = j
        BY <3>2, <3>3, <3>4 DEF Conservation
      <4>4. QED BY <4>1, <4>2, <4>3 DEF Conservation
    <3>7. ASSUME NEW h \in handed', NEW q \in heap', h.priority = q.priority
          PROVE  h.sequence < q.sequence
      <4>1. h \in handed /\ h.sequence \in 1..sequence_counter
        BY <3>1, <3>2 DEF Accepted
      <4>2. CASE q \in heap
        BY <3>7, <4>1, <4>2 DEF FifoWithinPriority
      <4>3. CASE q = new
        BY <4>1, <4>3 DEF TypeOK
      <4>4. QED BY <3>1, <4>2, <4>3
    <3>8. QED BY <3>6, <3>7 DEF FifoWithinPriority
  <2>2. CASE WorkerPop
    <3>1. PICK item \in heap :
            /\ \A other \in heap \ {item} : Precedes(item, other)
            /\ heap' = heap \ {item}
            /\ handed' = handed \cup {item}
            /\ sequence_counter' = sequence_counter
      BY <2>2 DEF WorkerPop
    <3>2. Accepted' = Accepted
      BY <3>1 DEF Accepted
    <3>3. Conservation'
      BY <3>1, <3>2 DEF Conservation
    <3>4. ASSUME NEW h \in handed', NEW q \in heap', h.priority = q.priority
          PROVE  h.sequence < q.sequence
      <4>1. q \in heap \ {item}
        BY <3>1
      <4>2. CASE h = item
        <5>1. Precedes(item, q)
          BY <3>1, <4>1
        <5>2. item.priority = q.priority /\ item.priority \in Nat
          BY <3>4, <4>2, PrioritiesAssumption DEF TypeOK
        <5>3. ~(item.priority < q.priority)
          BY <5>2
        <5>4. QED BY <4>2, <5>1, <5>3 DEF Precedes
      <4>3. CASE h \in handed
        BY <3>4, <4>1, <4>3 DEF FifoWithinPriority
      <4>4. QED BY <3>1, <4>2, <4>3
    <3>5. QED BY <3>3, <3>4 DEF FifoWithinPriority
  <2>3. CASE UNCHANGED <<heap, sequence_counter, handed>>
    BY <2>3 DEF Conservation, FifoWithinPriority, Accepted
  <2>4. UNCHANGED vars => UNCHANGED <<heap, sequence_counter, handed>>
    BY DEF vars, stateVars, historyVars
  <2>5. QED BY <2>1, <2>2, <2>3, <2>4, HeapCases
<1>3. QED BY <1>1, <1>2, TypeCorrect, PTL DEF Spec

\* No accepted message is lost or handed out twice between send() and the
\* worker, whatever the number of senders.
THEOREM NothingLost == Spec => []Conservation
BY QueueOrder, PTL

-----------------------------------------------------------------------------
\* The heap has to be finite for its size to mean anything, so that is part
\* of the invariant.
LEMMA HeapFinite == Spec => [](IsFiniteSet(heap) /\ BoundedQueue)
<1> DEFINE Bounded == IsFiniteSet(heap) /\ BoundedQueue
<1>1. Init => Bounded
  BY FS_EmptySet, LimitsAssumption DEF Init, BoundedQueue
<1>2. Bounded /\ [Next]_vars => Bounded'
  <2> SUFFICES ASSUME Bounded, [Next]_vars PROVE Bounded'
    OBVIOUS
  <2>1. ASSUME NEW t \in Senders, NEW p \in Priorities, Push(t, p)
        PROVE  Bounded'
    <3> DEFINE new == [priority |-> p, sequence |-> sequence_counter + 1]
    <3>1. heap' = heap \cup {new} /\ Cardinality(heap) < MaxQueueSize
      BY <2>1 DEF Push
    <3>2. /\ IsFiniteSet(heap')
          /\ Cardinality(heap') = IF new \in heap THEN Cardinality(heap)
                                                 ELSE Cardinality(heap) + 1
      BY <3>1, FS_AddElement
    <3>3. Cardinality(heap) \in Nat
      BY FS_CardinalityType
    <3>4. QED BY <3>1, <3>2, <3>3, LimitsAssumption DEF BoundedQueue
  <2>2. CASE WorkerPop
    <3>1. PICK item \in heap : heap' = heap \ {item}
      BY <2>2 DEF WorkerPop
    <3>2. /\ IsFiniteSet(heap')
          /\ Cardinality(heap') = Cardinality(heap) - 1
      BY <3>1, FS_RemoveElement
    <3>3. Cardinality(heap) \in Nat
      BY FS_CardinalityType
    <3>4. QED BY <3>2, <3>3, LimitsAssumption DEF BoundedQueue
  <2>3. CASE heap' = heap
    BY <2>3 DEF BoundedQueue
  <2>4. UNCHANGED vars => heap' = heap
    BY DEF vars, stateVars
  <2>5. QED BY <2>1, <2>2, <2>3, <2>4, HeapCases
<1>3. QED BY <1>1, <1>2, PTL DEF Spec

\* The heap never holds more than max_queue_size messages, whatever the number
\* of senders between their check and their push.
THEOREM QueueBounded == Spec => []BoundedQueue
BY HeapFinite, PTL

-----------------------------------------------------------------------------
\* What goes past the check of running after stop() has begun: nobody.  Until
\* then the pushes under way are counted with the messages accepted.
IntakeInv ==
  stopper # "no" =>
    ~running /\ sequence_counter + Cardinality(Pushing) <= admitted

LEMMA PushingAfterGoto ==
  ASSUME TypeOK, NEW t \in Threads, NEW label, label # "push", Goto(t, label)
  PROVE  Pushing' = Pushing \ {t}
BY DEF TypeOK, Goto, Pushing, Threads

\* A stop is not outrun: StopCutsIntake, for any number of senders.
THEOREM IntakeEnds == Spec => []StopCutsIntake
<1> USE ThreadsAssumption DEF IntakeInv, stateVars, historyVars
<1>1. Init => IntakeInv
  BY DEF Init
<1>2. TypeOK /\ IntakeInv /\ [Next]_vars => IntakeInv'
  <2> SUFFICES ASSUME TypeOK, IntakeInv, [Next]_vars PROVE IntakeInv'
    OBVIOUS
  <2>0. /\ IsFiniteSet(Pushing) /\ Cardinality(Pushing) \in Nat
        /\ sequence_counter \in Nat /\ admitted \in Nat
    BY PushingFinite DEF TypeOK
  <2>1. CASE Start
    BY <2>1 DEF Start
  <2>2. CASE StopBegin
    <3>1. Pushing' = Pushing
      BY <2>2 DEF StopBegin, Pushing
    <3>2. QED BY <2>0, <2>2, <3>1 DEF StopBegin
  <2>3. CASE StopEnd
    <3>1. Pushing' = Pushing
      BY <2>3 DEF StopEnd, Pushing
    <3>2. QED BY <2>3, <3>1 DEF StopEnd
  <2>4. ASSUME NEW t \in Senders, SendAccepted(t) PROVE IntakeInv'
    BY <2>4 DEF SendAccepted
  <2>5. ASSUME NEW t \in Senders, pc[t] = "push", Goto(t, "idle")
        PROVE  /\ Cardinality(Pushing') = Cardinality(Pushing) - 1
               /\ Cardinality(Pushing') \in Nat
    <3>1. t \in Pushing
      BY <2>5 DEF Pushing
    <3>2. Pushing' = Pushing \ {t}
      BY <2>5, PushingAfterGoto DEF Threads
    <3>3. QED
      BY <2>0, <3>1, <3>2, FS_RemoveElement, FS_CardinalityType
  <2>6. ASSUME NEW t \in Senders, PushFull(t) PROVE IntakeInv'
    <3>1. /\ pc[t] = "push" /\ Goto(t, "idle")
          /\ UNCHANGED <<running, stopper, sequence_counter, admitted>>
      BY <2>6 DEF PushFull, Return
    <3>2. QED BY <2>0, <2>5, <3>1
  <2>7. ASSUME NEW t \in Senders, NEW p \in Priorities, Push(t, p)
        PROVE  IntakeInv'
    <3>1. /\ pc[t] = "push" /\ Goto(t, "idle")
          /\ sequence_counter' = sequence_counter + 1
          /\ UNCHANGED <<running, stopper, admitted>>
      BY <2>7 DEF Push, Return
    <3>2. QED BY <2>0, <2>5, <3>1
  <2>8. ASSUME NEW t \in Threads, NEW label, pc[t] # "push", label # "push",
               Goto(t, label),
               UNCHANGED <<running, stopper, sequence_counter, admitted>>
        PROVE  IntakeInv'
    <3>1. Pushing' = Pushing
      BY <2>8, PushingAfterGoto DEF Pushing
    <3>2. QED BY <2>8, <3>1
  <2>9. CASE WorkerPop \/ WorkerExit
    BY <2>8, <2>9 DEF WorkerPop, WorkerExit, Threads
  <2>10. ASSUME NEW t \in Threads, WriteStep(t) PROVE IntakeInv'
    BY <2>8, <2>10
    DEF WriteStep, WriteCheck, DeviceWrite, CountSuccess, CountError, Latch,
        Return
  <2>11. CASE UNCHANGED vars
    <3>1. Pushing' = Pushing
      BY <2>11 DEF vars, Pushing
    <3>2. QED BY <2>11, <3>1 DEF vars
  <2>12. QED
    BY <2>1, <2>2, <2>3, <2>4, <2>6, <2>7, <2>9, <2>10, <2>11, NextCases
<1>3. TypeOK /\ IntakeInv => StopCutsIntake
  BY PushingFinite DEF TypeOK, StopCutsIntake
<1>4. QED BY <1>1, <1>2, <1>3, TypeCorrect, PTL DEF Spec

-----------------------------------------------------------------------------
\* The invariant behind the latch.

\* Before start() nobody is inside the queue, so nothing was counted.
NotStarted ==
  ~running /\ stopper = "no" =>
    /\ pc[Worker] = "none"
    /\ \A t \in Senders : pc[t] = "idle"
    /\ longest = 0

\* The counter of the code is the streak of the history.
CountIsStreak == consecutive_errors = streak

\* A thread on its way to the latch has seen enough errors.
LatchPending ==
  \A t \in Threads : pc[t] = "latch" => longest >= MaxConsecutiveErrors

StoppedStays == stopper # "no" => ~running

DeviceInv ==
  /\ NotStarted
  /\ CountIsStreak
  /\ LatchPending
  /\ StoppedStays
  /\ LatchCorrect

LEMMA DeviceInvHolds == Spec => []DeviceInv
<1> USE LimitsAssumption, ThreadsAssumption
<1>1. Init => DeviceInv
  BY DEF Init, DeviceInv, NotStarted, CountIsStreak, LatchPending,
         StoppedStays, LatchCorrect, LatchJustified, LatchNotMissed, Threads
<1>2. TypeOK /\ DeviceInv /\ [Next]_vars => DeviceInv'
  <2> SUFFICES ASSUME TypeOK, DeviceInv, [Next]_vars PROVE DeviceInv'
    OBVIOUS
  <2> USE DEF DeviceInv, NotStarted, CountIsStreak, LatchPending,
              StoppedStays, LatchCorrect, LatchJustified, LatchNotMissed,
              stateVars, historyVars, Goto, Return
  <2>0. /\ pc \in [Threads -> SenderPc \cup WorkerPc]
        /\ streak \in Nat /\ longest \in Nat
        /\ Worker \in Threads /\ Senders \subseteq Threads
    BY DEF TypeOK, Threads
  <2>1. CASE Start
    BY <2>0, <2>1 DEF Start
  <2>2. CASE StopBegin
    BY <2>0, <2>2 DEF StopBegin
  <2>3. CASE StopEnd
    BY <2>0, <2>3 DEF StopEnd
  <2>4. ASSUME NEW t \in Senders, SendAccepted(t) \/ PushFull(t)
        PROVE  DeviceInv'
    BY <2>0, <2>4 DEF SendAccepted, PushFull
  <2>5. ASSUME NEW t \in Senders, NEW p \in Priorities, Push(t, p)
        PROVE  DeviceInv'
    BY <2>0, <2>5 DEF Push
  <2>6. CASE WorkerPop
    BY <2>0, <2>6 DEF WorkerPop
  <2>7. CASE WorkerExit
    BY <2>0, <2>7 DEF WorkerExit
  <2>8. ASSUME NEW t \in Threads, WriteStep(t)
        PROVE  DeviceInv'
    <3>0. t \notin Senders => t = Worker
      BY DEF Threads
    <3>1. CASE WriteCheck(t)
      BY <2>0, <3>0, <3>1 DEF WriteCheck
    <3>2. CASE DeviceWrite(t)
      BY <2>0, <3>0, <3>2 DEF DeviceWrite
    <3>3. CASE CountSuccess(t)
      BY <2>0, <3>0, <3>3 DEF CountSuccess
    <3>4. CASE CountError(t)
      BY <2>0, <3>0, <3>4 DEF CountError
    <3>5. CASE Latch(t)
      BY <2>0, <3>0, <3>5 DEF Latch
    <3>6. QED BY <2>8, <3>1, <3>2, <3>3, <3>4, <3>5 DEF WriteStep
  <2>9. CASE UNCHANGED vars
    BY <2>9 DEF vars
  <2>10. QED
    BY <2>1, <2>2, <2>3, <2>4, <2>5, <2>6, <2>7, <2>8, <2>9, NextCases
<1>3. QED BY <1>1, <1>2, TypeCorrect, PTL DEF Spec

\* The device is declared disconnected only after max_consecutive_errors
\* failures in a row, and always after them.
THEOREM LatchExact == Spec => []LatchCorrect
BY DeviceInvHolds, PTL DEF DeviceInv

-----------------------------------------------------------------------------
(***************************************************************************)
(* The queue implements Outbox.                                            *)
(***************************************************************************)

\* The phase of the box is that of the life of the queue: new until start(),
\* closed for good by stop().
PhaseInv ==
  /\ ~running /\ stopper = "no" => ~device_disconnected
  /\ stopper # "no" => ~running /\ device_disconnected

\* The latch cannot be set before start(): nobody is inside the queue.
LEMMA PhaseInvHolds == Spec => []PhaseInv
<1> USE DEF PhaseInv, stateVars, historyVars
<1>1. Init => PhaseInv
  BY DEF Init
<1>2. TypeOK /\ DeviceInv /\ PhaseInv /\ [Next]_vars => PhaseInv'
  <2> SUFFICES ASSUME TypeOK, DeviceInv, PhaseInv, [Next]_vars
               PROVE  PhaseInv'
    OBVIOUS
  <2>1. Start \/ StopBegin \/ StopEnd \/ WorkerPop \/ WorkerExit => PhaseInv'
    BY DEF Start, StopBegin, StopEnd, WorkerPop, WorkerExit, TypeOK
  <2>2. ASSUME NEW t \in Senders, SendAccepted(t) \/ PushFull(t)
        PROVE  PhaseInv'
    BY <2>2 DEF SendAccepted, PushFull
  <2>3. ASSUME NEW t \in Senders, NEW p \in Priorities, Push(t, p)
        PROVE  PhaseInv'
    BY <2>3 DEF Push
  <2>4. ASSUME NEW t \in Threads, WriteStep(t)
        PROVE  PhaseInv'
    <3>1. CASE Latch(t)
      BY <3>1 DEF Latch, DeviceInv, NotStarted, Threads
    <3>2. CASE WriteCheck(t) \/ DeviceWrite(t) \/ CountSuccess(t)
                 \/ CountError(t)
      BY <3>2 DEF WriteCheck, DeviceWrite, CountSuccess, CountError
    <3>3. QED BY <2>4, <3>1, <3>2 DEF WriteStep
  <2>5. CASE UNCHANGED vars
    BY <2>5 DEF vars
  <2>6. QED BY <2>1, <2>2, <2>3, <2>4, <2>5, NextCases
<1>3. QED BY <1>1, <1>2, TypeCorrect, DeviceInvHolds, PTL DEF Spec

LEMMA InLane ==
  ASSUME NEW p, NEW n
  PROVE  n \in Lane(p) <=> \E i \in heap : i.priority = p /\ i.sequence = n
BY DEF Lane

\* The box holds as many tickets as the heap holds items, since no two items
\* have one number.
LEMMA WaitingIsHeap ==
  ASSUME TypeOK, Conservation, IsFiniteSet(heap)
  PROVE  Cardinality(Box!Waiting) = Cardinality(heap)
<1> DEFINE W == {i.sequence : i \in heap}
           f == [i \in heap |-> i.sequence]
<1>1. Box!Waiting = W
  <2>1. Box!Waiting = UNION {Lane(p) : p \in Priorities}
    BY DEF Box!Waiting
  <2>2. \A i \in heap : i.priority \in Priorities
    BY DEF TypeOK
  <2>3. QED BY <2>1, <2>2 DEF Lane
<1>2. \A i, j \in heap : i.sequence = j.sequence => i = j
  BY DEF Conservation, Accepted
<1>3. f \in Bijection(heap, W)
  BY <1>2, Fun_IsBij
<1>4. ExistsBijection(heap, W)
  BY <1>3 DEF ExistsBijection
<1>5. QED BY <1>1, <1>4, FS_Bijection

\* A push puts a ticket into its lane.
LEMMA PushIsPut ==
  ASSUME TypeOK, Conservation, IsFiniteSet(heap), NotStarted, PhaseInv,
         NEW t \in Senders, NEW p \in Priorities, Push(t, p)
  PROVE  Box!Put(p)
<1> DEFINE n == sequence_counter + 1
           new == [priority |-> p, sequence |-> n]
<1>1. heap' = heap \cup {new} /\ sequence_counter' = n
  BY DEF Push
<1>2. Phase # "new" /\ Phase' = Phase
  BY DEF Push, NotStarted, PhaseInv, Phase
<1>3. Cardinality(Box!Waiting) < MaxQueueSize
  BY WaitingIsHeap DEF Push
<1>4. ASSUME NEW q \in Priorities
      PROVE  Lane(q)' = IF q = p THEN Lane(q) \cup {n} ELSE Lane(q)
  <2>1. new.priority = p /\ new.sequence = n
    OBVIOUS
  <2> HIDE DEF new, n
  <2>2. QED BY <1>1, <2>1 DEF Lane
<1>5. [q \in Priorities |-> Lane(q)]'
        = [[q \in Priorities |-> Lane(q)] EXCEPT ![p] = @ \cup {n}]
  BY <1>4
<1>6. QED
  BY <1>1, <1>2, <1>3, <1>5 DEF Box!Put, Box!Cardinality, Cardinality

\* A pop takes the oldest ticket of the most urgent lane that is not empty.
LEMMA PopIsTake ==
  ASSUME TypeOK, Conservation, WorkerPop
  PROVE  \E p \in Priorities : Box!Take(p)
<1>1. PICK item \in heap :
        /\ \A other \in heap \ {item} : Precedes(item, other)
        /\ heap' = heap \ {item}
  BY DEF WorkerPop
<1> DEFINE p == item.priority
           n == item.sequence
<1>2. /\ p \in Priorities
      /\ \A i \in heap : i.priority \in Nat /\ i.sequence \in Nat
  BY PrioritiesAssumption DEF TypeOK
<1>3. Phase = "open" /\ Phase' = Phase /\ sequence_counter' = sequence_counter
  BY DEF WorkerPop, Phase
<1>4. ASSUME NEW q \in Priorities, q < p
      PROVE  Lane(q) = {}
  <2>1. \A j \in heap : j.priority # q
    BY <1>1, <1>2, <1>4 DEF Precedes
  <2>2. QED BY <2>1 DEF Lane
<1>5. n \in Lane(p) /\ \A m \in Lane(p) : n <= m
  <2>1. n \in Lane(p)
    BY InLane
  <2>2. ASSUME NEW m \in Lane(p)
        PROVE  n <= m
    <3>1. PICK j \in heap : j.priority = p /\ j.sequence = m
      BY InLane
    <3>2. CASE j = item
      BY <1>2, <3>1, <3>2
    <3>3. CASE j # item
      BY <1>1, <1>2, <3>1, <3>3 DEF Precedes
    <3>4. QED BY <3>2, <3>3
  <2>3. QED BY <2>1, <2>2
<1>6. ASSUME NEW q \in Priorities
      PROVE  Lane(q)' = IF q = p THEN Lane(q) \ {n} ELSE Lane(q)
  <2>1. \A j \in heap : j.sequence = n => j = item
    BY DEF Conservation, Accepted
  <2>2. Lane(q)' = {i.sequence : i \in {j \in heap \ {item} : j.priority = q}}
    BY <1>1 DEF Lane
  <2>3. QED BY <2>1, <2>2 DEF Lane
<1>7. [q \in Priorities |-> Lane(q)]'
        = [[q \in Priorities |-> Lane(q)] EXCEPT ![p] = @ \ {n}]
  BY <1>2, <1>6
<1>8. QED BY <1>2, <1>3, <1>4, <1>5, <1>7 DEF Box!Take

\* The steps that leave the heap alone open the box, close it, or do nothing
\* to it.
LEMMA PhaseSteps ==
  ASSUME TypeOK, NotStarted, PhaseInv, Next
  PROVE  \/ Phase = "new" /\ Phase' = "open"
         \/ Phase = "open" /\ Phase' = "closed"
         \/ Phase' = Phase
<1> USE DEF PhaseInv, Phase, stateVars, historyVars
<1>1. CASE Start
  BY <1>1 DEF Start
<1>2. CASE StopBegin
  BY <1>2 DEF StopBegin
<1>3. CASE StopEnd \/ WorkerPop \/ WorkerExit
  BY <1>3 DEF StopEnd, WorkerPop, WorkerExit
<1>4. ASSUME NEW t \in Senders, SendAccepted(t) \/ PushFull(t)
      PROVE  Phase' = Phase
  BY <1>4 DEF SendAccepted, PushFull
<1>5. ASSUME NEW t \in Senders, NEW p \in Priorities, Push(t, p)
      PROVE  Phase' = Phase
  BY <1>5 DEF Push
<1>6. ASSUME NEW t \in Threads, WriteStep(t)
      PROVE  \/ Phase = "open" /\ Phase' = "closed"
             \/ Phase' = Phase
  <2>1. CASE Latch(t)
    BY <2>1 DEF Latch, NotStarted, Threads
  <2>2. CASE WriteCheck(t) \/ DeviceWrite(t) \/ CountSuccess(t)
               \/ CountError(t)
    BY <2>2 DEF WriteCheck, DeviceWrite, CountSuccess, CountError
  <2>3. QED BY <1>6, <2>1, <2>2 DEF WriteStep
<1>7. CASE UNCHANGED vars
  BY <1>7 DEF vars
<1>8. QED BY <1>1, <1>2, <1>3, <1>4, <1>5, <1>6, <1>7, NextCases

\* The code of the queue does what the abstract mailbox does: bounded, first
\* in first out within a priority, strictly by priority, closed for good.
THEOREM QueueIsOutbox == Spec => ImplementsOutbox
<1> DEFINE Inv == /\ TypeOK /\ Conservation /\ IsFiniteSet(heap)
                  /\ NotStarted /\ PhaseInv
<1>1. Init => Box!Init
  BY DEF Init, Box!Init, Lane, Phase
<1>2. Inv /\ [Next]_vars => [Box!Next]_Box!boxVars
  <2> SUFFICES ASSUME Inv, [Next]_vars PROVE [Box!Next]_Box!boxVars
    OBVIOUS
  <2>1. ASSUME NEW t \in Senders, NEW p \in Priorities, Push(t, p)
        PROVE  Box!Next
    BY <2>1, PushIsPut DEF Box!Next
  <2>2. CASE WorkerPop
    BY <2>2, PopIsTake DEF Box!Next
  <2>3. ASSUME Next, UNCHANGED <<heap, sequence_counter, handed>>
        PROVE  [Box!Next]_Box!boxVars
    <3>1. UNCHANGED <<[p \in Priorities |-> Lane(p)], sequence_counter>>
      BY <2>3 DEF Lane
    <3>2. QED
      BY <2>3, <3>1, PhaseSteps
      DEF Box!Next, Box!Open, Box!Close, Box!boxVars
  <2>4. CASE UNCHANGED vars
    BY <2>4 DEF vars, stateVars, historyVars, Box!boxVars, Lane, Phase
  <2>5. QED BY <2>1, <2>2, <2>3, <2>4, HeapCases
<1>3. QED
  <2>1. Spec => []Inv
    BY TypeCorrect, NothingLost, HeapFinite, DeviceInvHolds, PhaseInvHolds,
       PTL DEF DeviceInv
  <2>2. QED BY <1>1, <1>2, <2>1, PTL DEF Spec, ImplementsOutbox, Box!Spec

-----------------------------------------------------------------------------
(***************************************************************************)
(* The order of the heap, and the end of stop().                           *)
(***************************************************************************)

LEMMA LeastNatural ==
  ASSUME NEW S \in SUBSET Nat, S # {}
  PROVE  \E n \in S : \A m \in S : n <= m
<1>1. PICK n \in S : \A m \in S : <<m, n>> \notin OpToRel(<, Nat)
  BY WFMin, NatLessThanWellFounded
<1>2. \A m \in S : ~(m < n)
  BY <1>1 DEF OpToRel
<1>3. QED BY <1>2

\* QueueItem::cmp is a strict order: an item that precedes another is not
\* preceded by it, and of two with different numbers one precedes the other.
Items == [priority : Priorities, sequence : Nat \ {0}]

LEMMA PrecedesIsStrict ==
  ASSUME NEW a \in Items, NEW b \in Items
  PROVE  /\ ~(Precedes(a, b) /\ Precedes(b, a))
         /\ a.sequence # b.sequence => Precedes(a, b) \/ Precedes(b, a)
<1>1. /\ a.priority \in Nat /\ b.priority \in Nat
      /\ a.sequence \in Nat /\ b.sequence \in Nat
  BY PrioritiesAssumption DEF Items
<1>2. QED BY <1>1 DEF Precedes

\* The first item of a set: the oldest of the most urgent.
LEMMA FirstExists ==
  ASSUME NEW S \in SUBSET Items, S # {},
         \A i, j \in S : i.sequence = j.sequence => i = j
  PROVE  \E item \in S : \A other \in S \ {item} : Precedes(item, other)
<1> USE PrioritiesAssumption DEF Items
<1>1. PICK p \in {i.priority : i \in S} :
        \A q \in {i.priority : i \in S} : p <= q
  <2> DEFINE priorities == {i.priority : i \in S}
  <2>1. \A i \in S : i.priority \in Nat
    OBVIOUS
  <2>2. priorities \in SUBSET Nat
    BY <2>1
  <2>3. priorities # {}
    <3>1. PICK i \in S : TRUE
      OBVIOUS
    <3>2. i.priority \in priorities
      BY Zenon
    <3>3. QED BY <3>2
  <2> HIDE DEF priorities
  <2>4. \E p \in priorities : \A q \in priorities : p <= q
    BY <2>2, <2>3, LeastNatural
  <2>5. QED BY <2>4 DEF priorities
<1> DEFINE urgent == {i \in S : i.priority = p}
<1>2. PICK n \in {i.sequence : i \in urgent} :
        \A m \in {i.sequence : i \in urgent} : n <= m
  <2>1. urgent # {}
    BY <1>1
  <2>2. /\ {i.sequence : i \in urgent} \in SUBSET Nat
        /\ {i.sequence : i \in urgent} # {}
    BY <2>1
  <2>3. QED BY <2>2, LeastNatural
<1>3. PICK item \in urgent : item.sequence = n
  BY <1>2
<1>4. ASSUME NEW other \in S \ {item} PROVE Precedes(item, other)
  <2>1. /\ item.priority = p /\ item.sequence = n /\ item \in S
        /\ p \in Nat /\ other.priority \in Nat
        /\ n \in Nat /\ other.sequence \in Nat
    BY <1>3
  <2>2. p <= other.priority
    BY <1>1
  <2>3. CASE other.priority = p
    <3>1. n <= other.sequence
      BY <1>2, <2>3
    <3>2. n # other.sequence
      BY <2>1, <1>4
    <3>3. QED BY <2>1, <2>3, <3>1, <3>2 DEF Precedes
  <2>4. QED BY <2>1, <2>2, <2>3 DEF Precedes
<1>5. QED BY <1>3, <1>4

\* A heap that is not empty has one top and only one, so that what is taken
\* next depends on the messages alone, never on how the heap is laid out; and
\* an open queue never leaves the worker without a message it could take.
OneTop ==
  heap # {} =>
    \E item \in heap :
      /\ \A other \in heap \ {item} : Precedes(item, other)
      /\ \A rival \in heap :
           (\A other \in heap \ {rival} : Precedes(rival, other))
             => rival = item

THEOREM TopIsUnique == Spec => []OneTop
<1>1. TypeOK /\ Conservation => OneTop
  <2> SUFFICES ASSUME TypeOK, Conservation, heap # {} PROVE OneTop
    BY DEF OneTop
  <2>1. heap \in SUBSET Items
    BY DEF TypeOK, Items
  <2>2. \A i, j \in heap : i.sequence = j.sequence => i = j
    BY DEF Conservation, Accepted
  <2>3. PICK item \in heap : \A other \in heap \ {item} : Precedes(item, other)
    BY <2>1, <2>2, FirstExists
  <2>4. ASSUME NEW rival \in heap,
               \A other \in heap \ {rival} : Precedes(rival, other)
        PROVE  rival = item
    BY <2>1, <2>3, <2>4, PrecedesIsStrict
  <2>5. QED BY <2>3, <2>4 DEF OneTop
<1>2. QED BY <1>1, TypeCorrect, NothingLost, PTL

\* How many steps a thread takes at most until it is out of the queue, once
\* the queue is stopped.
Rank(label) ==
  CASE label = "write" -> 4
    [] label = "error" -> 3
    [] label \in {"check", "ok", "latch"} -> 2
    [] label \in {"push", "wait"} -> 1
    [] OTHER -> 0

Closer(t) == pc'[t] = pc[t] \/ Rank(pc'[t]) < Rank(pc[t])

LEMMA GotoIsCloser ==
  ASSUME TypeOK, NEW t \in Threads, NEW label, Goto(t, label),
         Rank(label) < Rank(pc[t])
  PROVE  \A u \in Threads : Closer(u)
BY DEF TypeOK, Goto, Closer

\* Once stop() has begun it is not taken back, no call of send() gets in, and
\* every thread is out after a few steps, wherever it was: the worker writes
\* at most what it was already writing.  So the join of stop() waits for no
\* more than four steps ("we trust the worker to observe running=false and
\* exit promptly", stop, lines 134-135); that they are taken, the return of
\* libc::write among them, is left to the fairness of the runs.
THEOREM StopIsShort ==
  Spec => [][stopper # "no" =>
               stopper' # "no" /\ \A t \in Threads : Closer(t)]_vars
<1>1. ASSUME TypeOK, PhaseInv, [Next]_vars, stopper # "no"
      PROVE  stopper' # "no" /\ \A t \in Threads : Closer(t)
  <2> USE DEF stateVars, historyVars
  <2>0. ~running /\ device_disconnected
    BY <1>1 DEF PhaseInv
  <2>1. CASE UNCHANGED <<pc, stopper>>
    BY <1>1, <2>1 DEF Closer
  <2>2. /\ ~Start /\ ~StopBegin /\ ~WorkerPop
        /\ \A t \in Senders : ~SendAccepted(t)
    BY <1>1, <2>0 DEF Start, StopBegin, WorkerPop, SendAccepted
  <2>3. CASE StopEnd
    BY <2>3 DEF StopEnd, Closer
  <2>4. ASSUME NEW t \in Senders,
               PushFull(t) \/ \E p \in Priorities : Push(t, p)
        PROVE  stopper' # "no" /\ \A u \in Threads : Closer(u)
    <3>1. /\ pc[t] = "push" /\ Goto(t, "idle") /\ UNCHANGED stopper
          /\ t \in Threads
      BY <2>4, ThreadsAssumption DEF PushFull, Push, Return, Threads
    <3>2. QED BY <1>1, <3>1, GotoIsCloser DEF Rank
  <2>5. CASE WorkerExit
    <3>1. /\ pc[Worker] = "wait" /\ Goto(Worker, "exited")
          /\ UNCHANGED stopper /\ Worker \in Threads
      BY <2>5 DEF WorkerExit, Threads
    <3>2. QED BY <1>1, <3>1, GotoIsCloser DEF Rank
  <2>6. ASSUME NEW t \in Threads, WriteStep(t)
        PROVE  stopper' # "no" /\ \A u \in Threads : Closer(u)
    <3>1. UNCHANGED stopper
      BY <2>6 DEF WriteStep, WriteCheck, DeviceWrite, CountSuccess, CountError,
                  Latch
    <3>2. \/ Goto(t, "idle") \/ Goto(t, "wait")
          \/ pc[t] = "write" /\ (Goto(t, "ok") \/ Goto(t, "error"))
          \/ pc[t] = "error" /\ Goto(t, "latch")
      BY <2>0, <2>6
      DEF WriteStep, WriteCheck, DeviceWrite, CountSuccess, CountError, Latch,
          Return
    <3>3. pc[t] \in {"check", "write", "ok", "error", "latch"}
      BY <2>6 DEF WriteStep, WriteCheck, DeviceWrite, CountSuccess, CountError,
                  Latch
    <3>4. \E label \in {"idle", "wait", "ok", "error", "latch"} :
            Goto(t, label) /\ Rank(label) < Rank(pc[t])
      <4>1. \A label \in {"idle", "wait"} : Rank(label) < Rank(pc[t])
        BY <3>3 DEF Rank
      <4>2. pc[t] = "write" => \A label \in {"ok", "error"} :
                                 Rank(label) < Rank(pc[t])
        BY DEF Rank
      <4>3. pc[t] = "error" => Rank("latch") < Rank(pc[t])
        BY DEF Rank
      <4>4. QED BY <3>2, <4>1, <4>2, <4>3, Zenon
    <3>5. QED BY <1>1, <3>1, <3>4, GotoIsCloser
  <2>7. UNCHANGED vars => UNCHANGED <<pc, stopper>>
    BY DEF vars
  <2>8. QED
    BY <1>1, <2>1, <2>2, <2>3, <2>4, <2>5, <2>6, <2>7, NextCases
<1>2. TypeOK /\ PhaseInv /\ [Next]_vars =>
        [stopper # "no" =>
           stopper' # "no" /\ \A t \in Threads : Closer(t)]_vars
  BY <1>1
<1>3. QED BY <1>2, TypeCorrect, PhaseInvHolds, PTL DEF Spec
=============================================================================

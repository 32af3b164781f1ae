-------------------------- MODULE EventQueueProofs --------------------------
(***************************************************************************)
(* Proofs about EventQueue, for any queues, events, enqueue calls, failing *)
(* work and null handles: type correctness, in-order completion, a queue   *)
(* that drains before it stops, failures that reach every dependent, and   *)
(* exact reference counts.                                                 *)
(***************************************************************************)
EXTENDS EventQueue, TLAPS, FiniteSetTheorems, SequenceTheorems

-----------------------------------------------------------------------------
(* Types.                                                                  *)

NumberType ==
  /\ created \in 0 .. MaxEvents
  /\ counter \in [Events -> Nat] /\ error \in [Events -> Results]
  /\ refs \in [Events -> Int] /\ held \in [Events -> Nat] /\ leaked \in [Events -> Nat]

OriginType ==
  origin \in [Events -> [queue : Queues \cup {NoQueue}, cmd : Command \cup {NoCommand}]]

EventType == NumberType /\ OriginType

QueueType ==
  /\ fifo \in [Queues -> Seq(Command)]
  /\ enq \in [Queues -> Nat] /\ done \in [Queues -> Nat]
  /\ shutdown \in [Queues -> BOOLEAN]
  /\ finish \in [Queues -> Events \cup {NoEvent}]

WorkerType ==
  /\ pc \in [Queues -> PcStates] /\ cmd \in [Queues -> Command \cup {NoCommand}]
  /\ dep \in [Queues -> Nat] /\ \A q \in Queues : dep[q] <= Len(cmd[q].waits)
  /\ res \in [Queues -> Results]

Busy(q) == pc[q] \in {"deps", "work", "complete"}

\* A busy worker has a command; one without is at the top of its loop.
IdleInv ==
  \A q \in Queues :
    /\ Busy(q) => cmd[q] \in Command
    /\ ~Busy(q) => dep[q] = 0 /\ cmd[q] = NoCommand /\ res[q] = "ok"

TInv == EventType /\ QueueType /\ WorkerType /\ IdleInv

LEMMA TypeParts == TypeOK <=> EventType /\ QueueType /\ WorkerType
BY DEF TypeOK, EventType, NumberType, OriginType, QueueType, WorkerType

\* The references a command takes are a number.
LEMMA TakenNat ==
  ASSUME NEW waits \in Seq(Events), NEW w, NEW e
  PROVE  Taken(w, waits, e) \in Nat
<1> DEFINE S == {i \in DOMAIN waits : waits[i] = e}
<1>1. Len(waits) \in Nat /\ DOMAIN waits = 1 .. Len(waits)
  OBVIOUS
<1>2. IsFiniteSet(1 .. Len(waits))
  BY <1>1, FS_Interval
<1>3. S \subseteq 1 .. Len(waits)
  BY <1>1
<1>4. IsFiniteSet(S)
  BY <1>2, <1>3, FS_Subset
<1>5. Cardinality(S) \in Nat
  BY <1>4, FS_CardinalityType
<1> QED BY <1>5 DEF Taken

LEMMA CommandParts ==
  ASSUME NEW c \in Command
  PROVE  c.waits \in Seq(Events) /\ c.completion \in Events /\ c.work \in Work /\ c.n \in Nat
BY DEF Command

LEMMA BarrierWork == Barrier \in Work /\ NoCommand.work \in Work /\ NoCommand.waits = << >>
BY DEF Barrier, Work, NoCommand

\* What enqueue() pushes is a command.
LEMMA PushedCommand ==
  ASSUME TInv, NEW q \in Queues, NEW w \in Work, NEW waits \in Seq(Events),
         created < MaxEvents
  PROVE  /\ created + 1 \in Events
         /\ [waits |-> waits, completion |-> created + 1, work |-> w, n |-> enq[q] + 1] \in Command
BY QueueAssumption DEF TInv, EventType, NumberType, QueueType, Events, Command

\* The history of an event's origin changes with the creation of a command only.
LEMMA OriginStays ==
  ASSUME TInv, UNCHANGED origin
  PROVE  OriginType'
BY DEF TInv, EventType, OriginType

LEMMA PushType ==
  ASSUME TInv, NEW q \in Queues, NEW w \in Work, NEW waits \in Seq(Events), NEW kept \in {0, 1},
         Push(q, w, waits, kept),
         held' \in [Events -> Nat], finish' \in [Queues -> Events \cup {NoEvent}]
  PROVE  TInv'
<1> DEFINE c == [waits |-> waits, completion |-> created + 1, work |-> w, n |-> enq[q] + 1]
<1>1. created < MaxEvents
  BY DEF Push
<1>2. created + 1 \in Events /\ c \in Command
  BY <1>1, PushedCommand
<1>3. created' \in 0 .. MaxEvents
  BY <1>1, QueueAssumption DEF Push, TInv, EventType, NumberType
<1>4. counter' \in [Events -> Nat] /\ error' \in [Events -> Results] /\ leaked' \in [Events -> Nat]
  BY DEF Push, TInv, EventType, NumberType
<1>5. refs' \in [Events -> Int]
  <2>1. \A e \in Events : Taken(w, waits, e) \in Nat
    BY TakenNat
  <2> QED BY <2>1 DEF Push, TInv, EventType, NumberType
<1>6. OriginType'
  <2>1. origin' = [origin EXCEPT ![created + 1] = [queue |-> q, cmd |-> c]]
    BY DEF Push
  <2>2. [queue |-> q, cmd |-> c] \in [queue : Queues \cup {NoQueue}, cmd : Command \cup {NoCommand}]
    BY <1>2
  <2> HIDE DEF c
  <2> QED BY <2>1, <2>2 DEF TInv, EventType, OriginType
<1>7. fifo' \in [Queues -> Seq(Command)]
  <2>1. fifo' = [fifo EXCEPT ![q] = Append(fifo[q], c)]
    BY DEF Push
  <2> HIDE DEF c
  <2>2. Append(fifo[q], c) \in Seq(Command)
    BY <1>2 DEF TInv, QueueType
  <2> QED BY <2>1, <2>2 DEF TInv, QueueType
<1>8. enq' \in [Queues -> Nat] /\ done' \in [Queues -> Nat] /\ shutdown' \in [Queues -> BOOLEAN]
  BY DEF Push, TInv, QueueType
<1>9. WorkerType' /\ IdleInv'
  BY DEF Push, TInv, WorkerType, IdleInv, Busy, workVars
<1> QED BY <1>3, <1>4, <1>5, <1>6, <1>7, <1>8, <1>9 DEF TInv, EventType, NumberType, QueueType

LEMMA OrderParts ==
  ASSUME NEW o \in Orders
  PROVE  o.queue \in Queues /\ o.work \in Work /\ o.waits \in Seq(Events)
BY OrdersAssumption

LEMMA EnqueueType ==
  ASSUME TInv, NEW q \in Queues, NEW w \in Work, NEW waits \in Seq(Events), Enqueue(q, w, waits)
  PROVE  TInv'
<1>1. PICK k \in {0, 1} : Push(q, w, waits, k) /\ held' = [held EXCEPT ![created + 1] = k]
  BY DEF Enqueue
<1>2. held' \in [Events -> Nat]
  <2>1. created + 1 \in Events
    BY <1>1, PushedCommand DEF Push
  <2> QED BY <1>1, <2>1 DEF TInv, EventType, NumberType
<1>3. finish' \in [Queues -> Events \cup {NoEvent}]
  BY DEF Enqueue, TInv, QueueType
<1> QED BY <1>1, <1>2, <1>3, PushType

LEMMA EnqueueNullType ==
  ASSUME TInv, NEW q \in Queues, NEW w \in Work, NEW waits \in Seq(Events), EnqueueNull(q, w, waits)
  PROVE  TInv'
<1>1. \A e \in Events : Taken(w, waits, e) \in Nat
  BY TakenNat
<1>2. EventType'
  <2>1. NumberType'
    BY <1>1 DEF EnqueueNull, TInv, EventType, NumberType
  <2> QED BY <2>1, OriginStays DEF EnqueueNull, EventType
<1>3. QueueType' /\ WorkerType' /\ IdleInv'
  BY DEF EnqueueNull, TInv, QueueType, WorkerType, IdleInv, Busy, workVars
<1> QED BY <1>2, <1>3 DEF TInv

LEMMA FinishStartType ==
  ASSUME TInv, NEW q \in Queues, FinishStart(q)
  PROVE  TInv'
<1>1. Push(q, Barrier, << >>, 1)
  BY DEF FinishStart
<1>2. held' \in [Events -> Nat]
  BY DEF FinishStart, TInv, EventType, NumberType
<1>3. created + 1 \in Events
  <2>1. created < MaxEvents /\ Barrier \in Work /\ << >> \in Seq(Events)
    BY <1>1, BarrierWork DEF Push
  <2> QED BY <2>1, PushedCommand
<1>4. finish' \in [Queues -> Events \cup {NoEvent}]
  BY <1>3 DEF FinishStart, TInv, QueueType
<1>5. Barrier \in Work /\ << >> \in Seq(Events) /\ 1 \in {0, 1}
  BY BarrierWork
<1> QED BY <1>1, <1>2, <1>4, <1>5, PushType

\* A step of the application on the events.
LEMMA AppEventType ==
  ASSUME TInv, AppEvent
  PROVE  TInv'
<1>1. CASE CreateEvent
  <2>1. EventType'
    <3>1. created + 1 \in Events
      BY <1>1, QueueAssumption DEF CreateEvent, TInv, EventType, NumberType, Events
    <3>2. NumberType'
      BY <1>1, <3>1, QueueAssumption DEF CreateEvent, TInv, EventType, NumberType
    <3> QED BY <1>1, <3>2, OriginStays DEF CreateEvent, EventType
  <2> QED BY <1>1, <2>1 DEF CreateEvent, TInv, QueueType, WorkerType, IdleInv, Busy, workVars
<1>2. ASSUME NEW e \in Events, NEW v \in 1 .. MaxValue, SignalEvent(e, v)
      PROVE  TInv'
  <2>1. Signalled(e, v) \in Nat
    BY <1>2, QueueAssumption DEF Signalled, TInv, EventType, NumberType
  <2>2. EventType'
    <3>1. NumberType'
      BY <1>2, <2>1 DEF SignalEvent, TInv, EventType, NumberType
    <3> QED BY <1>2, <3>1, OriginStays DEF SignalEvent, EventType
  <2> QED BY <1>2, <2>2 DEF SignalEvent, TInv, QueueType, WorkerType, IdleInv, Busy, workVars
<1>3. ASSUME NEW e \in Events, RetainEvent(e) \/ ReleaseEvent(e)
      PROVE  TInv'
  <2>1. EventType'
    <3>1. NumberType'
      BY <1>3 DEF RetainEvent, ReleaseEvent, Valid, TInv, EventType, NumberType
    <3> QED BY <1>3, <3>1, OriginStays DEF RetainEvent, ReleaseEvent, EventType
  <2> QED BY <1>3, <2>1 DEF RetainEvent, ReleaseEvent, TInv, QueueType, WorkerType, IdleInv, Busy, workVars
<1> QED BY <1>1, <1>2, <1>3 DEF AppEvent

\* A busy worker has a command in hand; no other worker has one that is not of
\* its queue's.
LEMMA InHandCommand ==
  ASSUME TInv, NEW q \in Queues
  PROVE  /\ cmd[q].work \in Work /\ cmd[q].waits \in Seq(Events) /\ Len(cmd[q].waits) \in Nat
         /\ dep[q] < Len(cmd[q].waits) => NextDep(q) \in Events
<1>1. cmd[q].work \in Work /\ cmd[q].waits \in Seq(Events)
  <2>1. CASE cmd[q] \in Command
    BY <2>1, CommandParts
  <2>2. CASE cmd[q] = NoCommand
    BY <2>2, BarrierWork
  <2> QED BY <2>1, <2>2 DEF TInv, WorkerType
<1>2. Len(cmd[q].waits) \in Nat
  BY <1>1
<1>3. ASSUME dep[q] < Len(cmd[q].waits) PROVE NextDep(q) \in Events
  <2>1. dep[q] + 1 \in 1 .. Len(cmd[q].waits)
    BY <1>2, <1>3 DEF TInv, WorkerType
  <2> QED BY <1>1, <2>1 DEF NextDep
<1> QED BY <1>1, <1>2, <1>3

LEMMA WorkerStepType ==
  ASSUME TInv, NEW q \in Queues, Worker(q)
  PROVE  TInv'
<1>h. /\ cmd[q].work \in Work /\ cmd[q].waits \in Seq(Events) /\ Len(cmd[q].waits) \in Nat
      /\ dep[q] < Len(cmd[q].waits) => NextDep(q) \in Events
  BY InHandCommand
<1>1. CASE Pop(q)
  <2>1. Head(fifo[q]) \in Command /\ Tail(fifo[q]) \in Seq(Command)
    BY <1>1 DEF Pop, TInv, QueueType
  <2>2. Head(fifo[q]).waits \in Seq(Events)
    BY <2>1, CommandParts
  <2>3. Len(Head(fifo[q]).waits) >= 0
    BY <2>2
  <2>4. dep[q] = 0
    BY <1>1 DEF Pop, TInv, IdleInv, Busy
  <2>5. WorkerType'
    BY <1>1, <2>1, <2>3, <2>4 DEF Pop, TInv, WorkerType, PcStates
  <2>6. IdleInv'
    BY <1>1, <2>1 DEF Pop, TInv, IdleInv, Busy, WorkerType
  <2>7. QueueType'
    BY <1>1, <2>1 DEF Pop, TInv, QueueType
  <2>8. EventType'
    BY <1>1 DEF Pop, TInv, EventType, NumberType, OriginType, evVars
  <2> QED BY <2>5, <2>6, <2>7, <2>8 DEF TInv
<1>2. CASE Stop(q)
  <2>1. WorkerType' /\ IdleInv'
    BY <1>2 DEF Stop, TInv, WorkerType, IdleInv, Busy, PcStates
  <2> QED BY <1>2, <2>1 DEF Stop, TInv, EventType, NumberType, OriginType, QueueType, evVars
<1>3. CASE WaitDep(q)
  <2>1. EventType' /\ QueueType'
    <3>1. NumberType'
      BY <1>3, <1>h DEF WaitDep, TInv, EventType, NumberType
    <3>2. QueueType'
      BY <1>3 DEF WaitDep, TInv, QueueType
    <3> QED BY <1>3, <3>1, <3>2, OriginStays DEF WaitDep, EventType
  <2>2. error[NextDep(q)] \in Results
    BY <1>3, <1>h DEF WaitDep, TInv, EventType, NumberType
  <2>3. WorkerType'
    BY <1>3, <1>h, <2>2 DEF WaitDep, TInv, WorkerType
  <2>4. IdleInv'
    BY <1>3 DEF WaitDep, TInv, IdleInv, Busy, WorkerType
  <2> QED BY <2>1, <2>3, <2>4 DEF TInv
<1>4. CASE DepsDone(q)
  <2>1. EventType' /\ QueueType'
    <3>1. NumberType'
      <4>1. cmd[q].work.ev \in Events \cup {NoEvent}
        BY <1>h DEF Work
      <4> DEFINE target == cmd[q].work.ev
      <4>2. \/ leaked' = leaked
            \/ target # NoEvent /\ leaked' = [leaked EXCEPT ![target] = leaked[target] + 1]
        BY <1>4 DEF DepsDone
      <4>3. NumberType /\ leaked \in [Events -> Nat]
        BY DEF TInv, EventType, NumberType
      <4> HIDE DEF target
      <4>4. target \in Events \cup {NoEvent}
        BY <4>1 DEF target
      <4>5. leaked' \in [Events -> Nat]
        BY <4>2, <4>3, <4>4
      <4>6. UNCHANGED <<created, counter, error, refs, held>>
        BY <1>4 DEF DepsDone
      <4> QED BY <4>3, <4>5, <4>6 DEF NumberType
    <3>2. QueueType'
      BY <1>4 DEF DepsDone, TInv, QueueType
    <3> QED BY <1>4, <3>1, <3>2, OriginStays DEF DepsDone, EventType
  <2>2. WorkerType' /\ IdleInv'
    BY <1>4 DEF DepsDone, TInv, WorkerType, IdleInv, Busy, PcStates
  <2> QED BY <2>1, <2>2 DEF TInv
<1>5. ASSUME NEW r \in Results, WorkDone(q, r), pc[q] = "work",
             counter' \in [Events -> Nat], refs' \in [Events -> Int]
      PROVE  TInv'
  <2>1. EventType' /\ QueueType'
    <3>1. NumberType'
      BY <1>5 DEF WorkDone, TInv, EventType, NumberType
    <3>2. QueueType'
      BY <1>5 DEF WorkDone, TInv, QueueType
    <3> QED BY <1>5, <3>1, <3>2, OriginStays DEF WorkDone, EventType
  <2>2. WorkerType' /\ IdleInv'
    BY <1>5 DEF WorkDone, TInv, WorkerType, IdleInv, Busy, PcStates
  <2> QED BY <2>1, <2>2 DEF TInv
<1>6. CASE RunDevice(q)
  <2>1. PICK r \in Results : WorkDone(q, r)
    BY <1>6 DEF RunDevice, Results
  <2>2. counter' \in [Events -> Nat] /\ refs' \in [Events -> Int]
    BY <1>6 DEF RunDevice, TInv, EventType, NumberType
  <2> QED BY <1>5, <1>6, <2>1, <2>2 DEF RunDevice
<1>7. CASE RunBarrier(q)
  <2>1. counter' \in [Events -> Nat] /\ refs' \in [Events -> Int]
    BY <1>7 DEF RunBarrier, TInv, EventType, NumberType
  <2> QED BY <1>5, <1>7, <2>1 DEF RunBarrier, Results
<1>8. CASE RunSignal(q)
  <2>1. cmd[q].work.ev \in Events /\ cmd[q].work.val \in Nat
    BY <1>8, <1>h, QueueAssumption DEF RunSignal, Work
  <2>2. Signalled(cmd[q].work.ev, cmd[q].work.val) \in Nat
    BY <2>1 DEF Signalled, TInv, EventType, NumberType
  <2>3. counter' \in [Events -> Nat] /\ refs' \in [Events -> Int]
    BY <1>8, <2>1, <2>2 DEF RunSignal, TInv, EventType, NumberType
  <2> QED BY <1>5, <1>8, <2>3 DEF RunSignal, Results
<1>9. CASE RunWait(q)
  <2>1. cmd[q].work.ev \in Events
    BY <1>9, <1>h DEF RunWait, Work
  <2>2. counter' \in [Events -> Nat] /\ refs' \in [Events -> Int]
    BY <1>9, <2>1 DEF RunWait, TInv, EventType, NumberType
  <2>3. error[cmd[q].work.ev] \in Results
    BY <2>1 DEF TInv, EventType, NumberType
  <2> QED BY <1>5, <1>9, <2>2, <2>3 DEF RunWait
<1>10. CASE Complete(q)
  <2>1. EventType' /\ QueueType'
    <3>1. NumberType'
      <4>1. cmd[q].completion \in Events
        BY <1>10, CommandParts DEF Complete, TInv, IdleInv, Busy
      <4>2. res[q] \in Results
        BY DEF TInv, WorkerType
      <4>3. NumberType
        BY DEF TInv, EventType
      <4>4. EventComplete(cmd[q].completion, res[q]) /\ UNCHANGED <<created, held, leaked>>
        BY <1>10 DEF Complete
      <4>5. refs' = [refs EXCEPT ![cmd[q].completion] = refs[cmd[q].completion] - 1]
        BY <1>10 DEF Complete
      <4>6. refs' \in [Events -> Int]
        BY <4>1, <4>3, <4>5 DEF NumberType
      <4>7. counter' \in [Events -> Nat] /\ error' \in [Events -> Results]
        BY <4>1, <4>2, <4>3, <4>4 DEF EventComplete, NumberType
      <4> QED BY <4>3, <4>4, <4>6, <4>7 DEF NumberType
    <3>2. QueueType'
      BY <1>10 DEF Complete, TInv, QueueType
    <3> QED BY <1>10, <3>1, <3>2, OriginStays DEF Complete, EventType
  <2>2. WorkerType' /\ IdleInv'
    BY <1>10, BarrierWork DEF Complete, NextIteration, TInv, WorkerType, IdleInv, Busy, PcStates, Results
  <2> QED BY <2>1, <2>2 DEF TInv
<1> QED BY <1>1, <1>2, <1>3, <1>4, <1>6, <1>7, <1>8, <1>9, <1>10 DEF Worker

LEMMA AppQueueType ==
  ASSUME TInv, NEW q \in Queues, AppQueue(q)
  PROVE  TInv'
<1>1. ASSUME NEW o \in Orders, Enqueue(q, o.work, o.waits) \/ EnqueueNull(q, o.work, o.waits)
      PROVE  TInv'
  BY <1>1, OrderParts, EnqueueType, EnqueueNullType
<1>2. CASE FinishStart(q)
  BY <1>2, FinishStartType
<1>3. CASE FinishEnd(q)
  <2>1. EventType'
    <3>1. refs \in [Events -> Int] /\ refs' = [refs EXCEPT ![finish[q]] = refs[finish[q]] - 1]
      BY <1>3 DEF FinishEnd, TInv, EventType, NumberType
    <3>2. finish[q] \in Events
      BY <1>3 DEF FinishEnd, TInv, QueueType
    <3>3. refs' \in [Events -> Int]
      BY <3>1, <3>2
    <3>4. UNCHANGED <<created, counter, error, held, origin, leaked>>
      BY <1>3 DEF FinishEnd
    <3>5. NumberType'
      BY <3>3, <3>4 DEF TInv, EventType, NumberType
    <3> QED BY <3>4, <3>5, OriginStays DEF EventType
  <2>2. QueueType'
    BY <1>3 DEF FinishEnd, TInv, QueueType
  <2>3. WorkerType' /\ IdleInv'
    BY <1>3 DEF FinishEnd, TInv, WorkerType, IdleInv, Busy, workVars
  <2> QED BY <2>1, <2>2, <2>3 DEF TInv
<1>4. CASE ReleaseQueue(q)
  BY <1>4 DEF ReleaseQueue, TInv, EventType, NumberType, OriginType, QueueType, WorkerType, IdleInv, Busy, workVars, evVars
<1> QED BY <1>1, <1>2, <1>3, <1>4 DEF AppQueue, FinishReturn, FinishTimeout

LEMMA InitType == Init => TInv
<1> SUFFICES ASSUME Init PROVE TInv
  OBVIOUS
<1>1. EventType
  BY QueueAssumption DEF Init, EventType, NumberType, OriginType, Results, Events
<1>2. QueueType
  BY DEF Init, QueueType
<1>3. WorkerType /\ IdleInv
  BY BarrierWork DEF Init, WorkerType, IdleInv, Busy, PcStates, Results
<1> QED BY <1>1, <1>2, <1>3 DEF TInv

LEMMA NextType == TInv /\ [Next]_vars => TInv'
<1> SUFFICES ASSUME TInv, [Next]_vars PROVE TInv'
  OBVIOUS
<1>1. CASE AppEvent
  BY <1>1, AppEventType
<1>2. ASSUME NEW q \in Queues, AppQueue(q) \/ Worker(q) PROVE TInv'
  BY <1>2, AppQueueType, WorkerStepType
<1>3. CASE UNCHANGED vars
  BY <1>3 DEF vars, evVars, workVars, TInv, EventType, NumberType, OriginType, QueueType, WorkerType, IdleInv, Busy
<1> QED BY <1>1, <1>2, <1>3 DEF Next

(***************************************************************************)
(* The queues, their workers and the events keep their types, for any      *)
(* queues, enqueue calls, failing work and null handles (queue.cpp,        *)
(* event.cpp).                                                             *)
(***************************************************************************)
THEOREM QueueTypeCorrect == Spec => []TypeOK
<1>1. TInv => TypeOK
  BY TypeParts DEF TInv
<1> QED BY <1>1, InitType, NextType, PTL DEF Spec
-----------------------------------------------------------------------------
(* The inductive invariant.                                                *)

InHand(q) == IF Busy(q) THEN 1 ELSE 0

\* The event a command completes was created for it.
Issued(q, c) ==
  /\ c.completion \in 1 .. created
  /\ origin[c.completion] = [queue |-> q, cmd |-> c]

\* Commands are numbered from 1 in each queue: first those completed, then the
\* one in the worker's hand, then the FIFO.
FifoOk(q) ==
  /\ enq[q] = done[q] + InHand(q) + Len(fifo[q])
  /\ \A i \in 1 .. Len(fifo[q]) :
       fifo[q][i].n = done[q] + InHand(q) + i /\ Issued(q, fifo[q][i])
  /\ Busy(q) => cmd[q].n = done[q] + 1 /\ Issued(q, cmd[q])
  /\ pc[q] = "stopped" => shutdown[q] /\ fifo[q] = << >>

FifoInv == \A q \in Queues : FifoOk(q)

\* Events not created yet are untouched; the event of a command records it, and a
\* command refers to events created before its own.
OriginInv ==
  \A e \in Events :
    /\ e > created => origin[e].queue = NoQueue /\ counter[e] = 0 /\ held[e] = 0
    /\ origin[e].queue # NoQueue =>
         LET c == origin[e].cmd IN
         /\ c \in Command /\ c.completion = e
         /\ c.n \in 1 .. enq[origin[e].queue]
         /\ \A i \in 1 .. Len(c.waits) : c.waits[i] < e
         /\ c.work.kind = "signal" => c.work.ev < e /\ Timeline(c.work.ev)

\* No two commands of a queue have the same number.
NumberInv ==
  \A e, f \in Events :
    origin[e].queue # NoQueue /\ origin[e].queue = origin[f].queue
      /\ origin[e].cmd.n = origin[f].cmd.n => e = f

Succeeded(e) == Completed(e) /\ error[e] = "ok"

\* While a worker has met no failure, the dependencies it has seen have succeeded;
\* it has seen all of them when it runs the work.
DepOk(q) ==
  /\ pc[q] = "work" => res[q] = "ok"
  /\ pc[q] \in {"work", "complete"} => dep[q] = Len(cmd[q].waits)
  /\ Busy(q) /\ res[q] = "ok" => \A i \in 1 .. dep[q] : Succeeded(cmd[q].waits[i])

DepInv == \A q \in Queues : DepOk(q)

QueueInv ==
  TInv /\ FifoInv /\ OriginInv /\ NumberInv /\ DepInv
    /\ InOrderCompletion /\ SuccessMeansDepsSucceeded

LEMMA InitInv == Init => QueueInv
<1> SUFFICES ASSUME Init PROVE QueueInv
  OBVIOUS
<1>1. TInv
  BY InitType
<1>2. FifoInv
  BY DEF Init, FifoInv, FifoOk, InHand, Busy, Issued
<1>3. OriginInv /\ NumberInv
  BY DEF Init, OriginInv, NumberInv
<1>4. DepInv
  BY DEF Init, DepInv, DepOk, Busy
<1>5. InOrderCompletion /\ SuccessMeansDepsSucceeded
  BY DEF Init, InOrderCompletion, SuccessMeansDepsSucceeded
<1> QED BY <1>1, <1>2, <1>3, <1>4, <1>5 DEF QueueInv

-----------------------------------------------------------------------------
(* What a step leaves alone.                                               *)

\* A queue none of whose parts change keeps its numbering.
LEMMA FifoStays ==
  ASSUME TInv, TInv', NEW p \in Queues, FifoOk(p), pc'[p] = pc[p], cmd'[p] = cmd[p], fifo'[p] = fifo[p],
         enq'[p] = enq[p], done'[p] = done[p], shutdown[p] => shutdown'[p],
         created <= created', \A e \in 1 .. created : origin'[e] = origin[e]
  PROVE  FifoOk(p)'
<1>1. created \in Nat /\ created' \in Nat
  BY QueueAssumption DEF TInv, EventType, NumberType
<1>2. ASSUME NEW c, Issued(p, c) PROVE Issued(p, c)'
  BY <1>1, <1>2 DEF Issued
<1>3. InHand(p)' = InHand(p) /\ (Busy(p) <=> Busy(p)')
  BY DEF InHand, Busy
<1> QED BY <1>2, <1>3 DEF FifoOk

\* So does a worker that does not move, as success is final.
LEMMA DepStays ==
  ASSUME TInv, NEW p \in Queues, DepOk(p), pc'[p] = pc[p], cmd'[p] = cmd[p], dep'[p] = dep[p], res'[p] = res[p],
         \A e \in Events : Succeeded(e) => Succeeded(e)'
  PROVE  DepOk(p)'
<1>1. cmd[p].waits \in Seq(Events) /\ dep[p] \in Nat /\ dep[p] <= Len(cmd[p].waits)
  BY InHandCommand DEF TInv, WorkerType
<1>2. \A i \in 1 .. dep[p] : cmd[p].waits[i] \in Events
  BY <1>1
<1> QED BY <1>2 DEF DepOk, Busy

\* The records of the events stay when no command is created.
LEMMA HistoryStays ==
  ASSUME QueueInv, UNCHANGED <<created, origin, enq>>,
         \A e \in Events : e > created => counter'[e] = 0 /\ held'[e] = 0
  PROVE  OriginInv' /\ NumberInv'
<1>1. OriginInv'
  BY DEF QueueInv, OriginInv, Timeline
<1>2. NumberInv'
  BY DEF QueueInv, NumberInv
<1> QED BY <1>1, <1>2

\* The waits of a command's event are events.
LEMMA WaitsOfOrigin ==
  ASSUME QueueInv, NEW e \in Events, origin[e].queue # NoQueue
  PROVE  /\ origin[e].cmd.waits \in Seq(Events)
         /\ DOMAIN origin[e].cmd.waits = 1 .. Len(origin[e].cmd.waits)
         /\ \A i \in DOMAIN origin[e].cmd.waits :
              origin[e].cmd.waits[i] \in Events /\ origin[e].cmd.waits[i] < e
<1>1. origin[e].cmd \in Command
  BY DEF QueueInv, OriginInv
<1>2. origin[e].cmd.waits \in Seq(Events)
  BY <1>1, CommandParts
<1>3. /\ DOMAIN origin[e].cmd.waits = 1 .. Len(origin[e].cmd.waits)
      /\ \A i \in DOMAIN origin[e].cmd.waits : origin[e].cmd.waits[i] \in Events
  BY <1>2
<1> QED BY <1>2, <1>3 DEF QueueInv, OriginInv

LEMMA CreatedEvents ==
  ASSUME TInv
  PROVE  created \in Nat /\ \A e : e \in Events /\ e <= created <=> e \in 1 .. created
BY QueueAssumption DEF TInv, EventType, NumberType, Events

\* When the events keep their counters, errors and origins and no command is
\* completed, what holds of completed commands still does.
LEMMA CompletionStays ==
  ASSUME QueueInv, UNCHANGED <<created, counter, error, origin, done>>
  PROVE  InOrderCompletion' /\ SuccessMeansDepsSucceeded' /\ \A e : Succeeded(e) <=> Succeeded(e)'
<1>1. InOrderCompletion'
  BY DEF QueueInv, InOrderCompletion, Completed
<1>2. SuccessMeansDepsSucceeded'
  BY DEF QueueInv, SuccessMeansDepsSucceeded, Completed, Timeline
<1>3. \A e : Succeeded(e) <=> Succeeded(e)'
  BY DEF Succeeded, Completed
<1> QED BY <1>1, <1>2, <1>3

\* Steps that touch references, handles and shutdown only.
LEMMA QuietStep ==
  ASSUME QueueInv, TInv', UNCHANGED <<created, counter, error, origin, fifo, enq, done, workVars>>,
         \A q \in Queues : shutdown[q] => shutdown'[q],
         \A e \in Events : e > created => held'[e] = 0
  PROVE  QueueInv'
<1>0. TInv
  BY DEF QueueInv
<1>1. OriginInv' /\ NumberInv'
  <2>1. \A e \in Events : e > created => counter'[e] = 0
    BY DEF QueueInv, OriginInv
  <2> QED BY <2>1, HistoryStays
<1>2. InOrderCompletion' /\ SuccessMeansDepsSucceeded' /\ \A e : Succeeded(e) <=> Succeeded(e)'
  BY CompletionStays
<1>3. FifoInv'
  <2> SUFFICES ASSUME NEW p \in Queues PROVE FifoOk(p)'
    BY DEF FifoInv
  <2>1. FifoOk(p) /\ created \in Nat
    BY <1>0, CreatedEvents DEF QueueInv, FifoInv
  <2> QED BY <1>0, <2>1, FifoStays DEF workVars
<1>4. DepInv'
  <2> SUFFICES ASSUME NEW p \in Queues PROVE DepOk(p)'
    BY DEF DepInv
  <2>1. DepOk(p)
    BY DEF QueueInv, DepInv
  <2> QED BY <1>0, <1>2, <2>1, DepStays DEF workVars
<1> QED BY <1>1, <1>2, <1>3, <1>4 DEF QueueInv
-----------------------------------------------------------------------------
(* The worker.                                                             *)

\* The other workers and their queues stand still.
OthersStay(q) ==
  \A p \in Queues \ {q} :
    /\ pc'[p] = pc[p] /\ cmd'[p] = cmd[p] /\ dep'[p] = dep[p] /\ res'[p] = res[p]
    /\ fifo'[p] = fifo[p] /\ done'[p] = done[p]

\* A step of one worker that completes nothing: its own part of the invariant is
\* all there is to show.
LEMMA WorkerMove ==
  ASSUME QueueInv, TInv', NEW q \in Queues, OthersStay(q), FifoOk(q)',
         (\A e \in Events : Succeeded(e) => Succeeded(e)') => DepOk(q)',
         UNCHANGED <<created, counter, error, origin, enq, done, shutdown, held>>
  PROVE  QueueInv'
<1>0. TInv
  BY DEF QueueInv
<1>1. OriginInv' /\ NumberInv'
  <2>1. \A e \in Events : e > created => counter'[e] = 0 /\ held'[e] = 0
    BY DEF QueueInv, OriginInv
  <2> QED BY <2>1, HistoryStays
<1>2. InOrderCompletion' /\ SuccessMeansDepsSucceeded' /\ \A e : Succeeded(e) <=> Succeeded(e)'
  BY CompletionStays
<1>3. FifoInv'
  <2> SUFFICES ASSUME NEW p \in Queues, p # q PROVE FifoOk(p)'
    BY DEF FifoInv
  <2>1. FifoOk(p) /\ created \in Nat
    BY <1>0, CreatedEvents DEF QueueInv, FifoInv
  <2> QED BY <1>0, <2>1, FifoStays DEF OthersStay
<1>4. DepInv'
  <2> SUFFICES ASSUME NEW p \in Queues, p # q PROVE DepOk(p)'
    BY <1>2 DEF DepInv
  <2>1. DepOk(p)
    BY DEF QueueInv, DepInv
  <2> QED BY <1>0, <1>2, <2>1, DepStays DEF OthersStay
<1> QED BY <1>1, <1>2, <1>3, <1>4 DEF QueueInv

LEMMA PopInv ==
  ASSUME QueueInv, TInv', NEW q \in Queues, Pop(q)
  PROVE  QueueInv'
<1>0. TInv /\ FifoOk(q) /\ DepOk(q)
  BY DEF QueueInv, FifoInv, DepInv
<1>1. fifo[q] \in Seq(Command) /\ fifo[q] # << >>
  BY <1>0 DEF Pop, TInv, QueueType
<1>2. /\ Len(fifo[q]) \in Nat /\ Len(fifo[q]) >= 1
      /\ Len(Tail(fifo[q])) = Len(fifo[q]) - 1 /\ Head(fifo[q]) = fifo[q][1]
      /\ \A i \in 1 .. Len(Tail(fifo[q])) : Tail(fifo[q])[i] = fifo[q][i + 1]
  BY <1>1
<1>3. /\ pc'[q] = "deps" /\ cmd'[q] = Head(fifo[q]) /\ fifo'[q] = Tail(fifo[q])
      /\ dep' = dep /\ res' = res /\ done' = done /\ enq' = enq /\ shutdown' = shutdown
      /\ created' = created /\ origin' = origin
  BY <1>0 DEF Pop, TInv, WorkerType, QueueType, evVars
<1>4. OthersStay(q)
  BY <1>0 DEF Pop, OthersStay, TInv, WorkerType, QueueType
<1>5. InHand(q) = 0 /\ InHand(q)' = 1 /\ Busy(q)'
  BY <1>3 DEF InHand, Busy, Pop
<1>7. FifoOk(q)'
  <2>0. done[q] \in Nat
    BY <1>0 DEF TInv, QueueType
  <2>1. enq'[q] = done'[q] + 1 + Len(fifo'[q])
    BY <1>0, <1>2, <1>3, <1>5, <2>0 DEF FifoOk
  <2>2. ASSUME NEW i \in 1 .. Len(fifo'[q])
        PROVE  fifo'[q][i].n = done'[q] + 1 + i /\ Issued(q, fifo[q][i])'
    <3>1. i + 1 \in 1 .. Len(fifo[q]) /\ fifo'[q][i] = fifo[q][i + 1]
      BY <1>2, <1>3, <2>2
    <3>2. fifo[q][i + 1].n = done[q] + 0 + (i + 1) /\ Issued(q, fifo[q][i + 1])
      BY <1>0, <1>5, <3>1 DEF FifoOk
    <3>3. fifo'[q][i].n = done'[q] + 1 + i
      BY <1>3, <2>0, <3>1, <3>2
    <3>4. Issued(q, fifo[q][i])'
      BY <1>3, <3>1, <3>2 DEF Issued
    <3> QED BY <3>3, <3>4
  <2>3. cmd'[q].n = done'[q] + 1 /\ Issued(q, cmd[q])'
    <3>1. fifo[q][1].n = done[q] + 0 + 1 /\ Issued(q, fifo[q][1])
      BY <1>0, <1>2, <1>5 DEF FifoOk
    <3>2. cmd'[q] = fifo[q][1]
      BY <1>2, <1>3
    <3> QED BY <1>3, <2>0, <3>1, <3>2 DEF Issued
  <2>4. pc'[q] # "stopped"
    BY <1>3
  <2>5. InHand(q)' = 1
    BY <1>5
  <2> QED BY <2>1, <2>2, <2>3, <2>4, <2>5 DEF FifoOk
<1>8. DepOk(q)'
  <2>1. dep[q] = 0
    BY <1>0 DEF TInv, IdleInv, Busy, Pop
  <2> QED BY <1>3, <2>1 DEF DepOk
<1> QED BY <1>4, <1>7, <1>8, WorkerMove DEF Pop, evVars

LEMMA StopInv ==
  ASSUME QueueInv, TInv', NEW q \in Queues, Stop(q)
  PROVE  QueueInv'
<1>0. TInv /\ FifoOk(q) /\ DepOk(q)
  BY DEF QueueInv, FifoInv, DepInv
<1>1. /\ pc'[q] = "stopped" /\ cmd' = cmd /\ fifo' = fifo /\ dep' = dep /\ res' = res
      /\ done' = done /\ enq' = enq /\ shutdown' = shutdown
      /\ created' = created /\ origin' = origin
  BY <1>0 DEF Stop, TInv, WorkerType, evVars
<1>2. OthersStay(q)
  BY <1>0 DEF Stop, OthersStay, TInv, WorkerType
<1>3. FifoOk(q)'
  BY <1>0, <1>1 DEF FifoOk, InHand, Busy, Stop, Issued
<1>4. DepOk(q)'
  BY <1>1 DEF DepOk, Busy
<1> QED BY <1>2, <1>3, <1>4, WorkerMove DEF Stop, evVars

\* The worker goes on with the command in its hand.
LEMMA SameHand ==
  ASSUME QueueInv, TInv', NEW q \in Queues, Busy(q), Busy(q)',
         cmd' = cmd, fifo' = fifo, done' = done, enq' = enq, created' = created, origin' = origin
  PROVE  FifoOk(q)'
<1>1. FifoOk(q)
  BY DEF QueueInv, FifoInv
<1>2. InHand(q) = InHand(q)' /\ pc'[q] # "stopped"
  BY DEF InHand, Busy
<1>3. \A c : Issued(q, c)' <=> Issued(q, c)
  BY DEF Issued
<1> QED BY <1>1, <1>2, <1>3 DEF FifoOk

LEMMA WaitDepInv ==
  ASSUME QueueInv, TInv', NEW q \in Queues, WaitDep(q)
  PROVE  QueueInv'
<1>0. TInv /\ FifoOk(q) /\ DepOk(q)
  BY DEF QueueInv, FifoInv, DepInv
<1>1. /\ pc' = pc /\ cmd' = cmd /\ pc[q] = "deps" /\ dep'[q] = dep[q] + 1 /\ dep[q] \in Nat
      /\ counter' = counter /\ error' = error
  BY <1>0 DEF WaitDep, TInv, WorkerType
<1>2. OthersStay(q)
  BY <1>0 DEF WaitDep, OthersStay, TInv, WorkerType
<1>3. FifoOk(q)'
  BY <1>1, SameHand DEF WaitDep, Busy
<1>4. NextDep(q) \in Events
  BY <1>0, InHandCommand DEF WaitDep
<1>5. ASSUME res'[q] = "ok" PROVE res[q] = "ok" /\ Succeeded(NextDep(q))
  <2>1. res[q] = "ok"
    BY <1>0, <1>5 DEF WaitDep
  <2>2. error[NextDep(q)] = "ok"
    BY <1>0, <1>5, <2>1 DEF WaitDep, TInv, WorkerType
  <2>3. counter[NextDep(q)] >= 1
    BY <2>1, <2>2 DEF WaitDep, Satisfied
  <2> QED BY <2>1, <2>2, <2>3 DEF Succeeded, Completed
<1>6. DepOk(q)'
  <2>1. ASSUME res'[q] = "ok", NEW i \in 1 .. dep'[q] PROVE Succeeded(cmd[q].waits[i])
    <3>1. CASE i = dep[q] + 1
      BY <1>5, <2>1, <3>1 DEF NextDep
    <3>2. CASE i # dep[q] + 1
      <4>1. i \in 1 .. dep[q]
        BY <1>1, <2>1, <3>2
      <4> QED BY <1>0, <1>1, <1>5, <2>1, <4>1 DEF DepOk, Busy
    <3> QED BY <3>1, <3>2
  <2>2. ASSUME res'[q] = "ok", NEW i \in 1 .. dep'[q] PROVE Succeeded(cmd[q].waits[i])'
    BY <1>1, <2>1, <2>2 DEF Succeeded, Completed
  <2>3. pc'[q] = "deps"
    BY <1>1
  <2> QED BY <2>2, <2>3 DEF DepOk
<1> QED BY <1>2, <1>3, <1>6, WorkerMove DEF WaitDep

LEMMA DepsDoneInv ==
  ASSUME QueueInv, TInv', NEW q \in Queues, DepsDone(q)
  PROVE  QueueInv'
<1>0. TInv /\ FifoOk(q) /\ DepOk(q)
  BY DEF QueueInv, FifoInv, DepInv
<1>1. /\ pc[q] = "deps" /\ pc'[q] = (IF res[q] = "ok" THEN "work" ELSE "complete")
      /\ cmd' = cmd /\ dep' = dep /\ res' = res /\ counter' = counter /\ error' = error
      /\ dep[q] = Len(cmd[q].waits)
  BY <1>0 DEF DepsDone, TInv, WorkerType
<1>2. OthersStay(q)
  BY <1>0 DEF DepsDone, OthersStay, TInv, WorkerType
<1>3. FifoOk(q)'
  BY <1>1, SameHand DEF DepsDone, Busy
<1>4. DepOk(q)'
  BY <1>0, <1>1 DEF DepOk, Busy, Succeeded, Completed
<1> QED BY <1>2, <1>3, <1>4, WorkerMove DEF DepsDone

\* The end of the work, whatever it was.
LEMMA WorkDoneParts ==
  ASSUME QueueInv, TInv', NEW q \in Queues, NEW r, WorkDone(q, r), pc[q] = "work"
  PROVE  /\ OthersStay(q) /\ FifoOk(q)'
         /\ (\A e \in Events : Succeeded(e) => Succeeded(e)') => DepOk(q)'
<1>0. TInv /\ FifoOk(q) /\ DepOk(q)
  BY DEF QueueInv, FifoInv, DepInv
<1>1. pc'[q] = "complete" /\ cmd' = cmd /\ dep' = dep
  BY <1>0 DEF WorkDone, TInv, WorkerType
<1>2. OthersStay(q)
  BY <1>0 DEF WorkDone, OthersStay, TInv, WorkerType
<1>3. FifoOk(q)'
  BY <1>1, SameHand DEF WorkDone, Busy
<1>4. ASSUME \A e \in Events : Succeeded(e) => Succeeded(e)' PROVE DepOk(q)'
  <2>1. cmd[q].waits \in Seq(Events) /\ dep[q] = Len(cmd[q].waits) /\ res[q] = "ok"
    BY <1>0, InHandCommand DEF DepOk
  <2>2. \A i \in 1 .. dep[q] : cmd[q].waits[i] \in Events /\ Succeeded(cmd[q].waits[i])
    BY <1>0, <2>1 DEF DepOk, Busy
  <2> QED BY <1>1, <1>4, <2>1, <2>2 DEF DepOk
<1> QED BY <1>2, <1>3, <1>4

LEMMA RunInv ==
  ASSUME QueueInv, TInv', NEW q \in Queues, RunDevice(q) \/ RunBarrier(q) \/ RunWait(q)
  PROVE  QueueInv'
<1>1. PICK r : WorkDone(q, r)
  BY DEF RunDevice, RunBarrier, RunWait
<1>2. pc[q] = "work" /\ counter' = counter
  BY DEF RunDevice, RunBarrier, RunWait
<1> QED BY <1>1, <1>2, WorkDoneParts, WorkerMove DEF WorkDone

\* A timeline event is signalled: no command's completion is touched, and counters
\* only grow.
LEMMA SignalKeeps ==
  ASSUME QueueInv, NEW e \in Events, NEW v \in Nat, Timeline(e), e <= created,
         counter' = [counter EXCEPT ![e] = Signalled(e, v)],
         UNCHANGED <<created, error, origin, done, enq, held>>
  PROVE  /\ OriginInv' /\ NumberInv' /\ InOrderCompletion' /\ SuccessMeansDepsSucceeded'
         /\ \A f \in Events : Succeeded(f) => Succeeded(f)'
<1>0. TInv /\ counter \in [Events -> Nat]
  BY DEF QueueInv, TInv, EventType, NumberType
<1>1. \A f \in Events : counter'[f] \in Nat /\ counter'[f] >= counter[f] /\ (f # e => counter'[f] = counter[f])
  BY <1>0 DEF Signalled
<1>2. \A f \in Events : Succeeded(f) => Succeeded(f)'
  BY <1>0, <1>1 DEF Succeeded, Completed
<1>3. OriginInv' /\ NumberInv'
  <2>1. \A f \in Events : f > created => counter'[f] = 0 /\ held'[f] = 0
    BY <1>0, <1>1, CreatedEvents DEF QueueInv, OriginInv, Events
  <2> QED BY <2>1, HistoryStays
<1>4. \A f \in 1 .. created : ~Timeline(f) => (Completed(f)' <=> Completed(f))
  BY <1>0, <1>1, CreatedEvents DEF Completed
<1>5. InOrderCompletion'
  BY <1>4, QueueAssumption DEF QueueInv, InOrderCompletion, Timeline
<1>6. SuccessMeansDepsSucceeded'
  <2> SUFFICES ASSUME NEW f \in 1 .. created, ~Timeline(f), Completed(f)', error[f] = "ok",
                      NEW i \in DOMAIN origin[f].cmd.waits
               PROVE  Completed(origin[f].cmd.waits[i])' /\ error[origin[f].cmd.waits[i]] = "ok"
    BY DEF SuccessMeansDepsSucceeded, Timeline
  <2>1. f \in Events /\ origin[f].queue # NoQueue
    BY <1>0, CreatedEvents DEF Timeline
  <2>2. origin[f].cmd.waits[i] \in Events
    BY <2>1, WaitsOfOrigin
  <2>3. Completed(origin[f].cmd.waits[i]) /\ error[origin[f].cmd.waits[i]] = "ok"
    BY <1>4 DEF QueueInv, SuccessMeansDepsSucceeded
  <2> QED BY <1>0, <1>1, <2>2, <2>3 DEF Completed
<1> QED BY <1>2, <1>3, <1>5, <1>6

LEMMA RunSignalInv ==
  ASSUME QueueInv, TInv', NEW q \in Queues, RunSignal(q)
  PROVE  QueueInv'
<1> DEFINE w == cmd[q].work
<1>0. TInv /\ FifoOk(q) /\ created \in Nat
  BY CreatedEvents DEF QueueInv, FifoInv
<1>1. pc[q] = "work" /\ w.kind = "signal" /\ WorkDone(q, "ok")
  BY DEF RunSignal
<1>2. w \in Work /\ w.ev \in Events /\ w.val \in Nat
  BY <1>0, <1>1, InHandCommand, QueueAssumption DEF Work
<1>3. Timeline(w.ev) /\ w.ev <= created
  <2>1. Issued(q, cmd[q])
    BY <1>0, <1>1 DEF FifoOk, Busy
  <2>2. cmd[q].completion \in Events /\ cmd[q].completion <= created
    BY <1>0, <2>1, CreatedEvents DEF Issued
  <2>3. w.ev < cmd[q].completion /\ Timeline(w.ev)
    BY <1>1, <2>1, <2>2, QueueAssumption DEF Issued, QueueInv, OriginInv
  <2> QED BY <1>0, <1>2, <2>2, <2>3 DEF Events
<1>4. counter' = [counter EXCEPT ![w.ev] = Signalled(w.ev, w.val)]
  BY DEF RunSignal
<1>5. UNCHANGED <<created, error, origin, done, enq, held, shutdown>>
  BY <1>1 DEF WorkDone
<1> HIDE DEF w
<1>6. /\ OriginInv' /\ NumberInv' /\ InOrderCompletion' /\ SuccessMeansDepsSucceeded'
      /\ \A f \in Events : Succeeded(f) => Succeeded(f)'
  BY <1>2, <1>3, <1>4, <1>5, SignalKeeps
<1>7. OthersStay(q) /\ FifoOk(q)' /\ DepOk(q)'
  BY <1>1, <1>6, WorkDoneParts
<1>8. FifoInv' /\ DepInv'
  <2> SUFFICES ASSUME NEW p \in Queues, p # q PROVE FifoOk(p)' /\ DepOk(p)'
    BY <1>7 DEF FifoInv, DepInv
  <2>1. FifoOk(p) /\ DepOk(p)
    BY DEF QueueInv, FifoInv, DepInv
  <2>2. FifoOk(p)'
    BY <1>0, <1>5, <1>7, <2>1, FifoStays DEF OthersStay
  <2>3. DepOk(p)'
    BY <1>0, <1>6, <1>7, <2>1, DepStays DEF OthersStay
  <2> QED BY <2>2, <2>3
<1> QED BY <1>6, <1>8 DEF QueueInv

\* A command completes: it is the next of its queue, and its event becomes
\* complete with it.
LEMMA CompleteInv ==
  ASSUME QueueInv, TInv', NEW q \in Queues, Complete(q)
  PROVE  QueueInv'
<1> DEFINE c == cmd[q].completion
<1>0. TInv /\ FifoOk(q) /\ DepOk(q)
  BY DEF QueueInv, FifoInv, DepInv
<1>1. Busy(q) /\ cmd[q].n = done[q] + 1 /\ done[q] \in Nat /\ Issued(q, cmd[q])
  BY <1>0 DEF Complete, Busy, FifoOk, TInv, QueueType
<1>2. c \in Events /\ c \in 1 .. created /\ origin[c].queue = q /\ origin[c].cmd = cmd[q]
  BY <1>0, <1>1, CreatedEvents DEF Issued
<1>3. ~Completed(c) /\ counter[c] \in Nat
  <2>1. Completed(c) <=> done[q] >= done[q] + 1
    BY <1>1, <1>2 DEF QueueInv, InOrderCompletion
  <2>2. counter[c] \in Nat
    BY <1>0, <1>2 DEF TInv, EventType, NumberType
  <2> QED BY <1>1, <2>1, <2>2
<1>4. /\ counter'[c] = 1
      /\ error'[c] = "ok" => res[q] = "ok"
      /\ \A f \in Events : f # c => counter'[f] = counter[f] /\ error'[f] = error[f]
  BY <1>0, <1>2, <1>3 DEF Complete, EventComplete, Completed, TInv, EventType, NumberType
<1>5. /\ done'[q] = done[q] + 1 /\ pc'[q] = "idle"
      /\ fifo' = fifo /\ enq' = enq /\ created' = created /\ origin' = origin
      /\ shutdown' = shutdown /\ held' = held
  BY <1>0 DEF Complete, NextIteration, TInv, QueueType, WorkerType
<1>6. OthersStay(q)
  BY <1>0 DEF Complete, NextIteration, OthersStay, TInv, WorkerType, QueueType
<1> HIDE DEF c
<1>7. \A f \in Events : Succeeded(f) => Succeeded(f)'
  BY <1>3, <1>4 DEF Succeeded, Completed
<1>8. OriginInv' /\ NumberInv'
  <2>1. \A f \in Events : f > created => counter'[f] = 0 /\ held'[f] = 0
    BY <1>0, <1>2, <1>4, <1>5, CreatedEvents DEF QueueInv, OriginInv, Events
  <2> QED BY <1>5, <2>1, HistoryStays
<1>9. InOrderCompletion'
  <2> SUFFICES ASSUME NEW e \in 1 .. created, NEW p \in Queues, origin[e].queue = p
               PROVE  Completed(e)' <=> done'[p] >= origin[e].cmd.n
    BY <1>5 DEF InOrderCompletion
  <2>0. e \in Events /\ (Completed(e) <=> done[p] >= origin[e].cmd.n)
    BY <1>0, CreatedEvents DEF QueueInv, InOrderCompletion
  <2>1. CASE e = c
    BY <1>1, <1>2, <1>4, <1>5, <2>1 DEF Completed
  <2>2. CASE e # c /\ p # q
    BY <1>4, <1>6, <2>0, <2>2 DEF Completed, OthersStay
  <2>3. CASE e # c /\ p = q
    <3>1. origin[e].cmd.n # done[q] + 1
      BY <1>1, <1>2, <2>0, <2>3, QueueAssumption DEF QueueInv, NumberInv
    <3>2. origin[e].cmd.n \in Nat
      <4>1. origin[e].cmd \in Command
        BY <2>0, QueueAssumption DEF QueueInv, OriginInv
      <4> QED BY <4>1, CommandParts
    <3>3. done[q] >= origin[e].cmd.n <=> done'[q] >= origin[e].cmd.n
      BY <1>1, <1>5, <3>1, <3>2
    <3> QED BY <1>4, <2>0, <2>3, <3>3 DEF Completed
  <2> QED BY <2>1, <2>2, <2>3
<1>10. SuccessMeansDepsSucceeded'
  <2> SUFFICES ASSUME NEW e \in 1 .. created, ~Timeline(e), Completed(e)', error'[e] = "ok",
                      NEW i \in DOMAIN origin[e].cmd.waits, NEW d, d = origin[e].cmd.waits[i]
               PROVE  Succeeded(d)'
    BY <1>5 DEF SuccessMeansDepsSucceeded, Timeline, Succeeded
  <2>0. e \in Events /\ origin[e].queue # NoQueue
    BY <1>0, CreatedEvents DEF Timeline
  <2>1. d \in Events /\ DOMAIN origin[e].cmd.waits = 1 .. Len(origin[e].cmd.waits)
    BY <2>0, WaitsOfOrigin
  <2>2. CASE e = c
    <3>1. pc[q] = "complete" /\ res[q] = "ok"
      BY <1>4, <2>2 DEF Complete
    <3>2. i \in 1 .. dep[q]
      BY <1>0, <1>2, <2>1, <2>2, <3>1 DEF DepOk
    <3>3. Succeeded(cmd[q].waits[i])
      BY <1>0, <1>1, <3>1, <3>2 DEF DepOk
    <3> QED BY <1>2, <1>7, <2>1, <2>2, <3>3
  <2>3. CASE e # c
    <3>1. Completed(e) /\ error[e] = "ok"
      BY <1>4, <2>0, <2>3 DEF Completed
    <3>2. Succeeded(d)
      BY <3>1 DEF QueueInv, SuccessMeansDepsSucceeded, Succeeded
    <3> QED BY <1>7, <2>1, <3>2
  <2> QED BY <2>2, <2>3
<1>11. FifoOk(q)'
  <2>1. InHand(q) = 1 /\ InHand(q)' = 0 /\ ~Busy(q)' /\ pc'[q] # "stopped"
    BY <1>1, <1>5 DEF InHand, Busy
  <2>2. Len(fifo[q]) \in Nat
    BY <1>0 DEF TInv, QueueType
  <2>3. enq'[q] = done'[q] + 0 + Len(fifo'[q])
    BY <1>0, <1>1, <1>5, <2>1, <2>2 DEF FifoOk
  <2>4. ASSUME NEW i \in 1 .. Len(fifo[q])
        PROVE  fifo'[q][i].n = done'[q] + 0 + i /\ Issued(q, fifo[q][i])'
    <3>1. fifo[q][i].n = done[q] + 1 + i /\ Issued(q, fifo[q][i])
      BY <1>0, <2>1 DEF FifoOk
    <3>2. fifo'[q][i].n = done'[q] + 0 + i
      BY <1>1, <1>5, <3>1
    <3>3. Issued(q, fifo[q][i])'
      BY <1>5, <3>1 DEF Issued
    <3> QED BY <3>2, <3>3
  <2>5. \A i \in 1 .. Len(fifo'[q]) : fifo'[q][i].n = done'[q] + InHand(q)' + i /\ Issued(q, fifo[q][i])'
    BY <1>5, <2>1, <2>4
  <2> QED BY <2>1, <2>3, <2>5 DEF FifoOk
<1>12. DepOk(q)'
  BY <1>5 DEF DepOk, Busy
<1>13. FifoInv' /\ DepInv'
  <2> SUFFICES ASSUME NEW p \in Queues, p # q PROVE FifoOk(p)' /\ DepOk(p)'
    BY <1>11, <1>12 DEF FifoInv, DepInv
  <2>1. FifoOk(p) /\ DepOk(p) /\ created \in Nat
    BY <1>0, CreatedEvents DEF QueueInv, FifoInv, DepInv
  <2>2. FifoOk(p)'
    BY <1>0, <1>5, <1>6, <2>1, FifoStays DEF OthersStay
  <2>3. DepOk(p)'
    BY <1>0, <1>6, <1>7, <2>1, DepStays DEF OthersStay
  <2> QED BY <2>2, <2>3
<1> QED BY <1>8, <1>9, <1>10, <1>13 DEF QueueInv

-----------------------------------------------------------------------------
(* The application.                                                        *)

\* A command is enqueued: its event and its number are new.
LEMMA PushInv ==
  ASSUME QueueInv, TInv', NEW q \in Queues, NEW w \in Work, NEW waits \in Seq(Events), NEW kept,
         Push(q, w, waits, kept), \A e \in Events : e > created' => held'[e] = 0
  PROVE  QueueInv'
<1> DEFINE c == created + 1
           cm == [waits |-> waits, completion |-> c, work |-> w, n |-> enq[q] + 1]
<1>0. TInv /\ FifoOk(q) /\ created \in Nat
  BY CreatedEvents DEF QueueInv, FifoInv
<1>1. created < MaxEvents /\ ~shutdown[q] /\ Legal(w, waits)
  BY DEF Push
<1>2. c \in Events /\ cm \in Command
  BY <1>0, <1>1, PushedCommand
<1>3. /\ created' = c
      /\ origin' = [origin EXCEPT ![c] = [queue |-> q, cmd |-> cm]]
      /\ fifo' = [fifo EXCEPT ![q] = Append(fifo[q], cm)]
      /\ enq' = [enq EXCEPT ![q] = enq[q] + 1]
      /\ counter' = counter /\ error' = error /\ done' = done /\ shutdown' = shutdown
      /\ pc' = pc /\ cmd' = cmd /\ dep' = dep /\ res' = res
  BY DEF Push, workVars
<1>4. cm.completion = c /\ cm.n = enq[q] + 1 /\ cm.waits = waits /\ cm.work = w
  OBVIOUS
<1>5. c \in Nat /\ c > created /\ (\A e \in Events : e <= created => e # c /\ e < c)
  BY <1>0 DEF Events
<1> HIDE DEF c, cm
<1>6. /\ origin'[c].queue = q /\ origin'[c].cmd = cm /\ origin'[c] = [queue |-> q, cmd |-> cm]
      /\ \A e \in Events : e # c => origin'[e] = origin[e]
  BY <1>0, <1>2, <1>3 DEF TInv, EventType, OriginType
<1>7. /\ enq[q] \in Nat /\ enq'[q] = enq[q] + 1
      /\ \A p \in Queues : p # q => enq'[p] = enq[p] /\ fifo'[p] = fifo[p]
      /\ \A p \in Queues : enq[p] \in Nat
      /\ fifo'[q] = Append(fifo[q], cm)
  BY <1>0, <1>3 DEF TInv, QueueType
<1>8. /\ counter[c] = 0
      /\ \A e \in Events : e > created => origin[e].queue = NoQueue /\ counter[e] = 0
  BY <1>2, <1>5 DEF QueueInv, OriginInv
<1>9. \A e \in Events : e > created' <=> e > created /\ e # c
  BY <1>0, <1>3 DEF Events, c
<1>10. \A e \in Events : e # c => (Timeline(e)' <=> Timeline(e))
  BY <1>6 DEF Timeline
<1>11. OriginInv'
  <2> SUFFICES ASSUME NEW e \in Events
               PROVE  /\ e > created' => origin'[e].queue = NoQueue /\ counter'[e] = 0 /\ held'[e] = 0
                      /\ origin'[e].queue # NoQueue =>
                           /\ origin'[e].cmd \in Command /\ origin'[e].cmd.completion = e
                           /\ origin'[e].cmd.n \in 1 .. enq'[origin'[e].queue]
                           /\ \A i \in 1 .. Len(origin'[e].cmd.waits) : origin'[e].cmd.waits[i] < e
                           /\ origin'[e].cmd.work.kind = "signal" =>
                                origin'[e].cmd.work.ev < e /\ origin'[origin'[e].cmd.work.ev].queue = NoQueue
    BY DEF OriginInv, Timeline
  <2>1. ASSUME e > created' PROVE origin'[e].queue = NoQueue /\ counter'[e] = 0 /\ held'[e] = 0
    BY <1>3, <1>6, <1>8, <1>9, <2>1
  <2>2. CASE e = c
    <3>1. cm.n \in 1 .. enq'[q]
      BY <1>4, <1>7
    <3>2. \A i \in 1 .. Len(waits) : waits[i] < c
      <4> SUFFICES ASSUME NEW i \in 1 .. Len(waits) PROVE waits[i] < c
        OBVIOUS
      <4>1. waits[i] \in 1 .. created
        BY <1>1 DEF Legal
      <4> QED BY <1>0, <4>1 DEF c
    <3>3. ASSUME w.kind = "signal" PROVE w.ev < c /\ origin'[w.ev].queue = NoQueue
      <4>1. w.ev \in Events /\ w.ev # NoEvent
        BY <3>3 DEF Work, NoEvent, Events
      <4>2. w.ev <= created /\ Timeline(w.ev)
        BY <1>1, <3>3, <4>1 DEF Legal
      <4> QED BY <1>5, <1>6, <4>1, <4>2 DEF Timeline
    <3> QED BY <1>2, <1>4, <1>6, <2>1, <2>2, <3>1, <3>2, <3>3
  <2>3. CASE e # c
    <3> SUFFICES ASSUME origin[e].queue # NoQueue
                 PROVE  /\ origin[e].cmd \in Command /\ origin[e].cmd.completion = e
                        /\ origin[e].cmd.n \in 1 .. enq'[origin[e].queue]
                        /\ \A i \in 1 .. Len(origin[e].cmd.waits) : origin[e].cmd.waits[i] < e
                        /\ origin[e].cmd.work.kind = "signal" =>
                             origin[e].cmd.work.ev < e /\ origin'[origin[e].cmd.work.ev].queue = NoQueue
      BY <1>6, <2>1, <2>3
    <3>1. /\ origin[e].cmd \in Command /\ origin[e].cmd.completion = e
          /\ origin[e].cmd.n \in 1 .. enq[origin[e].queue]
          /\ \A i \in 1 .. Len(origin[e].cmd.waits) : origin[e].cmd.waits[i] < e
          /\ origin[e].cmd.work.kind = "signal" =>
               origin[e].cmd.work.ev < e /\ Timeline(origin[e].cmd.work.ev)
      BY DEF QueueInv, OriginInv
    <3>2. origin[e].queue \in Queues
      BY <1>0 DEF TInv, EventType, OriginType
    <3>3. origin[e].cmd.n \in 1 .. enq'[origin[e].queue]
      BY <1>7, <3>1, <3>2
    <3>4. e <= created
      BY <1>0, <1>8 DEF Events
    <3>5. ASSUME origin[e].cmd.work.kind = "signal"
          PROVE  origin'[origin[e].cmd.work.ev].queue = NoQueue
      <4>1. origin[e].cmd.work \in Work
        BY <3>1, CommandParts
      <4>2. origin[e].cmd.work.ev \in Events
        BY <3>5, <4>1 DEF Work
      <4>3. origin[e].cmd.work.ev <= created
        BY <1>0, <3>1, <3>4, <3>5, <4>2 DEF Events
      <4> QED BY <1>5, <1>6, <3>1, <3>5, <4>2, <4>3 DEF Timeline
    <3> QED BY <3>1, <3>3, <3>5
  <2> QED BY <2>2, <2>3
<1>12. NumberInv'
  <2> SUFFICES ASSUME NEW e \in Events, NEW f \in Events, origin'[e].queue # NoQueue,
                      origin'[e].queue = origin'[f].queue, origin'[e].cmd.n = origin'[f].cmd.n
               PROVE  e = f
    BY DEF NumberInv
  <2>1. ASSUME NEW g \in Events, g # c, origin'[g].queue = q PROVE origin'[g].cmd.n # enq[q] + 1
    <3>1. origin[g].cmd.n \in 1 .. enq[q]
      BY <1>6, <2>1, QueueAssumption DEF QueueInv, OriginInv
    <3> QED BY <1>6, <1>7, <2>1, <3>1
  <2>2. CASE e # c /\ f # c
    BY <1>6, <2>2 DEF QueueInv, NumberInv
  <2> QED BY <1>4, <1>6, <2>1, <2>2
<1>13. FifoOk(q)'
  <2>1. fifo[q] \in Seq(Command) /\ Len(fifo[q]) \in Nat /\ done[q] \in Nat /\ InHand(q) \in Nat
    BY <1>0 DEF TInv, QueueType, InHand
  <2>2. /\ Len(fifo'[q]) = Len(fifo[q]) + 1 /\ fifo'[q][Len(fifo[q]) + 1] = cm
        /\ \A i \in 1 .. Len(fifo[q]) : fifo'[q][i] = fifo[q][i]
    BY <1>2, <1>7, <2>1
  <2>3. InHand(q)' = InHand(q) /\ (Busy(q)' <=> Busy(q)) /\ pc'[q] # "stopped"
    BY <1>0, <1>1, <1>3 DEF InHand, Busy, FifoOk
  <2>4. ASSUME NEW d, Issued(q, d) PROVE Issued(q, d)'
    <3>1. d.completion \in Events /\ d.completion <= created /\ d.completion \in Nat
      BY <1>0, <2>4, CreatedEvents DEF Issued
    <3>2. d.completion \in 1 .. created'
      BY <1>0, <1>3, <2>4 DEF Issued, c
    <3> QED BY <1>5, <1>6, <2>4, <3>1, <3>2 DEF Issued
  <2>6. enq[q] = done[q] + InHand(q) + Len(fifo[q])
    BY <1>0 DEF FifoOk
  <2>7. ASSUME NEW i \in 1 .. Len(fifo'[q])
        PROVE  fifo'[q][i].n = done'[q] + InHand(q) + i /\ Issued(q, fifo[q][i])'
    <3>1. CASE i \in 1 .. Len(fifo[q])
      <4>1. fifo[q][i].n = done[q] + InHand(q) + i /\ Issued(q, fifo[q][i])
        BY <1>0, <3>1 DEF FifoOk
      <4>2. PICK d : d = fifo[q][i] /\ d = fifo'[q][i] /\ Issued(q, d)
        BY <2>2, <3>1, <4>1
      <4>3. Issued(q, d)'
        BY <2>4, <4>2
      <4>4. Issued(q, fifo[q][i])'
        BY <4>2, <4>3 DEF Issued
      <4> QED BY <1>3, <4>1, <4>2, <4>4
    <3>2. CASE i = Len(fifo[q]) + 1
      <4>1. fifo'[q][i] = cm
        BY <2>2, <3>2
      <4>2. cm.n = done[q] + InHand(q) + i
        <5>1. cm.n = enq[q] + 1
          BY <1>4
        <5>2. Len(fifo[q]) \in Nat /\ done[q] \in Nat /\ InHand(q) \in Nat
          BY <2>1
        <5>3. enq[q] + 1 = done[q] + InHand(q) + i
          BY <2>6, <3>2, <5>2
        <5> QED BY <5>1, <5>3
      <4>3. /\ cm.completion \in 1 .. created'
            /\ origin'[cm.completion] = [queue |-> q, cmd |-> cm]
        BY <1>0, <1>3, <1>4, <1>6 DEF c
      <4>4. Issued(q, fifo[q][i])'
        BY <4>1, <4>3 DEF Issued
      <4> QED BY <1>3, <4>1, <4>2, <4>4
    <3> QED BY <2>1, <2>2, <2>7, <3>1, <3>2
  <2>8. Busy(q) => cmd'[q].n = done'[q] + 1 /\ Issued(q, cmd[q])'
    <3> SUFFICES ASSUME Busy(q) PROVE cmd'[q].n = done'[q] + 1 /\ Issued(q, cmd[q])'
      OBVIOUS
    <3>1. PICK d : d = cmd[q] /\ d = cmd'[q] /\ d.n = done[q] + 1 /\ Issued(q, d)
      BY <1>0, <1>3 DEF FifoOk
    <3>2. Issued(q, d)'
      BY <2>4, <3>1
    <3>3. Issued(q, cmd[q])'
      BY <3>1, <3>2 DEF Issued
    <3> QED BY <1>3, <3>1, <3>3
  <2>9. enq'[q] = done'[q] + InHand(q) + Len(fifo'[q])
    BY <1>3, <1>7, <2>1, <2>2, <2>6
  <2> QED BY <2>3, <2>7, <2>8, <2>9 DEF FifoOk
<1>14. FifoInv' /\ DepInv'
  <2> SUFFICES ASSUME NEW p \in Queues PROVE FifoOk(p)' /\ DepOk(p)'
    BY DEF FifoInv, DepInv
  <2>1. FifoOk(p) /\ DepOk(p)
    BY DEF QueueInv, FifoInv, DepInv
  <2>2. FifoOk(p)'
    <3>1. CASE p = q
      BY <1>13, <3>1
    <3>2. CASE p # q
      <4>1. created <= created' /\ \A e \in 1 .. created : origin'[e] = origin[e]
        BY <1>0, <1>3, <1>5, <1>6, CreatedEvents
      <4> QED BY <1>0, <1>3, <1>7, <2>1, <3>2, <4>1, FifoStays
    <3> QED BY <3>1, <3>2
  <2>3. DepOk(p)'
    BY <1>3, <2>1 DEF DepOk, Busy, Succeeded, Completed
  <2> QED BY <2>2, <2>3
<1>15. \A e \in 1 .. created' : e \in Events /\ (e # c => e \in 1 .. created)
  BY <1>0, <1>2, <1>3, CreatedEvents DEF c, Events
<1>16. InOrderCompletion'
  <2> SUFFICES ASSUME NEW e \in 1 .. created', NEW p \in Queues, origin'[e].queue = p
               PROVE  Completed(e)' <=> done'[p] >= origin'[e].cmd.n
    BY DEF InOrderCompletion
  <2>1. CASE e = c
    <3>1. ~Completed(e)'
      BY <1>3, <1>8, <2>1 DEF Completed
    <3>2. p = q /\ origin'[e].cmd.n = enq[q] + 1
      BY <1>4, <1>6, <2>1
    <3>3. done[q] <= enq[q] /\ done[q] \in Nat
      <4>1. done[q] \in Nat /\ fifo[q] \in Seq(Command)
        BY <1>0 DEF TInv, QueueType
      <4>2. Len(fifo[q]) \in Nat /\ InHand(q) \in Nat
        BY <4>1 DEF InHand
      <4>3. enq[q] = done[q] + InHand(q) + Len(fifo[q])
        BY <1>0 DEF FifoOk
      <4> QED BY <4>1, <4>2, <4>3
    <3> QED BY <1>3, <1>7, <3>1, <3>2, <3>3
  <2>2. CASE e # c
    BY <1>3, <1>6, <1>15, <2>2 DEF QueueInv, InOrderCompletion, Completed
  <2> QED BY <2>1, <2>2
<1>17. SuccessMeansDepsSucceeded'
  <2> SUFFICES ASSUME NEW e \in 1 .. created', origin'[e].queue # NoQueue, Completed(e), error[e] = "ok",
                      NEW i \in DOMAIN origin'[e].cmd.waits
               PROVE  Succeeded(origin'[e].cmd.waits[i])
    BY <1>3 DEF SuccessMeansDepsSucceeded, Timeline, Completed, Succeeded
  <2>1. e # c
    BY <1>8 DEF Completed
  <2> QED BY <1>6, <1>15, <2>1 DEF QueueInv, SuccessMeansDepsSucceeded, Timeline, Succeeded
<1> QED BY <1>11, <1>12, <1>14, <1>16, <1>17 DEF QueueInv

LEMMA CreateEventInv ==
  ASSUME QueueInv, TInv', CreateEvent
  PROVE  QueueInv'
<1>0. TInv /\ created \in Nat
  BY CreatedEvents DEF QueueInv
<1>1. /\ created < MaxEvents /\ created' = created + 1
      /\ held' = [held EXCEPT ![created + 1] = 1]
      /\ UNCHANGED <<counter, error, origin, fifo, enq, done, shutdown, pc, cmd, dep, res>>
  BY DEF CreateEvent, workVars
<1>2. created + 1 \in Events
  BY <1>0, <1>1, QueueAssumption DEF Events
<1>3. \A e \in Events : e > created' => e > created /\ held'[e] = held[e]
  BY <1>0, <1>1, <1>2 DEF Events, TInv, EventType, NumberType
<1>4. origin[created + 1].queue = NoQueue
  BY <1>0, <1>2 DEF QueueInv, OriginInv
<1>5. \A e \in 1 .. created' : e = created + 1 \/ e \in 1 .. created
  BY <1>0, <1>1
<1>6. OriginInv'
  BY <1>1, <1>3 DEF QueueInv, OriginInv, Timeline
<1>7. NumberInv'
  BY <1>1 DEF QueueInv, NumberInv
<1>8. InOrderCompletion'
  BY <1>1, <1>4, <1>5, QueueAssumption DEF QueueInv, InOrderCompletion, Completed
<1>9. SuccessMeansDepsSucceeded'
  BY <1>1, <1>4, <1>5 DEF QueueInv, SuccessMeansDepsSucceeded, Timeline, Completed
<1>10. \A e : Succeeded(e) => Succeeded(e)'
  BY <1>1 DEF Succeeded, Completed
<1>11. FifoInv' /\ DepInv'
  <2> SUFFICES ASSUME NEW p \in Queues PROVE FifoOk(p)' /\ DepOk(p)'
    BY DEF FifoInv, DepInv
  <2>1. FifoOk(p) /\ DepOk(p)
    BY DEF QueueInv, FifoInv, DepInv
  <2>2. FifoOk(p)'
    BY <1>0, <1>1, <2>1, FifoStays
  <2>3. DepOk(p)'
    BY <1>0, <1>1, <1>10, <2>1, DepStays
  <2> QED BY <2>2, <2>3
<1> QED BY <1>6, <1>7, <1>8, <1>9, <1>11 DEF QueueInv

LEMMA SignalEventInv ==
  ASSUME QueueInv, TInv', NEW e \in Events, NEW v \in 1 .. MaxValue, SignalEvent(e, v)
  PROVE  QueueInv'
<1>0. TInv /\ created \in Nat /\ v \in Nat
  BY CreatedEvents, QueueAssumption DEF QueueInv
<1>1. e <= created
  BY <1>0 DEF SignalEvent, Valid, QueueInv, OriginInv, Events
<1>2. /\ OriginInv' /\ NumberInv' /\ InOrderCompletion' /\ SuccessMeansDepsSucceeded'
      /\ \A f \in Events : Succeeded(f) => Succeeded(f)'
  BY <1>0, <1>1, SignalKeeps DEF SignalEvent
<1>3. FifoInv' /\ DepInv'
  <2> SUFFICES ASSUME NEW p \in Queues PROVE FifoOk(p)' /\ DepOk(p)'
    BY DEF FifoInv, DepInv
  <2>1. FifoOk(p) /\ DepOk(p)
    BY DEF QueueInv, FifoInv, DepInv
  <2>2. FifoOk(p)'
    BY <1>0, <2>1, FifoStays DEF SignalEvent, workVars
  <2>3. DepOk(p)'
    BY <1>0, <1>2, <2>1, DepStays DEF SignalEvent, workVars
  <2> QED BY <2>2, <2>3
<1> QED BY <1>2, <1>3 DEF QueueInv

LEMMA AppEventInv ==
  ASSUME QueueInv, TInv', AppEvent
  PROVE  QueueInv'
<1>0. TInv /\ created \in Nat
  BY CreatedEvents DEF QueueInv
<1>1. CASE CreateEvent
  BY <1>1, CreateEventInv
<1>2. ASSUME NEW e \in Events, NEW v \in 1 .. MaxValue, SignalEvent(e, v) PROVE QueueInv'
  BY <1>2, SignalEventInv
<1>3. ASSUME NEW e \in Events, RetainEvent(e) \/ ReleaseEvent(e) PROVE QueueInv'
  <2>1. e <= created
    BY <1>0, <1>3 DEF RetainEvent, ReleaseEvent, Valid, QueueInv, OriginInv, Events
  <2>2. \A f \in Events : f > created => held'[f] = held[f]
    BY <1>0, <1>3, <2>1 DEF RetainEvent, ReleaseEvent, Events, TInv, EventType, NumberType
  <2>3. \A f \in Events : f > created => held'[f] = 0
    BY <2>2 DEF QueueInv, OriginInv
  <2>4. UNCHANGED <<created, counter, error, origin, fifo, enq, done, workVars, shutdown>>
    BY <1>3 DEF RetainEvent, ReleaseEvent
  <2> QED BY <2>3, <2>4, QuietStep
<1> QED BY <1>1, <1>2, <1>3 DEF AppEvent

LEMMA AppQueueInv ==
  ASSUME QueueInv, TInv', NEW q \in Queues, AppQueue(q)
  PROVE  QueueInv'
<1>0. TInv /\ created \in Nat
  BY CreatedEvents DEF QueueInv
<1>h. \A e \in Events : e > created => held[e] = 0
  BY DEF QueueInv, OriginInv
<1>1. ASSUME NEW o \in Orders, Enqueue(q, o.work, o.waits) PROVE QueueInv'
  <2>1. PICK k \in {0, 1} :
          Push(q, o.work, o.waits, k) /\ held' = [held EXCEPT ![created + 1] = k]
    BY <1>1 DEF Enqueue
  <2>2. created' = created + 1
    BY <2>1 DEF Push
  <2>3. \A e \in Events : e > created' => held'[e] = held[e] /\ e > created
    BY <1>0, <2>1, <2>2 DEF Events, TInv, EventType, NumberType
  <2> QED BY <1>h, <2>1, <2>3, OrderParts, PushInv
<1>2. ASSUME NEW o \in Orders, EnqueueNull(q, o.work, o.waits) PROVE QueueInv'
  BY <1>2, <1>h, QuietStep DEF EnqueueNull
<1>3. CASE FinishStart(q)
  <2>1. Push(q, Barrier, << >>, 1) /\ held' = held
    BY <1>3 DEF FinishStart
  <2>2. created' = created + 1
    BY <2>1 DEF Push
  <2>3. \A e \in Events : e > created' => held'[e] = 0
    BY <1>0, <1>h, <2>1, <2>2 DEF Events
  <2>4. << >> \in Seq(Events)
    OBVIOUS
  <2> QED BY <2>1, <2>3, <2>4, BarrierWork, PushInv
<1>4. CASE FinishEnd(q)
  BY <1>4, <1>h, QuietStep DEF FinishEnd
<1>5. CASE ReleaseQueue(q)
  <2>1. \A p \in Queues : shutdown[p] => shutdown'[p]
    BY <1>0, <1>5 DEF ReleaseQueue, TInv, QueueType
  <2> QED BY <1>5, <1>h, <2>1, QuietStep DEF ReleaseQueue, evVars
<1> QED BY <1>1, <1>2, <1>3, <1>4, <1>5 DEF AppQueue, FinishReturn, FinishTimeout

LEMMA WorkerInv ==
  ASSUME QueueInv, TInv', NEW q \in Queues, Worker(q)
  PROVE  QueueInv'
BY PopInv, StopInv, WaitDepInv, DepsDoneInv, RunInv, RunSignalInv, CompleteInv DEF Worker

LEMMA NextInv == QueueInv /\ [Next]_vars => QueueInv'
<1> SUFFICES ASSUME QueueInv, [Next]_vars PROVE QueueInv'
  OBVIOUS
<1>0. TInv'
  BY NextType DEF QueueInv
<1>1. CASE AppEvent
  BY <1>0, <1>1, AppEventInv
<1>2. ASSUME NEW q \in Queues, AppQueue(q) \/ Worker(q) PROVE QueueInv'
  BY <1>0, <1>2, AppQueueInv, WorkerInv
<1>3. CASE UNCHANGED vars
  <2>1. UNCHANGED <<created, counter, error, origin, fifo, enq, done, workVars, shutdown, held>>
    BY <1>3 DEF vars, evVars
  <2> QED BY <1>0, <2>1, QuietStep DEF QueueInv, OriginInv
<1> QED BY <1>1, <1>2, <1>3 DEF Next

-----------------------------------------------------------------------------
(* Theorems.                                                               *)

LEMMA QueueInvariant == Spec => []QueueInv
BY InitInv, NextInv, PTL DEF Spec

(***************************************************************************)
(* In-order queues: the event of a command is complete exactly when the    *)
(* queue has completed as many commands as were enqueued up to it, however *)
(* the workers, signals and waits of other queues interleave (worker_loop, *)
(* Event::complete, Queue::finish).                                        *)
(***************************************************************************)
THEOREM CompletesInOrder == Spec => []InOrderCompletion
<1>1. QueueInv => InOrderCompletion
  BY DEF QueueInv
<1> QED BY <1>1, QueueInvariant, PTL

(***************************************************************************)
(* A command reported successful depended on successful events only: a     *)
(* failure reaches every command that waits for it, across queues          *)
(* (worker_loop's short circuit, Event::complete).                         *)
(***************************************************************************)
THEOREM FailuresPropagate == Spec => []SuccessMeansDepsSucceeded
<1>1. QueueInv => SuccessMeansDepsSucceeded
  BY DEF QueueInv
<1> QED BY <1>1, QueueInvariant, PTL

(***************************************************************************)
(* ~Queue joins a worker that has completed every command ever enqueued    *)
(* (Queue::~Queue, worker_loop's exit).                                    *)
(***************************************************************************)
THEOREM StoppedQueueIsDrained == Spec => []StoppedDrained
<1>1. QueueInv => StoppedDrained
  <2> SUFFICES ASSUME QueueInv, NEW q \in Queues, pc[q] = "stopped"
               PROVE  fifo[q] = << >> /\ done[q] = enq[q]
    BY DEF StoppedDrained
  <2>1. FifoOk(q) /\ done[q] \in Nat
    BY DEF QueueInv, FifoInv, TInv, QueueType
  <2>2. InHand(q) = 0 /\ fifo[q] = << >>
    BY <2>1 DEF InHand, Busy, FifoOk
  <2>3. Len(fifo[q]) = 0
    BY <2>2
  <2> QED BY <2>1, <2>2, <2>3 DEF FifoOk
<1> QED BY <1>1, QueueInvariant, PTL
-----------------------------------------------------------------------------
(* Reference counts.                                                       *)

\* Command f still has its reference k: it waits in its queue's FIFO, or is in the
\* worker's hand and the worker has not let go of that one.
Alive(f, k) ==
  /\ f \in 1 .. created /\ origin[f].queue \in Queues
  /\ k \in -1 .. Len(origin[f].cmd.waits)
  /\ LET q == origin[f].queue
         n == origin[f].cmd.n
     IN  n > done[q] + InHand(q) \/ (Busy(q) /\ n = done[q] + 1 /\ StillHas(q, k))

RefsAlive ==
  \A e \in Events :
    /\ \A r \in CommandRefs(e) : r = <<r[1], r[2]>>
    /\ \A f, k : <<f, k>> \in CommandRefs(e) <=> Alive(f, k) /\ RefersTo(origin[f].cmd, k, e)

\* The references held by a command.
LEMMA RefsOfMember ==
  ASSUME NEW c, NEW e
  PROVE  /\ \A r \in RefsOf(c, e) : r = <<r[1], r[2]>>
         /\ \A f, k : <<f, k>> \in RefsOf(c, e) <=>
              f = c.completion /\ k \in -1 .. Len(c.waits) /\ RefersTo(c, k, e)
BY DEF RefsOf

\* A command is found in its queue by its number.
LEMMA CommandOfNumber ==
  ASSUME QueueInv, NEW f \in 1 .. created, origin[f].queue \in Queues,
         NEW q, q = origin[f].queue, NEW n, n = origin[f].cmd.n
  PROVE  /\ n \in Nat
         /\ n > done[q] + InHand(q) =>
              /\ n - done[q] - InHand(q) \in 1 .. Len(fifo[q])
              /\ fifo[q][n - done[q] - InHand(q)] = origin[f].cmd
         /\ Busy(q) /\ n = done[q] + 1 => cmd[q] = origin[f].cmd
         /\ origin[f].cmd.completion = f
<1>1. f \in Events /\ created \in Nat
  BY CreatedEvents DEF QueueInv
<1>2. origin[f].queue # NoQueue
  BY QueueAssumption
<1>3. origin[f].cmd \in Command /\ origin[f].cmd.completion = f /\ n \in 1 .. enq[q]
  BY <1>1, <1>2 DEF QueueInv, OriginInv
<1>4. done[q] \in Nat /\ enq[q] \in Nat /\ InHand(q) \in Nat /\ Len(fifo[q]) \in Nat
  BY DEF QueueInv, TInv, QueueType, InHand
<1>5. enq[q] = done[q] + InHand(q) + Len(fifo[q])
  BY DEF QueueInv, FifoInv, FifoOk
<1>6. ASSUME NEW g \in 1 .. created, origin[g].queue = q, origin[g].cmd.n = n
      PROVE  g = f
  BY <1>1, <1>2, <1>6, CreatedEvents DEF QueueInv, NumberInv
<1>7. ASSUME n > done[q] + InHand(q)
      PROVE  /\ n - done[q] - InHand(q) \in 1 .. Len(fifo[q])
             /\ fifo[q][n - done[q] - InHand(q)] = origin[f].cmd
  <2> DEFINE i == n - done[q] - InHand(q)
  <2>1. i \in 1 .. Len(fifo[q]) /\ done[q] + InHand(q) + i = n
    <3>1. PICK d \in Nat, h \in Nat, l \in Nat : d = done[q] /\ h = InHand(q) /\ l = Len(fifo[q])
      BY <1>4
    <3>2. n \in Nat /\ n <= d + h + l /\ n > d + h
      BY <1>3, <1>4, <1>5, <1>7, <3>1
    <3>3. n - d - h \in 1 .. l /\ d + h + (n - d - h) = n
      BY <3>2
    <3> QED BY <3>1, <3>3
  <2>2. fifo[q][i].n = n /\ Issued(q, fifo[q][i])
    BY <2>1 DEF QueueInv, FifoInv, FifoOk
  <2> HIDE DEF i
  <2>3. /\ fifo[q][i].completion \in 1 .. created
        /\ origin[fifo[q][i].completion].queue = q
        /\ origin[fifo[q][i].completion].cmd = fifo[q][i]
    BY <2>2 DEF Issued
  <2>4. fifo[q][i].completion = f
    BY <2>2, <2>3, <1>6
  <2> QED BY <2>1, <2>3, <2>4 DEF i
<1>8. ASSUME Busy(q), n = done[q] + 1 PROVE cmd[q] = origin[f].cmd
  <2>1. cmd[q].n = n /\ Issued(q, cmd[q])
    BY <1>8 DEF QueueInv, FifoInv, FifoOk
  <2>2. /\ cmd[q].completion \in 1 .. created
        /\ origin[cmd[q].completion].queue = q /\ origin[cmd[q].completion].cmd = cmd[q]
    BY <2>1 DEF Issued
  <2>3. cmd[q].completion = f
    BY <2>1, <2>2, <1>6
  <2> QED BY <2>2, <2>3
<1> QED BY <1>3, <1>7, <1>8

LEMMA RefsAreAlive == QueueInv => RefsAlive
<1> SUFFICES ASSUME QueueInv, NEW e \in Events
             PROVE  /\ \A r \in CommandRefs(e) : r = <<r[1], r[2]>>
                    /\ \A f, k : <<f, k>> \in CommandRefs(e) <=>
                         Alive(f, k) /\ RefersTo(origin[f].cmd, k, e)
  BY DEF RefsAlive
<1>1. \A r \in CommandRefs(e) : r = <<r[1], r[2]>>
  BY RefsOfMember DEF CommandRefs, QueuedRefs, TakenRefs
<1>2. ASSUME NEW f, NEW k, <<f, k>> \in CommandRefs(e)
      PROVE  Alive(f, k) /\ RefersTo(origin[f].cmd, k, e)
  <2>1. CASE <<f, k>> \in QueuedRefs(e)
    <3>1. PICK q \in Queues : \E i \in DOMAIN fifo[q] : <<f, k>> \in RefsOf(fifo[q][i], e)
      BY <2>1 DEF QueuedRefs
    <3>2. PICK i \in DOMAIN fifo[q] : <<f, k>> \in RefsOf(fifo[q][i], e)
      BY <3>1
    <3>3. i \in 1 .. Len(fifo[q])
      BY <3>2 DEF QueueInv, TInv, QueueType
    <3>4. fifo[q][i].n = done[q] + InHand(q) + i /\ Issued(q, fifo[q][i])
      BY <3>3 DEF QueueInv, FifoInv, FifoOk
    <3>5. f = fifo[q][i].completion /\ k \in -1 .. Len(fifo[q][i].waits) /\ RefersTo(fifo[q][i], k, e)
      BY <3>2, RefsOfMember
    <3>6. f \in 1 .. created /\ origin[f].queue = q /\ origin[f].cmd = fifo[q][i]
      BY <3>4, <3>5 DEF Issued
    <3>7. done[q] \in Nat /\ InHand(q) \in Nat
      BY DEF QueueInv, TInv, QueueType, InHand
    <3>8. done[q] + InHand(q) + i > done[q] + InHand(q)
      BY <3>3, <3>7
    <3> QED BY <3>4, <3>5, <3>6, <3>8 DEF Alive
  <2>2. CASE <<f, k>> \in TakenRefs(e)
    <3>1. PICK q \in Queues : <<f, k>> \in {r \in RefsOf(cmd[q], e) : StillHas(q, r[2])}
      BY <2>2 DEF TakenRefs
    <3>2. <<f, k>> \in RefsOf(cmd[q], e) /\ StillHas(q, k)
      BY <3>1
    <3>3. Busy(q)
      BY <3>2 DEF StillHas, Busy
    <3>4. cmd[q].n = done[q] + 1 /\ Issued(q, cmd[q])
      BY <3>3 DEF QueueInv, FifoInv, FifoOk
    <3>5. f = cmd[q].completion /\ k \in -1 .. Len(cmd[q].waits) /\ RefersTo(cmd[q], k, e)
      BY <3>2, RefsOfMember
    <3>6. f \in 1 .. created /\ origin[f].queue = q /\ origin[f].cmd = cmd[q]
      BY <3>4, <3>5 DEF Issued
    <3> QED BY <3>2, <3>3, <3>4, <3>5, <3>6 DEF Alive
  <2> QED BY <1>2, <2>1, <2>2 DEF CommandRefs
<1>3. ASSUME NEW f, NEW k, Alive(f, k), RefersTo(origin[f].cmd, k, e)
      PROVE  <<f, k>> \in CommandRefs(e)
  <2> DEFINE q == origin[f].queue
             n == origin[f].cmd.n
  <2>1. f \in 1 .. created /\ q \in Queues /\ k \in -1 .. Len(origin[f].cmd.waits)
    BY <1>3 DEF Alive
  <2>2. /\ n > done[q] + InHand(q) =>
              /\ n - done[q] - InHand(q) \in 1 .. Len(fifo[q])
              /\ fifo[q][n - done[q] - InHand(q)] = origin[f].cmd
        /\ Busy(q) /\ n = done[q] + 1 => cmd[q] = origin[f].cmd
        /\ origin[f].cmd.completion = f
    BY <2>1, CommandOfNumber
  <2>3. <<f, k>> \in RefsOf(origin[f].cmd, e)
    BY <1>3, <2>1, <2>2, RefsOfMember
  <2>4. CASE n > done[q] + InHand(q)
    <3>1. PICK i \in 1 .. Len(fifo[q]) : fifo[q][i] = origin[f].cmd
      BY <2>2, <2>4
    <3>2. i \in DOMAIN fifo[q]
      BY <2>1 DEF QueueInv, TInv, QueueType
    <3>3. <<f, k>> \in UNION {RefsOf(fifo[q][j], e) : j \in DOMAIN fifo[q]}
      BY <2>3, <3>1, <3>2
    <3> QED BY <2>1, <3>3 DEF CommandRefs, QueuedRefs
  <2>5. CASE Busy(q) /\ n = done[q] + 1 /\ StillHas(q, k)
    <3>1. <<f, k>> \in {r \in RefsOf(cmd[q], e) : StillHas(q, r[2])}
      BY <2>2, <2>3, <2>5
    <3> QED BY <2>1, <3>1 DEF CommandRefs, TakenRefs
  <2> QED BY <1>3, <2>4, <2>5 DEF Alive
<1> QED BY <1>1, <1>2, <1>3
\* The count of an event is what is owed to it, and nobody refers to an event that
\* is not created yet.
Balanced(e) ==
  /\ IsFiniteSet(CommandRefs(e)) /\ IsFiniteSet(FinishRefs(e))
  /\ refs[e] = Owed(e) + leaked[e]
  /\ e > created => refs[e] = 0

BalanceInv == \A e \in Events : Balanced(e)

LEMMA EventNumbers ==
  ASSUME TInv, NEW e \in Events
  PROVE  refs[e] \in Int /\ held[e] \in Nat /\ leaked[e] \in Nat
BY DEF TInv, EventType, NumberType

\* Nothing is owed to an event that is not created yet.
LEMMA FreshEvent ==
  ASSUME QueueInv, BalanceInv, NEW e \in Events, e > created
  PROVE  /\ CommandRefs(e) = {} /\ FinishRefs(e) = {}
         /\ held[e] = 0 /\ leaked[e] = 0 /\ refs[e] = 0
<1>1. Balanced(e)
  BY DEF BalanceInv
<1>2. PICK a \in Nat, b \in Nat : a = Cardinality(CommandRefs(e)) /\ b = Cardinality(FinishRefs(e))
  BY <1>1, FS_CardinalityType DEF Balanced
<1>3. held[e] \in Nat /\ leaked[e] \in Nat /\ refs[e] = 0
  BY <1>1, EventNumbers DEF Balanced, QueueInv
<1>4. 0 = held[e] + b + a + leaked[e]
  BY <1>1, <1>2, <1>3 DEF Balanced, Owed
<1>5. PICK h \in Nat, l \in Nat : h = held[e] /\ l = leaked[e]
  BY <1>3
<1>6. h + b + a + l = 0
  BY <1>4, <1>5
<1>7. a = 0 /\ b = 0 /\ h = 0 /\ l = 0
  BY <1>6
<1> QED BY <1>1, <1>2, <1>3, <1>5, <1>7, FS_EmptySet DEF Balanced

\* A step that ends no reference to e leaves the references to e as they are.
LEMMA SameRefs ==
  ASSUME QueueInv, QueueInv', UNCHANGED origin, NEW e \in Events,
         \A f, k : RefersTo(origin[f].cmd, k, e) => (Alive(f, k)' <=> Alive(f, k))
  PROVE  CommandRefs(e)' = CommandRefs(e)
<1>1. RefsAlive /\ RefsAlive'
  BY RefsAreAlive, PTL
<1>2. /\ \A r \in CommandRefs(e) : r = <<r[1], r[2]>>
      /\ \A r \in CommandRefs(e)' : r = <<r[1], r[2]>>
  BY <1>1 DEF RefsAlive
<1>3. \A f, k : (<<f, k>> \in CommandRefs(e))' <=> Alive(f, k)' /\ RefersTo(origin[f].cmd, k, e)
  BY <1>1 DEF RefsAlive
<1>4. \A f, k : (<<f, k>> \in CommandRefs(e)) <=> Alive(f, k) /\ RefersTo(origin[f].cmd, k, e)
  BY <1>1 DEF RefsAlive
<1> DEFINE A == CommandRefs(e)
           B == CommandRefs(e)'
<1>5. \A f, k : <<f, k>> \in B <=> <<f, k>> \in A
  BY <1>3, <1>4
<1>6. /\ \A r \in A : r = <<r[1], r[2]>>
      /\ \A r \in B : r = <<r[1], r[2]>>
  BY <1>2
<1> HIDE DEF A, B
<1>7. A = B
  BY <1>5, <1>6
<1> QED BY <1>7 DEF A, B

\* Steps that take and give back references of the application only.
LEMMA QuietBalance ==
  ASSUME QueueInv, QueueInv', BalanceInv, UNCHANGED <<origin, finish>>, created <= created',
         \A f, k : Alive(f, k)' <=> Alive(f, k),
         \A e \in Events : refs'[e] - held'[e] - leaked'[e] = refs[e] - held[e] - leaked[e],
         \A e \in Events : e > created' => refs'[e] = refs[e]
  PROVE  BalanceInv'
<1> SUFFICES ASSUME NEW e \in Events PROVE Balanced(e)'
  BY DEF BalanceInv, Events
<1>1. CommandRefs(e)' = CommandRefs(e) /\ FinishRefs(e)' = FinishRefs(e)
  BY SameRefs DEF FinishRefs
<1>2. Balanced(e)
  BY DEF BalanceInv
<1>3. PICK a \in Nat, b \in Nat : a = Cardinality(CommandRefs(e)) /\ b = Cardinality(FinishRefs(e))
  BY <1>2, FS_CardinalityType DEF Balanced
<1>4. /\ refs[e] \in Int /\ held[e] \in Nat /\ leaked[e] \in Nat
      /\ refs'[e] \in Int /\ held'[e] \in Nat /\ leaked'[e] \in Nat
  BY DEF QueueInv, TInv, EventType, NumberType
<1>5. refs[e] = held[e] + b + a + leaked[e]
  BY <1>2, <1>3 DEF Balanced, Owed
<1>6. refs'[e] = held'[e] + b + a + leaked'[e]
  <2>1. PICK h \in Nat, l \in Nat, r \in Int, hh \in Nat, ll \in Nat, rr \in Int :
          /\ h = held[e] /\ l = leaked[e] /\ r = refs[e]
          /\ hh = held'[e] /\ ll = leaked'[e] /\ rr = refs'[e]
    BY <1>4
  <2>2. r = h + b + a + l /\ rr - hh - ll = r - h - l
    BY <1>5, <2>1
  <2>3. rr = hh + b + a + ll
    BY <2>2
  <2> QED BY <2>1, <2>3
<1>7. (refs[e] = Owed(e) + leaked[e])'
  BY <1>1, <1>3, <1>6 DEF Owed
<1>8. e \in Nat /\ created \in Nat /\ created' \in Nat
  BY QueueAssumption DEF QueueInv, TInv, EventType, NumberType, Events
<1>9. e > created' => refs'[e] = 0
  BY <1>2, <1>8 DEF Balanced
<1> QED BY <1>1, <1>2, <1>7, <1>9 DEF Balanced

\* A worker lets go of reference k of command f, which is to event t.
LEMMA DropBalance ==
  ASSUME QueueInv, QueueInv', BalanceInv, UNCHANGED <<created, origin, finish, held>>,
         NEW f, NEW k, NEW t \in Events, Alive(f, k),
         \A e \in Events : RefersTo(origin[f].cmd, k, e) <=> e = t,
         \A g, i : Alive(g, i)' <=> Alive(g, i) /\ ~(g = f /\ i = k),
         \/ refs' = [refs EXCEPT ![t] = @ - 1] /\ leaked' = leaked
         \/ refs' = refs /\ leaked' = [leaked EXCEPT ![t] = @ + 1]
  PROVE  BalanceInv'
<1> SUFFICES ASSUME NEW e \in Events PROVE Balanced(e)'
  BY DEF BalanceInv, Events
<1>1. RefsAlive /\ RefsAlive'
  BY RefsAreAlive, PTL
<1> DEFINE A == CommandRefs(e)
           B == CommandRefs(e)'
<1>2. /\ \A r \in A : r = <<r[1], r[2]>>
      /\ \A r \in B : r = <<r[1], r[2]>>
  BY <1>1 DEF RefsAlive
<1>3. \A g, i : <<g, i>> \in B <=> Alive(g, i)' /\ RefersTo(origin[g].cmd, i, e)
  BY <1>1 DEF RefsAlive
<1>4. \A g, i : <<g, i>> \in A <=> Alive(g, i) /\ RefersTo(origin[g].cmd, i, e)
  BY <1>1 DEF RefsAlive
<1>5. \A g, i : <<g, i>> \in B <=> <<g, i>> \in A /\ ~(g = f /\ i = k)
  BY <1>3, <1>4
<1>6. <<f, k>> \in A <=> e = t
  BY <1>4
<1>7. B = A \ {<<f, k>>}
  <2> HIDE DEF A, B
  <2> QED BY <1>2, <1>5
<1>8. Balanced(e)
  BY DEF BalanceInv
<1>9. /\ IsFiniteSet(B)
      /\ Cardinality(B) = IF e = t THEN Cardinality(A) - 1 ELSE Cardinality(A)
  <2>1. IsFiniteSet(A)
    BY <1>8 DEF Balanced
  <2> HIDE DEF A, B
  <2> QED BY <1>6, <1>7, <2>1, FS_RemoveElement
<1>10. PICK a \in Nat, b \in Nat : a = Cardinality(A) /\ b = Cardinality(FinishRefs(e))
  BY <1>8, FS_CardinalityType DEF Balanced
<1>11. FinishRefs(e)' = FinishRefs(e)
  BY DEF FinishRefs
<1>12. /\ refs[e] \in Int /\ held[e] \in Nat /\ leaked[e] \in Nat
       /\ refs \in [Events -> Int] /\ leaked \in [Events -> Nat]
  BY DEF QueueInv, TInv, EventType, NumberType
<1>13. refs[e] = held[e] + b + a + leaked[e]
  BY <1>8, <1>10 DEF Balanced, Owed
<1>14. PICK m \in Int : m = Cardinality(B) /\ m = IF e = t THEN a - 1 ELSE a
  BY <1>9, <1>10
<1>15. refs'[e] - leaked'[e] = IF e = t THEN refs[e] - leaked[e] - 1 ELSE refs[e] - leaked[e]
  BY <1>12
<1>16. refs'[e] \in Int /\ leaked'[e] \in Nat
  BY DEF QueueInv, TInv, EventType, NumberType
<1>17. refs'[e] = held[e] + b + m + leaked'[e]
  BY <1>10, <1>12, <1>13, <1>14, <1>15, <1>16
<1>18. (refs[e] = Owed(e) + leaked[e])'
  BY <1>10, <1>11, <1>14, <1>17 DEF Owed
<1>19. e > created' => refs'[e] = 0
  <2> SUFFICES ASSUME e > created PROVE refs'[e] = 0
    OBVIOUS
  <2>1. A = {} /\ refs[e] = 0
    BY FreshEvent
  <2>2. e # t
    BY <1>6, <2>1
  <2> QED BY <1>12, <2>1, <2>2
<1> QED BY <1>8, <1>9, <1>11, <1>18, <1>19 DEF Balanced
\* The command in a worker's hand.
LEMMA HandRefs ==
  ASSUME QueueInv, NEW q \in Queues, Busy(q), NEW f, f = cmd[q].completion
  PROVE  /\ f \in 1 .. created /\ f \in Events /\ cmd[q] \in Command
         /\ origin[f].queue = q /\ origin[f].cmd = cmd[q] /\ cmd[q].n = done[q] + 1
         /\ \A k : Alive(f, k) <=> k \in -1 .. Len(cmd[q].waits) /\ StillHas(q, k)
         /\ \A g \in 1 .. created :
              origin[g].queue = q /\ origin[g].cmd.n = done[q] + 1 => g = f
<1>1. cmd[q].n = done[q] + 1 /\ Issued(q, cmd[q]) /\ cmd[q] \in Command
  BY DEF QueueInv, FifoInv, FifoOk, TInv, IdleInv
<1>2. /\ f \in 1 .. created /\ f \in Events
      /\ origin[f].queue = q /\ origin[f].cmd = cmd[q]
  BY <1>1, CreatedEvents DEF Issued, QueueInv
<1>3. InHand(q) = 1 /\ done[q] \in Nat /\ ~(done[q] + 1 > done[q] + 1)
  BY DEF InHand, QueueInv, TInv, QueueType
<1>4. \A k : Alive(f, k) <=> k \in -1 .. Len(cmd[q].waits) /\ StillHas(q, k)
  BY <1>1, <1>2, <1>3 DEF Alive
<1>5. ASSUME NEW g \in 1 .. created, origin[g].queue = q, origin[g].cmd.n = done[q] + 1
      PROVE  g = f
  <2>1. g \in Events /\ q # NoQueue
    BY CreatedEvents, QueueAssumption DEF QueueInv
  <2> QED BY <1>1, <1>2, <1>5, <2>1 DEF QueueInv, NumberInv
<1> QED BY <1>1, <1>2, <1>4, <1>5

\* A worker that keeps its command lets go of the references in K.
LEMMA HandMove ==
  ASSUME QueueInv, NEW q \in Queues, Busy(q), Busy(q)', UNCHANGED <<created, origin, done>>,
         \A p \in Queues \ {q} : pc'[p] = pc[p] /\ dep'[p] = dep[p],
         NEW K, \A k \in Int : StillHas(q, k)' <=> StillHas(q, k) /\ k \notin K
  PROVE  \A g, i : Alive(g, i)' <=> Alive(g, i) /\ ~(g = cmd[q].completion /\ i \in K)
<1> DEFINE f == cmd[q].completion
<1>1. /\ f \in 1 .. created /\ cmd[q] \in Command
      /\ origin[f].queue = q /\ origin[f].cmd = cmd[q] /\ cmd[q].n = done[q] + 1
      /\ \A g \in 1 .. created :
           origin[g].queue = q /\ origin[g].cmd.n = done[q] + 1 => g = f
  BY HandRefs
<1>2. \A p \in Queues : (Busy(p)' <=> Busy(p)) /\ InHand(p)' = InHand(p)
  BY DEF Busy, InHand
<1>3. \A p \in Queues : \A i : p # q => (StillHas(p, i)' <=> StillHas(p, i))
  BY DEF StillHas
<1> SUFFICES ASSUME NEW g, NEW i PROVE Alive(g, i)' <=> Alive(g, i) /\ ~(g = f /\ i \in K)
  OBVIOUS
<1> HIDE DEF f
<1>4. CASE ~(g \in 1 .. created /\ origin[g].queue \in Queues /\ i \in -1 .. Len(origin[g].cmd.waits))
  BY <1>4 DEF Alive
<1>5. CASE g \in 1 .. created /\ origin[g].queue \in Queues /\ i \in -1 .. Len(origin[g].cmd.waits)
  <2> DEFINE p == origin[g].queue
             n == origin[g].cmd.n
  <2>1. /\ Alive(g, i) <=> n > done[p] + InHand(p) \/ (Busy(p) /\ n = done[p] + 1 /\ StillHas(p, i))
        /\ Alive(g, i)' <=> n > done[p] + InHand(p) \/ (Busy(p) /\ n = done[p] + 1 /\ StillHas(p, i)')
    BY <1>2, <1>5 DEF Alive
  <2>2. i \in Int
    BY <1>5
  <2>3. CASE p # q
    BY <1>1, <1>3, <1>5, <2>1, <2>3
  <2>4. CASE p = q /\ g # f
    <3>1. n # done[q] + 1
      BY <1>1, <1>5, <2>4
    <3> QED BY <2>1, <2>4, <3>1
  <2>5. CASE p = q /\ g = f
    <3>1. n = done[q] + 1 /\ InHand(q) = 1 /\ done[q] \in Nat
      BY <1>1, <2>5 DEF InHand, QueueInv, TInv, QueueType
    <3>2. ~(n > done[q] + InHand(q))
      BY <3>1
    <3> QED BY <2>1, <2>2, <2>5, <3>1, <3>2
  <2> QED BY <2>3, <2>4, <2>5
<1> QED BY <1>4, <1>5

LEMMA WaitDepBalance ==
  ASSUME QueueInv, QueueInv', BalanceInv, NEW q \in Queues, WaitDep(q)
  PROVE  BalanceInv'
<1> DEFINE f == cmd[q].completion
           k == dep[q] + 1
<1>1. Busy(q) /\ Busy(q)' /\ pc' = pc /\ pc[q] = "deps"
  BY DEF WaitDep, Busy
<1>2. dep[q] \in Nat /\ dep'[q] = dep[q] + 1 /\ \A p \in Queues \ {q} : dep'[p] = dep[p]
  BY DEF WaitDep, QueueInv, TInv, WorkerType
<1>3. /\ cmd[q] \in Command /\ f \in Events /\ origin[f].cmd = cmd[q]
      /\ \A i : Alive(f, i) <=> i \in -1 .. Len(cmd[q].waits) /\ StillHas(q, i)
  BY <1>1, HandRefs
<1>4. cmd[q].waits \in Seq(Events) /\ Len(cmd[q].waits) \in Nat /\ DOMAIN cmd[q].waits = 1 .. Len(cmd[q].waits)
  BY <1>3, CommandParts
<1>5. k \in 1 .. Len(cmd[q].waits) /\ k \in -1 .. Len(cmd[q].waits) /\ StillHas(q, k)
  <2>1. dep[q] < Len(cmd[q].waits)
    BY DEF WaitDep
  <2> QED BY <1>1, <1>2, <1>4, <2>1 DEF StillHas
<1>6. \A i \in Int : StillHas(q, i)' <=> StillHas(q, i) /\ i \notin {k}
  BY <1>1, <1>2 DEF StillHas
<1>7. \A g, i : Alive(g, i)' <=> Alive(g, i) /\ ~(g = f /\ i \in {k})
  BY <1>1, <1>2, <1>6, HandMove DEF WaitDep
<1>8. Alive(f, k)
  BY <1>3, <1>5
<1>9. NextDep(q) = cmd[q].waits[k] /\ NextDep(q) \in Events
  BY <1>4, <1>5 DEF NextDep
<1>10. \A e \in Events : RefersTo(origin[f].cmd, k, e) <=> e = NextDep(q)
  <2>1. k # -1 /\ k # 0 /\ k \in DOMAIN cmd[q].waits
    BY <1>4, <1>5
  <2> QED BY <1>3, <1>9, <2>1 DEF RefersTo
<1>11. /\ refs' = [refs EXCEPT ![NextDep(q)] = @ - 1] /\ leaked' = leaked
       /\ UNCHANGED <<created, origin, finish, held>>
  BY DEF WaitDep
<1> HIDE DEF f, k
<1>12. \A g, i : Alive(g, i)' <=> Alive(g, i) /\ ~(g = f /\ i = k)
  BY <1>7
<1>13. PICK t \in Events : t = NextDep(q)
  BY <1>9
<1>14. /\ \A e \in Events : RefersTo(origin[f].cmd, k, e) <=> e = t
       /\ refs' = [refs EXCEPT ![t] = @ - 1] /\ leaked' = leaked
  BY <1>10, <1>11, <1>13
<1>15. PICK g, i : g = f /\ i = k
  OBVIOUS
<1>16. Alive(g, i) /\ \A e \in Events : RefersTo(origin[g].cmd, i, e) <=> e = t
  BY <1>8, <1>14, <1>15
<1>17. \A h, j : Alive(h, j)' <=> Alive(h, j) /\ ~(h = g /\ j = i)
  BY <1>12, <1>15
<1>18. \/ refs' = [refs EXCEPT ![t] = @ - 1] /\ leaked' = leaked
       \/ refs' = refs /\ leaked' = [leaked EXCEPT ![t] = @ + 1]
  BY <1>14
<1>19. UNCHANGED <<created, origin, finish, held>>
  BY <1>11
<1> QED BY <1>16, <1>17, <1>18, <1>19, DropBalance

\* The target of a command's work.
LEMMA TargetRef ==
  ASSUME NEW c \in Command
  PROVE  /\ \A e : RefersTo(c, 0, e) <=> c.work.ev = e
         /\ \A e : RefersTo(c, -1, e) <=> c.completion = e
         /\ c.work.ev \in Events \cup {NoEvent} /\ NoEvent \notin Events
         /\ 0 \in -1 .. Len(c.waits) /\ -1 \in -1 .. Len(c.waits)
<1>1. c.waits \in Seq(Events) /\ c.work \in Work
  BY CommandParts
<1>2. Len(c.waits) \in Nat /\ DOMAIN c.waits = 1 .. Len(c.waits)
  BY <1>1
<1>3. 0 \notin DOMAIN c.waits /\ -1 \notin DOMAIN c.waits
  BY <1>2
<1>4. c.work.ev \in Events \cup {NoEvent} /\ NoEvent \notin Events
  BY <1>1 DEF Work, NoEvent, Events
<1> QED BY <1>2, <1>3, <1>4 DEF RefersTo

\* A worker that lets go of the target of its work, after running or skipping it.
LEMMA TargetBalance ==
  ASSUME QueueInv, QueueInv', BalanceInv, NEW q \in Queues,
         pc[q] \in {"deps", "work"}, pc' = [pc EXCEPT ![q] = "complete"],
         dep[q] = Len(cmd[q].waits), dep' = dep, UNCHANGED <<created, origin, done, finish, held>>,
         NEW t, t = cmd[q].work.ev,
         t = NoEvent => refs' = refs /\ leaked' = leaked,
         t # NoEvent =>
           \/ refs' = [refs EXCEPT ![t] = @ - 1] /\ leaked' = leaked
           \/ refs' = refs /\ leaked' = [leaked EXCEPT ![t] = @ + 1]
  PROVE  BalanceInv'
<1> DEFINE f == cmd[q].completion
<1>1. pc'[q] = "complete" /\ \A p \in Queues \ {q} : pc'[p] = pc[p] /\ dep'[p] = dep[p]
  BY DEF QueueInv, TInv, WorkerType
<1>2. Busy(q) /\ Busy(q)'
  BY <1>1 DEF Busy
<1>3. /\ cmd[q] \in Command /\ f \in Events /\ origin[f].cmd = cmd[q]
      /\ \A i : Alive(f, i) <=> i \in -1 .. Len(cmd[q].waits) /\ StillHas(q, i)
  BY <1>2, HandRefs
<1>4. cmd[q].waits \in Seq(Events) /\ Len(cmd[q].waits) \in Nat
  BY <1>3, CommandParts
<1> DEFINE L == Int \ {-1}
<1>5. \A i \in Int : StillHas(q, i)' <=> StillHas(q, i) /\ i \notin L
  BY <1>1 DEF StillHas
<1>6. \A g, i : Alive(g, i)' <=> Alive(g, i) /\ ~(g = f /\ i \in L)
  <2>1. UNCHANGED <<created, origin, done>>
    OBVIOUS
  <2> HIDE DEF L
  <2> QED BY <1>1, <1>2, <1>5, <2>1, HandMove
<1>7. \A i : Alive(f, i) /\ i \in L <=> i = 0
  <2>1. ASSUME NEW i, Alive(f, i), i \in L PROVE i = 0
    <3>1. i \in -1 .. Len(cmd[q].waits) /\ StillHas(q, i)
      BY <1>3, <2>1
    <3> QED BY <1>4, <2>1, <3>1 DEF StillHas
  <2>2. Alive(f, 0)
    <3>1. StillHas(q, 0)
      BY DEF StillHas
    <3> QED BY <1>3, <3>1, TargetRef
  <2> QED BY <2>1, <2>2
<1>8. \A g, i : Alive(g, i)' <=> Alive(g, i) /\ ~(g = f /\ i = 0)
  BY <1>6, <1>7
<1>9. /\ t \in Events \cup {NoEvent} /\ NoEvent \notin Events
      /\ \A e : RefersTo(origin[f].cmd, 0, e) <=> t = e
  BY <1>3, TargetRef
<1>10. Alive(f, 0)
  BY <1>7
<1> HIDE DEF f, L
<1>11. CASE t # NoEvent
  <2>1. t \in Events /\ \A e \in Events : RefersTo(origin[f].cmd, 0, e) <=> e = t
    BY <1>9, <1>11
  <2> QED BY <1>8, <1>10, <1>11, <2>1, DropBalance
<1>12. CASE t = NoEvent
  <2>1. ASSUME NEW e \in Events PROVE CommandRefs(e)' = CommandRefs(e)
    <3>1. ~RefersTo(origin[f].cmd, 0, e)
      BY <1>9, <1>12
    <3>2. \A g, i : RefersTo(origin[g].cmd, i, e) => (Alive(g, i)' <=> Alive(g, i))
      BY <1>8, <3>1
    <3> QED BY <3>2, SameRefs
  <2>2. \A e \in Events : FinishRefs(e)' = FinishRefs(e)
    BY DEF FinishRefs
  <2>3. \A e \in Events : Owed(e)' = Owed(e)
    BY <2>1, <2>2 DEF Owed
  <2>4. \A e \in Events : Balanced(e)'
    BY <1>12, <2>1, <2>2, <2>3 DEF BalanceInv, Balanced
  <2> QED BY <2>4 DEF BalanceInv, Events
<1> QED BY <1>11, <1>12
LEMMA DepsDoneBalance ==
  ASSUME QueueInv, QueueInv', BalanceInv, NEW q \in Queues, DepsDone(q)
  PROVE  BalanceInv'
<1>1. pc[q] = "deps" /\ dep[q] = Len(cmd[q].waits) /\ dep' = dep /\ UNCHANGED <<created, origin, done, finish, held, refs>>
  BY DEF DepsDone
<1>2. CASE res[q] = "ok"
  <2>1. pc'[q] = "work" /\ (\A p \in Queues \ {q} : pc'[p] = pc[p]) /\ leaked' = leaked
    BY <1>2 DEF DepsDone, QueueInv, TInv, WorkerType
  <2>2. Busy(q) /\ Busy(q)'
    BY <1>1, <2>1 DEF Busy
  <2>3. cmd[q] \in Command
    BY <2>2, HandRefs
  <2>4. cmd[q].waits \in Seq(Events) /\ dep[q] \in Nat
    BY <1>1, <2>3, CommandParts DEF QueueInv, TInv, WorkerType
  <2> DEFINE L == {i \in Int : i > dep[q]}
  <2>5. \A i \in Int : StillHas(q, i)' <=> StillHas(q, i) /\ i \notin L
    BY <1>1, <2>1, <2>4 DEF StillHas
  <2>6. \A g, i : Alive(g, i)' <=> Alive(g, i) /\ ~(g = cmd[q].completion /\ i \in L)
    BY <1>1, <2>1, <2>2, <2>5, HandMove
  <2>7. \A i : Alive(cmd[q].completion, i) => i \notin L
    <3>1. \A i : Alive(cmd[q].completion, i) => i \in -1 .. Len(cmd[q].waits)
      BY <2>2, HandRefs
    <3> QED BY <1>1, <2>4, <3>1
  <2>8. \A g, i : Alive(g, i)' <=> Alive(g, i)
    BY <2>6, <2>7
  <2>9. created \in Nat
    BY CreatedEvents DEF QueueInv
  <2> QED BY <1>1, <2>1, <2>8, <2>9, QuietBalance
<1>3. CASE res[q] # "ok"
  <2>1. pc' = [pc EXCEPT ![q] = "complete"]
    BY <1>3 DEF DepsDone
  <2>2. PICK t : t = cmd[q].work.ev
    OBVIOUS
  <2>3. leaked' = IF t = NoEvent THEN leaked ELSE [leaked EXCEPT ![t] = @ + 1]
    BY <1>3, <2>2 DEF DepsDone
  <2>4. /\ t = NoEvent => refs' = refs /\ leaked' = leaked
        /\ t # NoEvent => refs' = refs /\ leaked' = [leaked EXCEPT ![t] = @ + 1]
    BY <1>1, <2>3
  <2> QED BY <1>1, <2>1, <2>2, <2>4, TargetBalance
<1> QED BY <1>2, <1>3

LEMMA RunBalance ==
  ASSUME QueueInv, QueueInv', BalanceInv, NEW q \in Queues,
         RunDevice(q) \/ RunBarrier(q) \/ RunSignal(q) \/ RunWait(q)
  PROVE  BalanceInv'
<1>1. pc[q] = "work"
  BY DEF RunDevice, RunBarrier, RunSignal, RunWait
<1>2. pc' = [pc EXCEPT ![q] = "complete"] /\ dep' = dep /\ UNCHANGED <<created, origin, done, finish, held, leaked>>
  BY DEF RunDevice, RunBarrier, RunSignal, RunWait, WorkDone
<1>3. dep[q] = Len(cmd[q].waits)
  BY <1>1 DEF QueueInv, DepInv, DepOk
<1>4. Busy(q) /\ cmd[q] \in Command
  BY <1>1, HandRefs DEF Busy
<1>5. cmd[q].work \in Work
  BY <1>4, CommandParts
<1>6. PICK t : t = cmd[q].work.ev
  OBVIOUS
<1>7. /\ t = NoEvent => refs' = refs /\ leaked' = leaked
      /\ t # NoEvent => refs' = [refs EXCEPT ![t] = @ - 1] /\ leaked' = leaked
  <2>1. CASE RunDevice(q) \/ RunBarrier(q)
    <3>1. cmd[q].work.kind \in {"device", "barrier"} /\ refs' = refs
      BY <2>1 DEF RunDevice, RunBarrier
    <3>2. t = NoEvent
      BY <1>5, <1>6, <3>1 DEF Work
    <3> QED BY <1>2, <3>1, <3>2
  <2>2. CASE RunSignal(q) \/ RunWait(q)
    <3>1. cmd[q].work.kind \in {"signal", "wait"} /\ refs' = [refs EXCEPT ![t] = @ - 1]
      BY <1>6, <2>2 DEF RunSignal, RunWait
    <3>2. t # NoEvent
      BY <1>5, <1>6, <3>1 DEF Work, Events, NoEvent
    <3> QED BY <1>2, <3>1, <3>2
  <2> QED BY <2>1, <2>2
<1> QED BY <1>1, <1>2, <1>3, <1>6, <1>7, TargetBalance

\* Pop moves a command from the FIFO to the worker's hand, with all its references.
LEMMA PopBalance ==
  ASSUME QueueInv, QueueInv', BalanceInv, NEW q \in Queues, Pop(q)
  PROVE  BalanceInv'
<1>1. UNCHANGED <<created, origin, finish, held, refs, leaked, done, dep>>
  BY DEF Pop, evVars
<1>2. /\ pc[q] = "idle" /\ pc'[q] = "deps" /\ dep[q] = 0 /\ \A p \in Queues \ {q} : pc'[p] = pc[p]
  BY DEF Pop, QueueInv, TInv, WorkerType, IdleInv, Busy
<1>3. /\ InHand(q) = 0 /\ ~Busy(q) /\ InHand(q)' = 1 /\ Busy(q)'
      /\ \A p \in Queues \ {q} : InHand(p)' = InHand(p) /\ (Busy(p)' <=> Busy(p))
  BY <1>2 DEF InHand, Busy
<1>4. \A p \in Queues \ {q} : \A i : StillHas(p, i)' <=> StillHas(p, i)
  BY <1>1, <1>2 DEF StillHas
<1>5. ASSUME NEW g, NEW i PROVE Alive(g, i)' <=> Alive(g, i)
  <2>1. CASE ~(g \in 1 .. created /\ origin[g].queue \in Queues /\ i \in -1 .. Len(origin[g].cmd.waits))
    BY <1>1, <2>1 DEF Alive
  <2>2. CASE g \in 1 .. created /\ origin[g].queue \in Queues /\ i \in -1 .. Len(origin[g].cmd.waits)
    <3>0. PICK p, n : p \in Queues /\ p = origin[g].queue /\ n = origin[g].cmd.n
      BY <2>2
    <3>1. /\ Alive(g, i) <=> n > done[p] + InHand(p) \/ (Busy(p) /\ n = done[p] + 1 /\ StillHas(p, i))
          /\ Alive(g, i)' <=> n > done[p] + InHand(p)' \/ (Busy(p)' /\ n = done[p] + 1 /\ StillHas(p, i)')
      BY <1>1, <2>2, <3>0 DEF Alive
    <3>2. CASE p # q
      <4>1. /\ InHand(p)' = InHand(p) /\ (Busy(p)' <=> Busy(p))
            /\ StillHas(p, i)' <=> StillHas(p, i)
        BY <1>3, <1>4, <3>0, <3>2
      <4> QED BY <3>1, <4>1
    <3>3. CASE p = q
      <4>1. n \in Nat /\ done[q] \in Nat
        BY <2>2, <3>0, <3>3, CommandOfNumber DEF QueueInv, TInv, QueueType
      <4>2. i \in Int /\ StillHas(q, i)'
        BY <1>1, <1>2, <2>2 DEF StillHas
      <4>3. n > done[q] <=> n > done[q] + 1 \/ n = done[q] + 1
        BY <4>1
      <4>4. done[q] + 0 = done[q]
        BY <4>1
      <4> QED BY <1>3, <3>1, <3>3, <4>2, <4>3, <4>4
    <3> QED BY <3>2, <3>3
  <2> QED BY <2>1, <2>2
<1>6. created \in Nat
  BY CreatedEvents DEF QueueInv
<1> QED BY <1>1, <1>5, <1>6, QuietBalance

LEMMA CompleteBalance ==
  ASSUME QueueInv, QueueInv', BalanceInv, NEW q \in Queues, Complete(q)
  PROVE  BalanceInv'
<1>0. PICK f : f = cmd[q].completion
  OBVIOUS
<1>1. /\ pc[q] = "complete" /\ Busy(q) /\ InHand(q) = 1
      /\ UNCHANGED <<created, origin, finish, held, leaked>>
      /\ refs' = [refs EXCEPT ![f] = @ - 1]
  BY <1>0 DEF Complete, Busy, InHand
<1>2. /\ f \in 1 .. created /\ f \in Events /\ cmd[q] \in Command
      /\ origin[f].queue = q /\ origin[f].cmd = cmd[q] /\ cmd[q].n = done[q] + 1
      /\ \A k : Alive(f, k) <=> k \in -1 .. Len(cmd[q].waits) /\ StillHas(q, k)
      /\ \A g \in 1 .. created :
           origin[g].queue = q /\ origin[g].cmd.n = done[q] + 1 => g = f
  BY <1>0, <1>1, HandRefs
<1>3. /\ pc'[q] = "idle" /\ done[q] \in Nat /\ done'[q] = done[q] + 1
      /\ \A p \in Queues \ {q} : pc'[p] = pc[p] /\ dep'[p] = dep[p] /\ done'[p] = done[p]
  BY DEF Complete, NextIteration, QueueInv, TInv, WorkerType, QueueType
<1>4. /\ InHand(q)' = 0 /\ ~Busy(q)'
      /\ \A p \in Queues \ {q} : InHand(p)' = InHand(p) /\ (Busy(p)' <=> Busy(p))
  BY <1>3 DEF InHand, Busy
<1>5. \A p \in Queues \ {q} : \A i : StillHas(p, i)' <=> StillHas(p, i)
  BY <1>3 DEF StillHas
<1>6. ASSUME NEW g, NEW i PROVE Alive(g, i)' <=> Alive(g, i) /\ ~(g = f /\ i = -1)
  <2>1. CASE ~(g \in 1 .. created /\ origin[g].queue \in Queues /\ i \in -1 .. Len(origin[g].cmd.waits))
    BY <1>1, <2>1 DEF Alive
  <2>2. CASE g \in 1 .. created /\ origin[g].queue \in Queues /\ i \in -1 .. Len(origin[g].cmd.waits)
    <3>0. PICK p, n : p \in Queues /\ p = origin[g].queue /\ n = origin[g].cmd.n
      BY <2>2
    <3>1. /\ Alive(g, i) <=> n > done[p] + InHand(p) \/ (Busy(p) /\ n = done[p] + 1 /\ StillHas(p, i))
          /\ Alive(g, i)' <=> n > done'[p] + InHand(p)' \/ (Busy(p)' /\ n = done'[p] + 1 /\ StillHas(p, i)')
      BY <1>1, <2>2, <3>0 DEF Alive
    <3>2. CASE p # q
      BY <1>2, <1>3, <1>4, <1>5, <3>0, <3>1, <3>2
    <3>3. CASE p = q
      <4>0. n \in Nat
        BY <2>2, <3>0, CommandOfNumber
      <4>1. done[q] + 1 + 0 = done[q] + 1
        BY <1>3
      <4>2. StillHas(q, i) <=> i = -1
        BY <1>1 DEF StillHas
      <4>3. n = done[q] + 1 <=> g = f
        BY <1>2, <2>2, <3>0, <3>3
      <4>4. n > done[q] + 1 => n # done[q] + 1
        BY <1>3, <4>0
      <4> QED BY <1>1, <1>3, <1>4, <3>1, <3>3, <4>1, <4>2, <4>3, <4>4
    <3> QED BY <3>2, <3>3
  <2> QED BY <2>1, <2>2
<1>7. /\ Alive(f, -1)
      /\ \A e \in Events : RefersTo(origin[f].cmd, -1, e) <=> e = f
  <2>1. StillHas(q, -1)
    BY <1>1 DEF StillHas
  <2> QED BY <1>0, <1>2, <2>1, TargetRef
<1>8. \/ refs' = [refs EXCEPT ![f] = @ - 1] /\ leaked' = leaked
      \/ refs' = refs /\ leaked' = [leaked EXCEPT ![f] = @ + 1]
  BY <1>1
<1>9. UNCHANGED <<created, origin, finish, held>>
  BY <1>1
<1> QED BY <1>2, <1>6, <1>7, <1>8, <1>9, DropBalance
\* The references of a new command to e: as many as enqueue() takes, and the
\* completion's own.
LEMMA RefsOfNew ==
  ASSUME NEW c \in Nat, NEW w, NEW waits \in Seq(Events), NEW m, NEW e,
         NEW command, command = [waits |-> waits, completion |-> c, work |-> w, n |-> m]
  PROVE  /\ IsFiniteSet(RefsOf(command, e))
         /\ Cardinality(RefsOf(command, e)) = Taken(w, waits, e) + (IF e = c THEN 1 ELSE 0)
<1> DEFINE W == {i \in DOMAIN waits : waits[i] = e}
           V == IF w.ev = e THEN W \cup {0} ELSE W
           S == IF e = c THEN V \cup {-1} ELSE V
           T == RefsOf(command, e)
<1>1. Len(waits) \in Nat /\ DOMAIN waits = 1 .. Len(waits)
  OBVIOUS
<1>2. IsFiniteSet(W) /\ Cardinality(W) \in Nat
  <2>1. IsFiniteSet(1 .. Len(waits)) /\ W \subseteq 1 .. Len(waits)
    BY <1>1, FS_Interval
  <2>2. IsFiniteSet(W)
    BY <2>1, FS_Subset
  <2> QED BY <2>2, FS_CardinalityType
<1>3. IsFiniteSet(V) /\ Cardinality(V) = Taken(w, waits, e) /\ Cardinality(V) \in Nat
  <2>1. 0 \notin W
    BY <1>1
  <2>2. Taken(w, waits, e) = Cardinality(W) + (IF w.ev = e THEN 1 ELSE 0)
    BY DEF Taken
  <2> HIDE DEF W
  <2>3. IsFiniteSet(W \cup {0}) /\ Cardinality(W \cup {0}) = Cardinality(W) + 1
    BY <1>2, <2>1, FS_AddElement
  <2> QED BY <1>2, <2>2, <2>3
<1>4. IsFiniteSet(S) /\ Cardinality(S) = Taken(w, waits, e) + (IF e = c THEN 1 ELSE 0)
  <2>1. -1 \notin V
    BY <1>1
  <2> HIDE DEF V
  <2>2. IsFiniteSet(V \cup {-1}) /\ Cardinality(V \cup {-1}) = Cardinality(V) + 1
    BY <1>3, <2>1, FS_AddElement
  <2> QED BY <1>3, <2>2
<1>5. S = {i \in -1 .. Len(waits) : RefersTo(command, i, e)}
  BY <1>1 DEF RefersTo
<1>6. T = {<<c, i>> : i \in S}
  BY <1>5 DEF RefsOf
<1> HIDE DEF S, T, V, W
<1>7. ExistsBijection(S, T)
  <2> DEFINE h == [i \in S |-> <<c, i>>]
  <2>1. h \in [S -> T]
    BY <1>6
  <2>2. \A i, j \in S : h[i] = h[j] => i = j
    OBVIOUS
  <2>3. \A t \in T : \E i \in S : h[i] = t
    BY <1>6
  <2> QED BY <2>1, <2>2, <2>3 DEF ExistsBijection, Bijection, Injection, Surjection, IsInjective
<1> QED BY <1>4, <1>7, FS_Bijection DEF T

\* Events a legal command refers to are created.
LEMMA TakenOfCreated ==
  ASSUME QueueInv, NEW w \in Work, NEW waits \in Seq(Events), Legal(w, waits),
         NEW e \in Events, e > created
  PROVE  Taken(w, waits, e) = 0
<1>1. created \in Nat /\ e \in Nat
  BY CreatedEvents DEF QueueInv, Events
<1>2. \A i \in DOMAIN waits : waits[i] # e
  BY <1>1 DEF Legal
<1>3. w.ev # e
  <2>1. e # NoEvent
    BY DEF Events, NoEvent
  <2> QED BY <1>1, <2>1 DEF Legal
<1>4. {i \in DOMAIN waits : waits[i] = e} = {}
  BY <1>2
<1>5. Cardinality({i \in DOMAIN waits : waits[i] = e}) = 0
  BY <1>4, FS_EmptySet
<1>6. Taken(w, waits, e) = Cardinality({i \in DOMAIN waits : waits[i] = e}) + 0
  BY <1>3 DEF Taken
<1> QED BY <1>5, <1>6

\* enqueue() takes exactly the references its command will give back.
LEMMA PushBalance ==
  ASSUME QueueInv, QueueInv', BalanceInv, NEW q \in Queues, NEW w \in Work, NEW waits \in Seq(Events),
         NEW kept \in {0, 1}, Push(q, w, waits, kept), NEW e \in Events
  PROVE  /\ IsFiniteSet(CommandRefs(e)')
         /\ e # created + 1 =>
              refs'[e] - Cardinality(CommandRefs(e)') = refs[e] - Cardinality(CommandRefs(e))
         /\ e = created + 1 => refs'[e] = 1 + kept /\ Cardinality(CommandRefs(e)') = 1
         /\ e > created + 1 => refs'[e] = 0
<1>0. PICK c \in Nat : c = created + 1 /\ c \in Events /\ c # created /\ c > created
  BY PushedCommand, CreatedEvents DEF Push, QueueInv
<1>1. PICK command : command = [waits |-> waits, completion |-> c, work |-> w, n |-> enq[q] + 1]
  OBVIOUS
<1>2. /\ created' = c /\ origin' = [origin EXCEPT ![c] = [queue |-> q, cmd |-> command]]
      /\ UNCHANGED <<done, pc, cmd, dep, leaked>> /\ Legal(w, waits)
      /\ refs' = [x \in Events |-> IF x = c THEN 1 + kept ELSE refs[x] + Taken(w, waits, x)]
  BY <1>0, <1>1 DEF Push, workVars
<1>3. /\ origin'[c].queue = q /\ origin'[c].cmd = command
      /\ \A g \in Events : g # c => origin'[g] = origin[g]
  BY <1>0, <1>2 DEF QueueInv, TInv, EventType, OriginType
<1>4. \A p \in Queues : (Busy(p)' <=> Busy(p)) /\ InHand(p)' = InHand(p)
  BY <1>2 DEF Busy, InHand
<1>5. \A p, i : StillHas(p, i)' <=> StillHas(p, i)
  BY <1>2 DEF StillHas
<1>6. ASSUME NEW g, NEW i, g # c PROVE Alive(g, i)' <=> Alive(g, i)
  <2>1. created \in Nat /\ (g \in 1 .. c <=> g \in 1 .. created)
    <3>1. created \in Nat
      BY CreatedEvents DEF QueueInv
    <3> QED BY <1>0, <1>6, <3>1
  <2>2. CASE g \notin 1 .. created
    BY <1>2, <2>1, <2>2 DEF Alive
  <2>3. CASE g \in 1 .. created
    <3>1. g \in Events /\ origin'[g] = origin[g]
      BY <1>3, <1>6, <2>3, CreatedEvents DEF QueueInv
    <3>2. PICK p, n : p = origin[g].queue /\ n = origin[g].cmd.n
      OBVIOUS
    <3>3. CASE p \in Queues
      BY <1>2, <1>4, <1>5, <2>1, <2>3, <3>1, <3>2, <3>3 DEF Alive
    <3>4. CASE p \notin Queues
      BY <3>1, <3>2, <3>4 DEF Alive
    <3> QED BY <3>3, <3>4
  <2> QED BY <2>2, <2>3
<1>7. ASSUME NEW i PROVE Alive(c, i)' <=> i \in -1 .. Len(waits)
  <2>1. done[q] \in Nat /\ InHand(q) \in Nat /\ Len(fifo[q]) \in Nat /\ enq[q] = done[q] + InHand(q) + Len(fifo[q])
    BY DEF QueueInv, TInv, QueueType, FifoInv, FifoOk, InHand
  <2>2. enq[q] + 1 > done[q] + InHand(q)
    <3>1. PICK d \in Nat, h \in Nat, l \in Nat : d = done[q] /\ h = InHand(q) /\ l = Len(fifo[q])
      BY <2>1
    <3>2. d + h + l + 1 > d + h
      BY <3>1
    <3> QED BY <2>1, <3>1, <3>2
  <2>3. c \in 1 .. c
    BY <1>0 DEF Events
  <2>4. command.n = enq[q] + 1 /\ command.waits = waits
    BY <1>1
  <2> QED BY <1>2, <1>3, <1>4, <2>2, <2>3, <2>4 DEF Alive
<1>8. RefsAlive /\ RefsAlive'
  BY RefsAreAlive, PTL
<1> DEFINE A == CommandRefs(e)
           B == CommandRefs(e)'
           N == RefsOf(command, e)
<1>9. \A g, i : <<g, i>> \in A <=> Alive(g, i) /\ RefersTo(origin[g].cmd, i, e)
  BY <1>8 DEF RefsAlive
<1>10. \A g, i : <<g, i>> \in B <=> Alive(g, i)' /\ RefersTo(origin'[g].cmd, i, e)
  BY <1>8 DEF RefsAlive
<1>11. \A g, i : <<g, i>> \in N <=> g = c /\ i \in -1 .. Len(waits) /\ RefersTo(command, i, e)
  <2>1. command.completion = c /\ command.waits = waits
    BY <1>1
  <2> QED BY <2>1, RefsOfMember
<1>12. \A g, i : Alive(g, i) => g # c /\ g \in Events
  BY <1>0, CreatedEvents DEF Alive, QueueInv
<1>13. \A g, i : <<g, i>> \in B <=> <<g, i>> \in A \/ <<g, i>> \in N
  <2> SUFFICES ASSUME NEW g, NEW i PROVE <<g, i>> \in B <=> <<g, i>> \in A \/ <<g, i>> \in N
    OBVIOUS
  <2>1. CASE g = c
    BY <1>3, <1>7, <1>9, <1>10, <1>11, <1>12, <2>1
  <2>2. CASE g # c
    <3>1. <<g, i>> \in B <=> Alive(g, i) /\ RefersTo(origin'[g].cmd, i, e)
      BY <1>6, <1>10, <2>2
    <3>2. Alive(g, i) => origin'[g] = origin[g]
      BY <1>3, <1>12
    <3> QED BY <1>9, <1>11, <2>2, <3>1, <3>2
  <2> QED BY <2>1, <2>2
<1>14. /\ \A r \in A : r = <<r[1], r[2]>>
       /\ \A r \in B : r = <<r[1], r[2]>>
       /\ \A r \in N : r = <<r[1], r[2]>>
  BY <1>8, RefsOfMember DEF RefsAlive
<1>15. A \cap N = {}
  <2>1. \A g, i : ~(<<g, i>> \in A /\ <<g, i>> \in N)
    BY <1>9, <1>11, <1>12
  <2> HIDE DEF A, N
  <2> QED BY <1>14, <2>1
<1>16. B = A \cup N
  <2> HIDE DEF A, B, N
  <2> QED BY <1>13, <1>14
<1>17. IsFiniteSet(A) /\ Balanced(e)
  BY DEF BalanceInv, Balanced
<1>18. IsFiniteSet(N) /\ Cardinality(N) = Taken(w, waits, e) + (IF e = c THEN 1 ELSE 0)
  <2>1. PICK m : m = enq[q] + 1
    OBVIOUS
  <2>2. command = [waits |-> waits, completion |-> c, work |-> w, n |-> m]
    BY <1>1, <2>1
  <2> QED BY <2>2, RefsOfNew
<1>19. PICK a \in Nat, n \in Nat, t \in Nat :
         a = Cardinality(A) /\ n = Cardinality(N) /\ t = Taken(w, waits, e)
  BY <1>17, <1>18, FS_CardinalityType, TakenNat
<1>20. IsFiniteSet(B) /\ Cardinality(B) = a + n
  <2> HIDE DEF A, B, N
  <2>1. /\ IsFiniteSet(A \cup N)
        /\ Cardinality(A \cup N) = Cardinality(A) + Cardinality(N) - Cardinality(A \cap N)
    BY <1>17, <1>18, FS_Union
  <2>2. Cardinality(A \cap N) = 0
    BY <1>15, FS_EmptySet
  <2> QED BY <1>16, <1>19, <2>1, <2>2
<1>21. CASE e # c
  <2>1. refs[e] \in Int /\ refs'[e] = refs[e] + t /\ n = t
    BY <1>2, <1>18, <1>19, <1>21, EventNumbers DEF QueueInv
  <2>2. refs'[e] - (a + n) = refs[e] - a
    BY <1>19, <2>1
  <2>3. e > created + 1 => refs'[e] = 0
    <3> SUFFICES ASSUME e > c PROVE refs'[e] = 0
      BY <1>0
    <3>1. e > created
      BY <1>0, CreatedEvents DEF QueueInv, Events
    <3>2. refs[e] = 0 /\ Taken(w, waits, e) = 0
      BY <1>2, <3>1, FreshEvent, TakenOfCreated
    <3> QED BY <1>19, <2>1, <3>2
  <2> QED BY <1>0, <1>19, <1>20, <1>21, <2>2, <2>3
<1>22. CASE e = c
  <2>1. A = {} /\ Taken(w, waits, e) = 0
    BY <1>0, <1>2, <1>22, FreshEvent, TakenOfCreated
  <2>2. a = 0 /\ n = 1
    BY <1>18, <1>19, <1>22, <2>1, FS_EmptySet
  <2>3. refs'[e] = 1 + kept
    BY <1>2, <1>22
  <2>4. ~(e > created + 1)
    BY <1>0, <1>22
  <2> QED BY <1>0, <1>20, <1>22, <2>2, <2>3, <2>4
<1> QED BY <1>21, <1>22
\* A step that leaves events, completions and workers alone ends no reference.
LEMMA AliveStays ==
  ASSUME UNCHANGED <<created, origin, done, pc, dep>>
  PROVE  \A g, i : Alive(g, i)' <=> Alive(g, i)
<1>1. \A q : (Busy(q)' <=> Busy(q)) /\ InHand(q)' = InHand(q)
  BY DEF Busy, InHand
<1>2. \A q, i : StillHas(q, i)' <=> StillHas(q, i)
  BY DEF StillHas
<1>3. ASSUME NEW g, NEW i PROVE Alive(g, i)' <=> Alive(g, i)
  <2>1. PICK q, n, l : q = origin[g].queue /\ n = origin[g].cmd.n /\ l = Len(origin[g].cmd.waits)
    OBVIOUS
  <2>2. Alive(g, i) <=>
          /\ g \in 1 .. created /\ q \in Queues /\ i \in -1 .. l
          /\ n > done[q] + InHand(q) \/ (Busy(q) /\ n = done[q] + 1 /\ StillHas(q, i))
    BY <2>1 DEF Alive
  <2>3. Alive(g, i)' <=>
          /\ g \in 1 .. created /\ q \in Queues /\ i \in -1 .. l
          /\ n > done[q] + InHand(q)' \/ (Busy(q)' /\ n = done[q] + 1 /\ StillHas(q, i)')
    BY <2>1 DEF Alive
  <2> QED BY <1>1, <1>2, <2>2, <2>3
<1> QED BY <1>3

LEMMA AppEventBalance ==
  ASSUME QueueInv, QueueInv', BalanceInv, AppEvent
  PROVE  BalanceInv'
<1>0. /\ created \in Nat /\ TInv
      /\ \A e \in Events : refs[e] \in Int /\ held[e] \in Nat /\ leaked[e] \in Nat
      /\ refs \in [Events -> Int] /\ held \in [Events -> Nat]
  BY CreatedEvents, EventNumbers DEF QueueInv, TInv, EventType, NumberType
<1>1. CASE CreateEvent
  <2>1. PICK c \in Events : c = created + 1 /\ c > created
    BY <1>0, <1>1, QueueAssumption DEF CreateEvent, Events, TInv, EventType, NumberType
  <2>2. /\ created' = c /\ refs' = [refs EXCEPT ![c] = 1] /\ held' = [held EXCEPT ![c] = 1]
        /\ UNCHANGED <<origin, finish, leaked, done, pc, dep>>
    BY <1>1, <2>1 DEF CreateEvent, workVars
  <2>3. refs[c] = 0 /\ held[c] = 0 /\ origin[c].queue \notin Queues
    BY <2>1, FreshEvent, QueueAssumption DEF QueueInv, OriginInv
  <2>4. \A e \in Events : refs'[e] - held'[e] - leaked'[e] = refs[e] - held[e] - leaked[e]
    <3> SUFFICES ASSUME NEW e \in Events
                 PROVE  refs'[e] - held'[e] - leaked'[e] = refs[e] - held[e] - leaked[e]
      OBVIOUS
    <3>1. CASE e = c
      <4>1. refs'[e] = 1 /\ held'[e] = 1 /\ refs[e] = 0 /\ held[e] = 0 /\ leaked'[e] = leaked[e] /\ leaked[e] \in Nat
        BY <1>0, <2>2, <2>3, <3>1
      <4> QED BY <4>1
    <3>2. CASE e # c
      BY <1>0, <2>2, <3>2
    <3> QED BY <3>1, <3>2
  <2>5. \A e \in Events : e > created' => refs'[e] = refs[e]
    BY <1>0, <2>1, <2>2 DEF Events
  <2>6. \A q : (Busy(q)' <=> Busy(q)) /\ InHand(q)' = InHand(q)
    BY <2>2 DEF Busy, InHand
  <2>7. \A q, i : StillHas(q, i)' <=> StillHas(q, i)
    BY <2>2 DEF StillHas
  <2>8. ASSUME NEW g, NEW i PROVE Alive(g, i)' <=> Alive(g, i)
    <3>1. PICK q, n, l : q = origin[g].queue /\ n = origin[g].cmd.n /\ l = Len(origin[g].cmd.waits)
      OBVIOUS
    <3>2. Alive(g, i) <=>
            /\ g \in 1 .. created /\ q \in Queues /\ i \in -1 .. l
            /\ n > done[q] + InHand(q) \/ (Busy(q) /\ n = done[q] + 1 /\ StillHas(q, i))
      BY <3>1 DEF Alive
    <3>3. Alive(g, i)' <=>
            /\ g \in 1 .. c /\ q \in Queues /\ i \in -1 .. l
            /\ n > done[q] + InHand(q)' \/ (Busy(q)' /\ n = done[q] + 1 /\ StillHas(q, i)')
      BY <2>2, <3>1 DEF Alive
    <3>4. g \in 1 .. c <=> g \in 1 .. created \/ g = c
      BY <1>0, <2>1 DEF Events
    <3>5. q \in Queues => g # c
      BY <2>3, <3>1
    <3> QED BY <2>6, <2>7, <3>2, <3>3, <3>4, <3>5
  <2>9. created <= created'
    BY <1>0, <2>1, <2>2
  <2> QED BY <2>2, <2>4, <2>5, <2>8, <2>9, QuietBalance
<1>2. ASSUME NEW e \in Events, NEW v, SignalEvent(e, v) PROVE BalanceInv'
  <2>1. UNCHANGED <<created, origin, finish, refs, held, leaked, done, pc, dep>>
    BY <1>2 DEF SignalEvent, workVars
  <2> QED BY <1>0, <2>1, AliveStays, QuietBalance
<1>3. ASSUME NEW e \in Events, RetainEvent(e) \/ ReleaseEvent(e) PROVE BalanceInv'
  <2>1. /\ UNCHANGED <<created, origin, finish, leaked, done, pc, dep>> /\ held[e] > 0
        /\ \/ refs' = [refs EXCEPT ![e] = @ + 1] /\ held' = [held EXCEPT ![e] = @ + 1]
           \/ refs' = [refs EXCEPT ![e] = @ - 1] /\ held' = [held EXCEPT ![e] = @ - 1]
    BY <1>3 DEF RetainEvent, ReleaseEvent, workVars, Valid
  <2>2. ~(e > created)
    BY <1>0, <2>1 DEF QueueInv, OriginInv
  <2>3. ASSUME NEW f \in Events
        PROVE  /\ refs'[f] - held'[f] - leaked'[f] = refs[f] - held[f] - leaked[f]
               /\ f > created' => refs'[f] = refs[f]
    <3>1. CASE f # e
      BY <1>0, <2>1, <3>1
    <3>2. CASE f = e
      <4>1. PICK r \in Int, h \in Nat, l \in Nat : r = refs[e] /\ h = held[e] /\ l = leaked[e]
        BY <1>0
      <4>2. \/ refs'[e] = r + 1 /\ held'[e] = h + 1
            \/ refs'[e] = r - 1 /\ held'[e] = h - 1
        BY <1>0, <2>1, <4>1
      <4>3. r + 1 - (h + 1) - l = r - h - l /\ r - 1 - (h - 1) - l = r - h - l
        BY <4>1
      <4> QED BY <2>1, <2>2, <3>2, <4>1, <4>2, <4>3
    <3> QED BY <3>1, <3>2
  <2>4. created <= created'
    BY <1>0, <2>1
  <2> QED BY <2>1, <2>3, <2>4, AliveStays, QuietBalance
<1> QED BY <1>1, <1>2, <1>3 DEF AppEvent

\* The references of commands and the count change by the same number.
LEMMA BalanceSum ==
  ASSUME NEW a \in Int, NEW aa \in Int, NEW b \in Int, NEW h \in Int, NEW l \in Int,
         NEW r \in Int, NEW rr \in Int, r = h + b + a + l, rr - aa = r - a
  PROVE  rr = h + b + aa + l
<1>1. rr = r - a + aa
  OBVIOUS
<1>2. r - a = h + b + l
  OBVIOUS
<1>3. rr = h + b + l + aa
  BY <1>1, <1>2
<1> QED BY <1>3

\* enqueue(), with or without the caller's reference to the completion, in the
\* application's hand (Enqueue) or in finish()'s (FinishStart).
LEMMA EnqueueBalance ==
  ASSUME QueueInv, QueueInv', BalanceInv, NEW q \in Queues, NEW w \in Work, NEW waits \in Seq(Events),
         NEW kept \in {0, 1}, Push(q, w, waits, kept),
         \/ held' = [held EXCEPT ![created + 1] = kept] /\ finish' = finish
         \/ /\ held' = held /\ kept = 1 /\ finish[q] = NoEvent
            /\ finish' = [finish EXCEPT ![q] = created + 1]
  PROVE  BalanceInv'
<1> SUFFICES ASSUME NEW e \in Events PROVE Balanced(e)'
  BY DEF BalanceInv, Events
<1>0. PICK c \in Events : c = created + 1 /\ c > created
  BY PushedCommand, CreatedEvents DEF Push, QueueInv
<1>1. /\ IsFiniteSet(CommandRefs(e)')
      /\ e # c => refs'[e] - Cardinality(CommandRefs(e)') = refs[e] - Cardinality(CommandRefs(e))
      /\ e = c => refs'[e] = 1 + kept /\ Cardinality(CommandRefs(e)') = 1
      /\ e > c => refs'[e] = 0
  BY <1>0, PushBalance
<1>2. created' = c /\ leaked' = leaked
  BY <1>0 DEF Push
<1>3. Balanced(e)
  BY DEF BalanceInv
<1>4. /\ held \in [Events -> Nat] /\ finish \in [Queues -> Events \cup {NoEvent}]
      /\ held[e] \in Nat /\ leaked[e] \in Nat /\ refs[e] \in Int /\ refs'[e] \in Int
  BY DEF QueueInv, TInv, EventType, NumberType, QueueType
<1>5. /\ e = c => held[e] = 0 /\ leaked[e] = 0 /\ FinishRefs(e) = {}
      /\ e # NoEvent
  BY <1>0, FreshEvent DEF Events, NoEvent
<1>6. CASE e # c
  <2>1. held'[e] = held[e]
    BY <1>0, <1>4, <1>6
  <2>2. FinishRefs(e)' = FinishRefs(e)
    <3>1. \A p \in Queues : finish'[p] = e <=> finish[p] = e
      BY <1>0, <1>4, <1>5, <1>6
    <3> QED BY <3>1 DEF FinishRefs
  <2>3. PICK a \in Nat, aa \in Nat, b \in Nat :
          /\ a = Cardinality(CommandRefs(e)) /\ aa = Cardinality(CommandRefs(e)')
          /\ b = Cardinality(FinishRefs(e))
    BY <1>1, <1>3, FS_CardinalityType DEF Balanced
  <2>4. refs[e] = held[e] + b + a + leaked[e]
    BY <1>3, <2>3 DEF Balanced, Owed
  <2>5. refs'[e] - aa = refs[e] - a
    BY <1>1, <1>6, <2>3
  <2>6. refs'[e] = held[e] + b + aa + leaked[e]
    <3>1. PICK r \in Int, rr \in Int, h \in Int, l \in Int :
            r = refs[e] /\ rr = refs'[e] /\ h = held[e] /\ l = leaked[e]
      BY <1>4
    <3>2. r = h + b + a + l /\ rr - aa = r - a
      BY <2>4, <2>5, <3>1
    <3>3. rr = h + b + aa + l
      <4>1. a \in Int /\ aa \in Int /\ b \in Int
        BY <2>3
      <4> HIDE <2>3
      <4> QED BY <3>2, <4>1, BalanceSum
    <3> QED BY <3>1, <3>3
  <2>7. (refs[e] = Owed(e) + leaked[e])'
    BY <1>2, <2>1, <2>2, <2>3, <2>6 DEF Owed
  <2> QED BY <1>1, <1>2, <1>3, <2>2, <2>7 DEF Balanced
<1>7. CASE e = c
  <2>1. refs'[e] = 1 + kept /\ Cardinality(CommandRefs(e)') = 1 /\ leaked'[e] = 0
    BY <1>1, <1>2, <1>5, <1>7
  <2>2. /\ IsFiniteSet(FinishRefs(e)')
        /\ held'[e] + Cardinality(FinishRefs(e)') = kept
    <3>1. CASE held' = [held EXCEPT ![created + 1] = kept] /\ finish' = finish
      <4>1. FinishRefs(e)' = {}
        BY <1>5, <1>7, <3>1 DEF FinishRefs
      <4>2. held'[e] = kept
        BY <1>0, <1>4, <1>7, <3>1
      <4> QED BY <4>1, <4>2, FS_EmptySet
    <3>2. CASE held' = held /\ kept = 1 /\ finish' = [finish EXCEPT ![q] = created + 1]
      <4>1. \A p \in Queues : finish'[p] = e <=> p = q
        BY <1>0, <1>4, <1>5, <1>7, <3>2 DEF FinishRefs
      <4>2. FinishRefs(e)' = {q}
        BY <4>1 DEF FinishRefs
      <4>3. held'[e] = 0 /\ kept = 1
        BY <1>5, <1>7, <3>2
      <4>4. IsFiniteSet({q}) /\ Cardinality({q}) = 1
        BY FS_Singleton
      <4> QED BY <4>2, <4>3, <4>4
    <3> QED BY <3>1, <3>2
  <2>3. PICK h \in Nat, b \in Nat : h = held'[e] /\ b = Cardinality(FinishRefs(e)')
    <3>1. held'[e] \in Nat
      BY DEF QueueInv, TInv, EventType, NumberType
    <3> QED BY <2>2, <3>1, FS_CardinalityType
  <2>4. refs'[e] = h + b + 1 + 0
    BY <2>1, <2>2, <2>3
  <2>5. (refs[e] = Owed(e) + leaked[e])'
    BY <2>1, <2>3, <2>4 DEF Owed
  <2>6. ~(e > created')
    BY <1>2, <1>7 DEF Events
  <2> QED BY <1>1, <2>2, <2>5, <2>6 DEF Balanced
<1> QED BY <1>6, <1>7
\* A refused enqueue leaks what it has taken.
LEMMA EnqueueNullBalance ==
  ASSUME QueueInv, QueueInv', BalanceInv, NEW q \in Queues, NEW w \in Work, NEW waits \in Seq(Events),
         EnqueueNull(q, w, waits)
  PROVE  BalanceInv'
<1>1. /\ UNCHANGED <<created, origin, finish, held, done, pc, dep>> /\ Legal(w, waits)
      /\ refs' = [e \in Events |-> refs[e] + Taken(w, waits, e)]
      /\ leaked' = [e \in Events |-> leaked[e] + Taken(w, waits, e)]
  BY DEF EnqueueNull, workVars
<1>2. ASSUME NEW e \in Events
      PROVE  /\ refs'[e] - held'[e] - leaked'[e] = refs[e] - held[e] - leaked[e]
             /\ e > created' => refs'[e] = refs[e]
  <2>1. PICK r \in Int, h \in Nat, l \in Nat, t \in Nat :
          r = refs[e] /\ h = held[e] /\ l = leaked[e] /\ t = Taken(w, waits, e)
    BY EventNumbers, TakenNat DEF QueueInv
  <2>2. refs'[e] = r + t /\ held'[e] = h /\ leaked'[e] = l + t
    BY <1>1, <2>1
  <2>3. (r + t) - h - (l + t) = r - h - l
    BY <2>1
  <2>4. e > created => t = 0
    BY <1>1, <2>1, TakenOfCreated
  <2>5. t = 0 => r + t = r
    BY <2>1
  <2> QED BY <1>1, <2>1, <2>2, <2>3, <2>4, <2>5
<1>3. created <= created'
  BY <1>1, CreatedEvents DEF QueueInv
<1> QED BY <1>1, <1>2, <1>3, AliveStays, QuietBalance

\* finish() gives its reference back.
LEMMA FinishEndBalance ==
  ASSUME QueueInv, QueueInv', BalanceInv, NEW q \in Queues, FinishEnd(q)
  PROVE  BalanceInv'
<1>0. PICK t \in Events : t = finish[q] /\ t # NoEvent
  BY DEF FinishEnd, QueueInv, TInv, QueueType
<1>1. /\ UNCHANGED <<created, origin, held, leaked, done, pc, dep>>
      /\ refs' = [refs EXCEPT ![t] = @ - 1] /\ finish' = [finish EXCEPT ![q] = NoEvent]
  BY <1>0 DEF FinishEnd, workVars
<1> SUFFICES ASSUME NEW e \in Events PROVE Balanced(e)'
  BY DEF BalanceInv, Events
<1>2. CommandRefs(e)' = CommandRefs(e)
  BY <1>1, AliveStays, SameRefs
<1>3. Balanced(e) /\ IsFiniteSet(FinishRefs(e))
  BY DEF BalanceInv, Balanced
<1>4. FinishRefs(e)' = FinishRefs(e) \ {q} /\ (q \in FinishRefs(e) <=> e = t)
  <2>1. e # NoEvent
    BY DEF Events, NoEvent
  <2>2. \A p \in Queues : finish'[p] = e <=> finish[p] = e /\ p # q
    BY <1>0, <1>1, <2>1 DEF QueueInv, TInv, QueueType
  <2> QED BY <1>0, <2>2 DEF FinishRefs
<1>5. /\ IsFiniteSet(FinishRefs(e)')
      /\ Cardinality(FinishRefs(e)') =
           IF e = t THEN Cardinality(FinishRefs(e)) - 1 ELSE Cardinality(FinishRefs(e))
  BY <1>3, <1>4, FS_RemoveElement
<1>6. PICK a \in Int, b \in Int, bb \in Int :
        /\ a = Cardinality(CommandRefs(e)) /\ b = Cardinality(FinishRefs(e))
        /\ bb = Cardinality(FinishRefs(e)')
  BY <1>3, <1>5, FS_CardinalityType DEF Balanced
<1>7. PICK r \in Int, rr \in Int, h \in Int, l \in Int :
        r = refs[e] /\ rr = refs'[e] /\ h = held[e] /\ l = leaked[e]
  BY DEF QueueInv, TInv, EventType, NumberType
<1>8. r = h + a + b + l
  <2>1. r = h + b + a + l
    BY <1>3, <1>6, <1>7 DEF Balanced, Owed
  <2> QED BY <2>1
<1>9. rr - bb = r - b
  <2>1. e = t => rr = r - 1 /\ bb = b - 1
    BY <1>1, <1>5, <1>6, <1>7 DEF QueueInv, TInv, EventType, NumberType
  <2>2. e # t => rr = r /\ bb = b
    BY <1>1, <1>5, <1>6, <1>7 DEF QueueInv, TInv, EventType, NumberType
  <2> QED BY <2>1, <2>2
<1>10. rr = h + a + bb + l
  BY <1>8, <1>9, BalanceSum
<1>11. rr = h + bb + a + l
  BY <1>10
<1>12. (refs[e] = Owed(e) + leaked[e])'
  BY <1>1, <1>2, <1>6, <1>7, <1>11 DEF Owed
<1>13. e > created' => refs'[e] = 0
  <2> SUFFICES ASSUME e > created PROVE refs'[e] = 0
    BY <1>1
  <2>1. refs[e] = 0 /\ FinishRefs(e) = {}
    BY FreshEvent
  <2>2. e # t
    BY <1>4, <2>1
  <2> QED BY <1>1, <2>1, <2>2 DEF QueueInv, TInv, EventType, NumberType
<1> QED BY <1>2, <1>3, <1>5, <1>12, <1>13 DEF Balanced

\* A step that touches no reference and moves no command.
LEMMA IdleBalance ==
  ASSUME QueueInv, QueueInv', BalanceInv, \A g, i : Alive(g, i)' <=> Alive(g, i),
         UNCHANGED <<created, origin, finish, refs, held, leaked>>
  PROVE  BalanceInv'
<1>1. created <= created'
  BY CreatedEvents DEF QueueInv
<1> QED BY <1>1, QuietBalance

LEMMA AppQueueBalance ==
  ASSUME QueueInv, QueueInv', BalanceInv, NEW q \in Queues, AppQueue(q)
  PROVE  BalanceInv'
<1>1. ASSUME NEW o \in Orders, Enqueue(q, o.work, o.waits) PROVE BalanceInv'
  <2>1. PICK k \in {0, 1} :
          Push(q, o.work, o.waits, k) /\ held' = [held EXCEPT ![created + 1] = k]
    BY <1>1 DEF Enqueue
  <2>2. finish' = finish
    BY <1>1 DEF Enqueue
  <2> QED BY <2>1, <2>2, OrderParts, EnqueueBalance
<1>2. ASSUME NEW o \in Orders, EnqueueNull(q, o.work, o.waits) PROVE BalanceInv'
  BY <1>2, OrderParts, EnqueueNullBalance
<1>3. CASE FinishStart(q)
  <2>1. /\ Push(q, Barrier, << >>, 1) /\ held' = held /\ finish[q] = NoEvent
        /\ finish' = [finish EXCEPT ![q] = created + 1]
    BY <1>3 DEF FinishStart
  <2>2. << >> \in Seq(Events) /\ 1 \in {0, 1}
    OBVIOUS
  <2> QED BY <2>1, <2>2, BarrierWork, EnqueueBalance
<1>4. CASE FinishEnd(q)
  BY <1>4, FinishEndBalance
<1>5. CASE ReleaseQueue(q)
  <2>1. UNCHANGED <<created, origin, finish, refs, held, leaked, done, pc, dep>>
    BY <1>5 DEF ReleaseQueue, evVars, workVars
  <2> QED BY <2>1, AliveStays, IdleBalance
<1> QED BY <1>1, <1>2, <1>3, <1>4, <1>5 DEF AppQueue, FinishReturn, FinishTimeout

LEMMA StopBalance ==
  ASSUME QueueInv, QueueInv', BalanceInv, NEW q \in Queues, Stop(q)
  PROVE  BalanceInv'
<1>1. UNCHANGED <<created, origin, finish, refs, held, leaked, done, dep>>
  BY DEF Stop, evVars
<1>2. pc[q] = "idle" /\ pc'[q] = "stopped" /\ \A p \in Queues \ {q} : pc'[p] = pc[p]
  BY DEF Stop, QueueInv, TInv, WorkerType
<1>3. \A p \in Queues : (Busy(p)' <=> Busy(p)) /\ InHand(p)' = InHand(p)
  BY <1>2 DEF Busy, InHand
<1>4. \A p \in Queues : \A i : StillHas(p, i)' <=> StillHas(p, i)
  BY <1>1, <1>2 DEF StillHas
<1>5. ASSUME NEW g, NEW i PROVE Alive(g, i)' <=> Alive(g, i)
  <2>1. PICK p, n, l : p = origin[g].queue /\ n = origin[g].cmd.n /\ l = Len(origin[g].cmd.waits)
    OBVIOUS
  <2>2. Alive(g, i) <=>
          /\ g \in 1 .. created /\ p \in Queues /\ i \in -1 .. l
          /\ n > done[p] + InHand(p) \/ (Busy(p) /\ n = done[p] + 1 /\ StillHas(p, i))
    BY <2>1 DEF Alive
  <2>3. Alive(g, i)' <=>
          /\ g \in 1 .. created /\ p \in Queues /\ i \in -1 .. l
          /\ n > done[p] + InHand(p)' \/ (Busy(p)' /\ n = done[p] + 1 /\ StillHas(p, i)')
    BY <1>1, <2>1 DEF Alive
  <2> QED BY <1>3, <1>4, <2>2, <2>3
<1> QED BY <1>1, <1>5, IdleBalance

LEMMA InitBalance == Init => BalanceInv
<1> SUFFICES ASSUME Init, NEW e \in Events PROVE Balanced(e)
  BY DEF BalanceInv
<1>1. CommandRefs(e) = {}
  <2>1. QueuedRefs(e) = {}
    BY DEF Init, QueuedRefs
  <2>2. \A q \in Queues : \A k : ~StillHas(q, k)
    BY DEF Init, StillHas
  <2>3. TakenRefs(e) = {}
    BY <2>2 DEF TakenRefs
  <2> QED BY <2>1, <2>3 DEF CommandRefs
<1>2. FinishRefs(e) = {}
  BY DEF Init, FinishRefs, Events, NoEvent
<1>3. refs[e] = 0 /\ held[e] = 0 /\ leaked[e] = 0
  BY DEF Init
<1>4. IsFiniteSet({}) /\ Cardinality({}) = 0
  BY FS_EmptySet
<1> QED BY <1>1, <1>2, <1>3, <1>4 DEF Balanced, Owed

LEMMA NextBalance == QueueInv /\ QueueInv' /\ BalanceInv /\ [Next]_vars => BalanceInv'
<1> SUFFICES ASSUME QueueInv, QueueInv', BalanceInv, [Next]_vars PROVE BalanceInv'
  OBVIOUS
<1>1. CASE AppEvent
  BY <1>1, AppEventBalance
<1>2. ASSUME NEW q \in Queues, AppQueue(q) PROVE BalanceInv'
  BY <1>2, AppQueueBalance
<1>3. ASSUME NEW q \in Queues, Worker(q) PROVE BalanceInv'
  BY <1>3, PopBalance, StopBalance, WaitDepBalance, DepsDoneBalance, RunBalance, CompleteBalance
  DEF Worker
<1>4. CASE UNCHANGED vars
  <2>1. UNCHANGED <<created, origin, finish, refs, held, leaked, done, pc, dep>>
    BY <1>4 DEF vars, evVars, workVars
  <2> QED BY <2>1, AliveStays, IdleBalance
<1> QED BY <1>1, <1>2, <1>3, <1>4 DEF Next

(***************************************************************************)
(* Reference counts are exact: for any queues and enqueue calls, the count *)
(* of an event is the references of the application, of finish() calls and *)
(* of the commands in FIFOs and workers' hands, plus those a refused       *)
(* enqueue or a skipped work has leaked.  So no event is deleted while     *)
(* somebody uses it (RefCounted::release, enqueue, worker_loop, finish).   *)
(***************************************************************************)
THEOREM ReferencesExact == Spec => []ReferencesBalance
<1>1. QueueInv /\ BalanceInv => ReferencesBalance
  BY CreatedEvents DEF BalanceInv, Balanced, ReferencesBalance, QueueInv
<1>2. Spec => [][Next]_vars /\ Init
  BY PTL DEF Spec
<1>3. Spec => []BalanceInv
  BY <1>2, QueueInvariant, InitBalance, NextBalance, PTL
<1> QED BY <1>1, <1>3, QueueInvariant, PTL
=============================================================================

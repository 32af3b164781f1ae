----------------------------- MODULE EventQueue -----------------------------
(***************************************************************************)
(* The asynchronous layer of the runtime: Queue (queue.cpp) and Event      *)
(* (event.cpp).  The application's threads enqueue commands; one worker    *)
(* per queue takes them in FIFO order, waits for the events of their wait  *)
(* list, runs their work and completes their event.  An event is a counter *)
(* that only grows, plus the error of the work it stands for.              *)
(*                                                                         *)
(* Events are numbered in the order of their creation and never reused, so *)
(* that an event outlives its reference count in the model: refs[e] = 0    *)
(* means deleted.  `held` is what the application owes: the references it  *)
(* was given and has not released.  `origin` is history: the command of    *)
(* which queue an event is the completion of.                              *)
(*                                                                         *)
(* What a command does on the device is CpSubmit's; here its work succeeds *)
(* or fails.  The references to buffers and kernels that the work of a     *)
(* command releases are not modelled apart from the events'.               *)
(***************************************************************************)
EXTENDS Integers, Sequences, FiniteSets

CONSTANTS
  Queues,       \* the queues the application has created
  MaxEvents,    \* bound: events ever created
  MaxValue,     \* bound: values a timeline event is signalled to
  MaxRefs,      \* bound: references to an event when the application takes or leaks more
  Orders,       \* the enqueue calls it may make: a queue, a work and a wait list
  NullHandles,  \* may a wait list end in a null handle?
  WorkFails,    \* may the device refuse the work of a command?
  NoQueue       \* origin of an event the application created

ASSUME QueueAssumption ==
  /\ MaxEvents \in Nat /\ MaxValue \in Nat /\ MaxRefs \in Nat
  /\ NullHandles \in BOOLEAN /\ WorkFails \in BOOLEAN
  /\ NoQueue \notin Queues

Events == 1 .. MaxEvents
NoEvent == 0

\* What the work of a command is: run on the device, nothing (a barrier), or a
\* signal of, or a wait for, a value of a timeline event.
Work ==
  [kind : {"device", "barrier"}, ev : {NoEvent}, val : {0}]
    \cup [kind : {"signal", "wait"}, ev : Events, val : 1 .. MaxValue]

ASSUME OrdersAssumption ==
  \A o \in Orders : o.queue \in Queues /\ o.work \in Work /\ o.waits \in Seq(Events)

Barrier == [kind |-> "barrier", ev |-> NoEvent, val |-> 0]

Command == [waits : Seq(Events), completion : Events, work : Work, n : Nat]
NoCommand == [waits |-> << >>, completion |-> NoEvent, work |-> Barrier, n |-> 0]

Results == {"ok", "err"}

VARIABLES
  created,   \* events created so far
  counter,   \* counter_ of each event
  error,     \* error_ of each event
  refs,      \* refs_ of each event
  held,      \* of these, the references the application holds
  origin,    \* history: the queue and the command whose completion it is
  leaked,    \* history: references that nobody will give back
  fifo,      \* commands_ of each queue
  enq,       \* history: commands ever enqueued
  done,      \* history: commands completed
  shutdown,  \* shutdown_
  pc,        \* where each queue's worker is
  cmd,       \* the command it has taken
  dep,       \* waits of it already released
  res,       \* r
  finish     \* finish() in progress: the barrier's completion, or NoEvent

evVars   == <<created, counter, error, refs, held, origin, leaked>>
workVars == <<pc, cmd, dep, res>>
vars     == <<evVars, fifo, enq, done, shutdown, workVars, finish>>

PcStates == {"idle", "deps", "work", "complete", "stopped"}

----------------------------------------------------------------------------
(* Events.                                                                 *)

\* A handle the application may pass: it holds a reference.
Valid(e) == held[e] > 0

\* An event of vx_event_create: the application signals these and no others.
Timeline(e) == origin[e].queue = NoQueue

\* Event::signal: the counter never goes back.
Signalled(e, v) == IF v <= counter[e] THEN counter[e] ELSE v

\* Mutant: the counter must go beyond the value.
SatisfiedBeyond(e, v) == counter[e] > v \/ error[e] # "ok"

\* The predicate of Event::wait_value.
Satisfied(e, v) == counter[e] >= v \/ error[e] # "ok"

----------------------------------------------------------------------------
(* The application.                                                        *)

CreateEvent ==
  /\ created < MaxEvents
  /\ created' = created + 1
  /\ refs' = [refs EXCEPT ![created + 1] = 1]
  /\ held' = [held EXCEPT ![created + 1] = 1]
  /\ UNCHANGED <<counter, error, origin, leaked, fifo, enq, done, shutdown, workVars, finish>>

SignalEvent(e, v) ==
  /\ Valid(e) /\ Timeline(e)
  /\ counter' = [counter EXCEPT ![e] = Signalled(e, v)]
  /\ UNCHANGED <<created, error, refs, held, origin, leaked, fifo, enq, done, shutdown, workVars, finish>>

RetainEvent(e) ==
  /\ Valid(e) /\ refs[e] < MaxRefs
  /\ refs' = [refs EXCEPT ![e] = @ + 1]
  /\ held' = [held EXCEPT ![e] = @ + 1]
  /\ UNCHANGED <<created, counter, error, origin, leaked, fifo, enq, done, shutdown, workVars, finish>>

ReleaseEvent(e) ==
  /\ Valid(e)
  /\ refs' = [refs EXCEPT ![e] = @ - 1]
  /\ held' = [held EXCEPT ![e] = @ - 1]
  /\ UNCHANGED <<created, counter, error, origin, leaked, fifo, enq, done, shutdown, workVars, finish>>

\* The references a command to be enqueued takes to e: its waits, and the target
\* of a signal or wait.
Taken(w, waits, e) ==
  Cardinality({i \in DOMAIN waits : waits[i] = e}) + (IF w.ev = e THEN 1 ELSE 0)

Legal(w, waits) ==
  /\ \A i \in DOMAIN waits : waits[i] \in 1 .. created /\ Valid(waits[i])
  /\ w.ev # NoEvent => w.ev <= created /\ Valid(w.ev)
  /\ w.kind = "signal" => Timeline(w.ev)

\* enqueue(): retain the wait list, create the completion event with a reference
\* for the worker and `kept` (0 or 1) for the caller; push.
Push(q, w, waits, kept) ==
  LET c == created + 1
      command == [waits |-> waits, completion |-> c, work |-> w, n |-> enq[q] + 1]
  IN
  /\ created < MaxEvents /\ ~shutdown[q]
  /\ Legal(w, waits)
  /\ created' = c
  /\ refs' = [e \in Events |-> IF e = c THEN 1 + kept ELSE refs[e] + Taken(w, waits, e)]
  /\ origin' = [origin EXCEPT ![c] = [queue |-> q, cmd |-> command]]
  /\ fifo' = [fifo EXCEPT ![q] = Append(@, command)]
  /\ enq' = [enq EXCEPT ![q] = @ + 1]
  /\ UNCHANGED <<counter, error, leaked, done, shutdown, workVars>>

Enqueue(q, w, waits) ==
  /\ \E wanted \in {0, 1} :
       Push(q, w, waits, wanted) /\ held' = [held EXCEPT ![created + 1] = wanted]
  /\ UNCHANGED finish

\* A null handle after `waits`, or a null list: enqueue() returns at once, and the
\* references already taken are not returned.
EnqueueNull(q, w, waits) ==
  /\ NullHandles /\ ~shutdown[q]
  /\ Legal(w, waits)
  /\ refs' = [e \in Events |-> refs[e] + Taken(w, waits, e)]
  /\ leaked' = [e \in Events |-> leaked[e] + Taken(w, waits, e)]
  /\ \A e \in Events : refs'[e] # refs[e] => refs'[e] <= MaxRefs
  /\ UNCHANGED <<created, counter, error, held, origin, fifo, enq, done, shutdown, workVars, finish>>

\* finish(): enqueue a barrier and wait for it, for ever or up to a timeout; the
\* reference to its completion is released on the way out.
FinishStart(q) ==
  /\ finish[q] = NoEvent
  /\ Push(q, Barrier, << >>, 1)
  /\ finish' = [finish EXCEPT ![q] = created + 1]
  /\ UNCHANGED held

FinishEnd(q) ==
  /\ finish[q] # NoEvent
  /\ refs' = [refs EXCEPT ![finish[q]] = @ - 1]
  /\ finish' = [finish EXCEPT ![q] = NoEvent]
  /\ UNCHANGED <<created, counter, error, held, origin, leaked, fifo, enq, done, shutdown, workVars>>

FinishReturn(q) == finish[q] # NoEvent /\ Satisfied(finish[q], 1) /\ FinishEnd(q)

FinishTimeout(q) == finish[q] # NoEvent /\ ~Satisfied(finish[q], 1) /\ FinishEnd(q)

\* ~Queue, when the application drops the queue: stop the worker and join it.
ReleaseQueue(q) ==
  /\ ~shutdown[q] /\ finish[q] = NoEvent
  /\ shutdown' = [shutdown EXCEPT ![q] = TRUE]
  /\ UNCHANGED <<evVars, fifo, enq, done, workVars, finish>>

----------------------------------------------------------------------------
(* worker_loop.                                                            *)

\* Mutant: the worker takes the newest command.
PopBack(q) ==
  /\ pc[q] = "idle" /\ fifo[q] # << >>
  /\ cmd' = [cmd EXCEPT ![q] = fifo[q][Len(fifo[q])]]
  /\ fifo' = [fifo EXCEPT ![q] = SubSeq(@, 1, Len(@) - 1)]
  /\ pc' = [pc EXCEPT ![q] = "deps"]
  /\ UNCHANGED <<evVars, enq, done, shutdown, dep, res, finish>>

Pop(q) ==
  /\ pc[q] = "idle" /\ fifo[q] # << >>
  /\ cmd' = [cmd EXCEPT ![q] = Head(fifo[q])]
  /\ fifo' = [fifo EXCEPT ![q] = Tail(@)]
  /\ pc' = [pc EXCEPT ![q] = "deps"]
  /\ UNCHANGED <<evVars, enq, done, shutdown, dep, res, finish>>

\* Mutant: a shutdown is obeyed before the FIFO is empty.
StopAtOnce(q) ==
  /\ pc[q] = "idle" /\ shutdown[q]
  /\ pc' = [pc EXCEPT ![q] = "stopped"]
  /\ UNCHANGED <<evVars, fifo, enq, done, shutdown, cmd, dep, res, finish>>

\* A shutdown is obeyed only with the FIFO empty.
Stop(q) ==
  /\ pc[q] = "idle" /\ shutdown[q] /\ fifo[q] = << >>
  /\ pc' = [pc EXCEPT ![q] = "stopped"]
  /\ UNCHANGED <<evVars, fifo, enq, done, shutdown, cmd, dep, res, finish>>

NextDep(q) == cmd[q].waits[dep[q] + 1]

\* Mutant: the failure of a dependency is not looked at.
WaitDepBlind(q) ==
  /\ pc[q] = "deps" /\ dep[q] < Len(cmd[q].waits)
  /\ res[q] = "ok" => Satisfied(NextDep(q), 1)
  /\ UNCHANGED res
  /\ refs' = [refs EXCEPT ![NextDep(q)] = @ - 1]
  /\ dep' = [dep EXCEPT ![q] = @ + 1]
  /\ UNCHANGED <<created, counter, error, held, origin, leaked, fifo, enq, done, shutdown, pc, cmd, finish>>

\* Wait for the next dependency, unless one has failed already, and release it.
WaitDep(q) ==
  /\ pc[q] = "deps" /\ dep[q] < Len(cmd[q].waits)
  /\ res[q] = "ok" => Satisfied(NextDep(q), 1)
  /\ res' = IF res[q] = "ok" THEN [res EXCEPT ![q] = error[NextDep(q)]] ELSE res
  /\ refs' = [refs EXCEPT ![NextDep(q)] = @ - 1]
  /\ dep' = [dep EXCEPT ![q] = @ + 1]
  /\ UNCHANGED <<created, counter, error, held, origin, leaked, fifo, enq, done, shutdown, pc, cmd, finish>>

\* All dependencies seen: run the work, or, when one has failed, skip it together
\* with the release of the event it was to signal or wait for.
DepsDone(q) ==
  LET ok == res[q] = "ok"
      target == cmd[q].work.ev
  IN
  /\ pc[q] = "deps" /\ dep[q] = Len(cmd[q].waits)
  /\ pc' = [pc EXCEPT ![q] = IF ok THEN "work" ELSE "complete"]
  /\ leaked' = IF ok \/ target = NoEvent THEN leaked ELSE [leaked EXCEPT ![target] = @ + 1]
  /\ UNCHANGED <<created, counter, error, refs, held, origin, fifo, enq, done, shutdown, cmd, dep, res, finish>>

WorkDone(q, r) ==
  /\ res' = [res EXCEPT ![q] = r]
  /\ pc' = [pc EXCEPT ![q] = "complete"]
  /\ UNCHANGED <<created, error, held, origin, leaked, fifo, enq, done, shutdown, cmd, dep, finish>>

RunDevice(q) ==
  /\ pc[q] = "work" /\ cmd[q].work.kind = "device"
  /\ \E r \in IF WorkFails THEN Results ELSE {"ok"} : WorkDone(q, r)
  /\ UNCHANGED <<counter, refs>>

RunBarrier(q) ==
  /\ pc[q] = "work" /\ cmd[q].work.kind = "barrier"
  /\ WorkDone(q, "ok")
  /\ UNCHANGED <<counter, refs>>

RunSignal(q) ==
  LET w == cmd[q].work IN
  /\ pc[q] = "work" /\ w.kind = "signal"
  /\ counter' = [counter EXCEPT ![w.ev] = Signalled(w.ev, w.val)]
  /\ refs' = [refs EXCEPT ![w.ev] = @ - 1]
  /\ WorkDone(q, "ok")

RunWait(q) ==
  LET w == cmd[q].work IN
  /\ pc[q] = "work" /\ w.kind = "wait"
  /\ Satisfied(w.ev, w.val)
  /\ refs' = [refs EXCEPT ![w.ev] = @ - 1]
  /\ WorkDone(q, error[w.ev])
  /\ UNCHANGED counter

\* Back to the top of the loop: cmd and r are new in every iteration.
NextIteration(q) ==
  /\ pc' = [pc EXCEPT ![q] = "idle"] /\ cmd' = [cmd EXCEPT ![q] = NoCommand]
  /\ dep' = [dep EXCEPT ![q] = 0] /\ res' = [res EXCEPT ![q] = "ok"]

\* Event::complete: record the first error, advance the counter to 1.
EventComplete(e, r) ==
  /\ error' = [error EXCEPT ![e] = IF @ = "ok" THEN r ELSE @]
  /\ counter' = [counter EXCEPT ![e] = IF @ >= 1 THEN @ ELSE 1]

\* Mutant: the worker keeps its reference to the completion event.
CompleteKeepRef(q) ==
  /\ pc[q] = "complete"
  /\ EventComplete(cmd[q].completion, res[q])
  /\ done' = [done EXCEPT ![q] = @ + 1]
  /\ NextIteration(q)
  /\ UNCHANGED <<created, refs, held, origin, leaked, fifo, enq, shutdown, finish>>

\* The worker completes the command's event and drops its reference.
Complete(q) ==
  /\ pc[q] = "complete"
  /\ EventComplete(cmd[q].completion, res[q])
  /\ refs' = [refs EXCEPT ![cmd[q].completion] = @ - 1]
  /\ done' = [done EXCEPT ![q] = @ + 1]
  /\ NextIteration(q)
  /\ UNCHANGED <<created, held, origin, leaked, fifo, enq, shutdown, finish>>

----------------------------------------------------------------------------
Init ==
  /\ created = 0
  /\ counter = [e \in Events |-> 0] /\ error = [e \in Events |-> "ok"]
  /\ refs = [e \in Events |-> 0] /\ held = [e \in Events |-> 0]
  /\ leaked = [e \in Events |-> 0]
  /\ origin = [e \in Events |-> [queue |-> NoQueue, cmd |-> NoCommand]]
  /\ fifo = [q \in Queues |-> << >>]
  /\ enq = [q \in Queues |-> 0] /\ done = [q \in Queues |-> 0]
  /\ shutdown = [q \in Queues |-> FALSE]
  /\ pc = [q \in Queues |-> "idle"] /\ cmd = [q \in Queues |-> NoCommand]
  /\ dep = [q \in Queues |-> 0] /\ res = [q \in Queues |-> "ok"]
  /\ finish = [q \in Queues |-> NoEvent]

AppEvent ==
  \/ CreateEvent
  \/ \E e \in Events, v \in 1 .. MaxValue : SignalEvent(e, v)
  \/ \E e \in Events : RetainEvent(e) \/ ReleaseEvent(e)

AppQueue(q) ==
  \/ \E o \in Orders :
       o.queue = q /\ (Enqueue(q, o.work, o.waits) \/ EnqueueNull(q, o.work, o.waits))
  \/ FinishStart(q) \/ FinishReturn(q) \/ FinishTimeout(q)
  \/ ReleaseQueue(q)

Worker(q) ==
  \/ Pop(q) \/ Stop(q) \/ WaitDep(q) \/ DepsDone(q)
  \/ RunDevice(q) \/ RunBarrier(q) \/ RunSignal(q) \/ RunWait(q)
  \/ Complete(q)

Next == AppEvent \/ \E q \in Queues : AppQueue(q) \/ Worker(q)

Fairness == \A q \in Queues : WF_vars(Worker(q))

Spec == Init /\ [][Next]_vars /\ Fairness

----------------------------------------------------------------------------
(* Properties.                                                             *)

\* Every variable of the queues and events has its type.
TypeOK ==
  /\ created \in 0 .. MaxEvents
  /\ counter \in [Events -> Nat] /\ error \in [Events -> Results]
  /\ refs \in [Events -> Int] /\ held \in [Events -> Nat] /\ leaked \in [Events -> Nat]
  /\ origin \in [Events -> [queue : Queues \cup {NoQueue}, cmd : Command \cup {NoCommand}]]
  /\ fifo \in [Queues -> Seq(Command)]
  /\ enq \in [Queues -> Nat] /\ done \in [Queues -> Nat]
  /\ shutdown \in [Queues -> BOOLEAN]
  /\ pc \in [Queues -> PcStates] /\ cmd \in [Queues -> Command \cup {NoCommand}]
  /\ dep \in [Queues -> Nat] /\ \A q \in Queues : dep[q] <= Len(cmd[q].waits)
  /\ res \in [Queues -> Results]
  /\ finish \in [Queues -> Events \cup {NoEvent}]

\* Reference k of command c is to e: its waits are 1, 2, ..., the target of a signal
\* or wait is 0, its completion event -1.
RefersTo(c, k, e) ==
  \/ k = -1 /\ c.completion = e
  \/ k = 0 /\ c.work.ev = e
  \/ k \in DOMAIN c.waits /\ c.waits[k] = e

\* The references of a command to e, named by the command's own event.
RefsOf(c, e) == {<<c.completion, k>> : k \in {i \in -1 .. Len(c.waits) : RefersTo(c, i, e)}}

\* A worker lets go of the waits of its command one by one, then of the target of
\* the work, then of the completion.
StillHas(q, k) ==
  \/ pc[q] = "deps" /\ (k > dep[q] \/ k \in {-1, 0})
  \/ pc[q] = "work" /\ k \in {-1, 0}
  \/ pc[q] = "complete" /\ k = -1

\* The references to e that commands hold, in a FIFO or in a worker's hand.
QueuedRefs(e) == UNION {UNION {RefsOf(fifo[q][i], e) : i \in DOMAIN fifo[q]} : q \in Queues}
TakenRefs(e) == UNION {{r \in RefsOf(cmd[q], e) : StillHas(q, r[2])} : q \in Queues}
CommandRefs(e) == QueuedRefs(e) \cup TakenRefs(e)

\* The calls of finish() that hold one.
FinishRefs(e) == {q \in Queues : finish[q] = e}

\* All references to e somebody will still use and give back.
Owed(e) == held[e] + Cardinality(FinishRefs(e)) + Cardinality(CommandRefs(e))

\* Reference counts are exact: an event is never deleted while the application, a
\* queued command or a worker still uses it, also when commands fail, are refused
\* or time out, and it is kept for ever only where a wait list was refused half-way
\* or a failed dependency skipped a command's work (RefCounted::release deletes at
\* zero; "The worker releases them in turn", enqueue; worker_loop).
ReferencesBalance == \A e \in 1 .. created : refs[e] = Owed(e) + leaked[e]

Completed(e) == counter[e] >= 1

\* In-order queues: a command's event is complete exactly when as many commands
\* of its queue have completed as were enqueued up to it, so that finish(), which
\* waits for the last, has waited for all ("In-queue ordering is preserved (FIFO,
\* single worker)", Queue::Command; Queue::finish).
InOrderCompletion ==
  \A e \in 1 .. created : \A q \in Queues :
    origin[e].queue = q => (Completed(e) <=> done[q] >= origin[e].cmd.n)

\* A command reported successful ran after every event of its wait list completed
\* successfully, on whatever queue that was: failures reach every command that
\* depends on them (worker_loop's short circuit, Event::complete).
SuccessMeansDepsSucceeded ==
  \A e \in 1 .. created :
    ~Timeline(e) /\ Completed(e) /\ error[e] = "ok" =>
      \A i \in DOMAIN origin[e].cmd.waits :
        LET d == origin[e].cmd.waits[i] IN Completed(d) /\ error[d] = "ok"

\* A worker that has stopped has left no command behind (~Queue: "it will finish
\* any commands already in the FIFO and then return").
StoppedDrained ==
  \A q \in Queues : pc[q] = "stopped" => fifo[q] = << >> /\ done[q] = enq[q]

\* Some worker waits for a timeline event, or for a value that the completion of
\* a command never reaches.
AppMustSignal ==
  \E q \in Queues :
    \/ /\ pc[q] = "deps" /\ dep[q] < Len(cmd[q].waits)
       /\ Timeline(NextDep(q)) /\ counter[NextDep(q)] < 1
    \/ LET w == cmd[q].work IN
       /\ pc[q] = "work" /\ w.kind = "wait"
       /\ counter[w.ev] < w.val /\ (Timeline(w.ev) \/ w.val > 1)

\* Queues that wait for each other's commands never wait in a circle: every
\* command completes, failed or not (the application enqueues only so many), unless
\* a worker is left waiting for ever for an event only the application can signal.
CommandsComplete ==
  \/ <>[]AppMustSignal
  \/ []<>(\A e \in Events : e <= created /\ ~Timeline(e) => Completed(e))
=============================================================================

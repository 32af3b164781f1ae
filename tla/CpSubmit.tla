------------------------------ MODULE CpSubmit ------------------------------
(***************************************************************************)
(* The host side of the command ring: the Device of                        *)
(* sw/runtime/common/device.cpp, which the worker threads of all queues    *)
(* share, composed with the command processor that drains the ring.        *)
(*                                                                         *)
(* A worker executes operations.  An operation is the sequence of calls    *)
(* into Device that the work lambda of one enqueued command makes          *)
(* (queue.cpp): submit a command line, open or close a batch, drain the    *)
(* console after a launch, fetch a DCR response.  A submitted line holds   *)
(* one command.                                                            *)
(*                                                                         *)
(* cp_mu_ serialises ring writes; cp_in_batch_ is read without it.  A      *)
(* register access that ticks the CP (simx) or reaches a CP that runs on   *)
(* its own (RTL) is a step of CommandProcessor between two steps here.     *)
(***************************************************************************)
EXTENDS CommandProcessor

CONSTANTS
  Threads,      \* the workers of the queues
  OpsOf,        \* worker -> the operations its queue may be given
  MaxOps,       \* bound: operations per worker
  DrainCmds,    \* worker -> the commands drain_cout submits
  SeqMod,       \* 2^32: Q_SEQNUM is a 32-bit register
  RegFaults,    \* may a register access fail?
  NoThread      \* holder of a free mutex

Submit(c) == [call |-> "submit", cmd |-> c]
BatchBegin == [call |-> "begin", cmd |-> NoCmd]
BatchEnd   == [call |-> "end", cmd |-> NoCmd]
DrainCout  == [call |-> "drain", cmd |-> NoCmd]
ReadRsp    == [call |-> "rsp", cmd |-> NoCmd]

\* The runtime never submits a zero header, which would end the line.
Submittable == {c \in Cmd : c.op # "PAD"}

Call == [call : {"submit"}, cmd : Submittable] \cup {BatchBegin, BatchEnd, DrainCout, ReadRsp}

----------------------------------------------------------------------------
(* The operations of queue.cpp, as the calls their work makes, given the   *)
(* commands they submit.                                                   *)

Submits(cs) == [i \in 1 .. Len(cs) |-> Submit(cs[i])]

\* cp_submit_launch, cp_submit_launch_qmd: launch, flush, drain the console.
SubmitLaunch(launchCmd, flush) == << Submit(launchCmd), Submit(flush), DrainCout >>

\* cp_submit_draw: the flushes are steps of the draw itself.
SubmitDraw(draw) == << Submit(draw), DrainCout >>

\* cp_submit_dcr_read.
SubmitDcrRead(c) == << Submit(c), ReadRsp >>

\* enqueue_launch: stage the arguments, program the registers, launch.
EnqueueLaunch(stage, program, launchCmd, flush) ==
  Submits(stage) \o Submits(program) \o SubmitLaunch(launchCmd, flush)

\* enqueue_commands, and enqueue_draw on a CP that cannot decode OP_DRAW: stage
\* arguments and descriptors, then the body as one batch.
EnqueueCommands(stage, body) ==
  Submits(stage) \o << BatchBegin >> \o body \o << BatchEnd >>

\* enqueue_draw: stage arguments, descriptors and the draw bundle, then draw.
EnqueueDraw(stage, draw) == Submits(stage) \o SubmitDraw(draw)

----------------------------------------------------------------------------
ASSUME SubmitAssumption ==
  /\ NoThread \notin Threads
  /\ Threads \subseteq Owners
  /\ OpsOf \in [Threads -> SUBSET Seq(Call)]
  /\ MaxOps \in Nat
  /\ DrainCmds \in [Threads -> Seq(Submittable)]
  /\ SeqMod \in Nat \ {0}
  /\ RegFaults \in BOOLEAN

VARIABLES
  devTail,      \* cp_tail_, in CLs
  expected,     \* cp_expected_seqnum_
  cpMu,         \* holder of cp_mu_
  inBatch,      \* cp_in_batch_
  batchTarget,  \* cp_batch_target_
  pc,           \* where each worker is
  todo,         \* the calls its operation has still to make
  target,       \* the seqnum it polls for
  ops,          \* operations it has started
  own,          \* history: ring position of the last command it appended
  rsp           \* history: the command that latched the response its last DCR
                \* read returned, and the read's own

devVars == <<devTail, expected, cpMu, inBatch, batchTarget>>
thrVars == <<pc, todo, target, ops, own, rsp>>
vars    == <<cpVars, devVars, thrVars>>

cpOnly  == <<head, seqnum, engVars, launch, archVars, gpu, dirty>>

PcStates == {"idle", "call", "lock", "bell", "copy", "bump", "poll"}

----------------------------------------------------------------------------
(* The calls of an operation.                                              *)

Calling(t, call) == pc[t] = "call" /\ Head(todo[t]).call = call

\* The current call has returned VX_SUCCESS: make the next one, or finish.
Return(t) ==
  /\ todo' = [todo EXCEPT ![t] = Tail(@)]
  /\ pc' = [pc EXCEPT ![t] = IF Tail(todo[t]) = << >> THEN "idle" ELSE "call"]

\* The current call has failed: the operation reports the error and stops.
Fail(t) ==
  /\ todo' = [todo EXCEPT ![t] = << >>]
  /\ pc' = [pc EXCEPT ![t] = "idle"]
  /\ own' = [own EXCEPT ![t] = 0]

\* The worker takes the next command off its queue and runs its work.
StartOp(t) ==
  /\ pc[t] = "idle" /\ ops[t] < MaxOps
  /\ \E o \in OpsOf[t] :
       /\ o # << >>
       /\ todo' = [todo EXCEPT ![t] = o]
  /\ pc' = [pc EXCEPT ![t] = "call"]
  /\ ops' = [ops EXCEPT ![t] = @ + 1]
  /\ UNCHANGED <<cpVars, devVars, target, own, rsp>>

\* cp_submit_cl_ reads cp_in_batch_ with no lock held and takes one of its
\* two paths.
CheckBatch(t) ==
  /\ Calling(t, "submit")
  /\ pc' = [pc EXCEPT ![t] = IF inBatch THEN "copy" ELSE "lock"]
  /\ UNCHANGED <<cpVars, devVars, todo, target, ops, own, rsp>>

\* cp_ring_append_: copy the line to the slot of cp_tail_ ...
CopyCl(t) ==
  ring' = [ring EXCEPT ![devTail % RingSlots] = <<Head(todo[t]).cmd>>]

\* ... then advance cp_tail_ and reserve the seqnum.
BumpTail(t) ==
  /\ devTail' = devTail + 1
  /\ expected' = expected + 1
  /\ posted' = Append(posted, Head(todo[t]).cmd)

\* Mutant: the ring is written before cp_mu_ is taken.
LockAndCopyUnlocked(t) ==
  /\ pc[t] = "lock"
  /\ cpMu' = t
  /\ CopyCl(t)
  /\ pc' = [pc EXCEPT ![t] = "bell"]
  /\ UNCHANGED <<cpOnly, tail, posted, devTail, expected, inBatch, batchTarget,
                 todo, target, ops, own, rsp>>

\* The path outside a batch: append under cp_mu_, ...
LockAndCopy(t) ==
  /\ pc[t] = "lock" /\ cpMu = NoThread
  /\ cpMu' = t
  /\ CopyCl(t)
  /\ pc' = [pc EXCEPT ![t] = "bell"]
  /\ UNCHANGED <<cpOnly, tail, posted, devTail, expected, inBatch, batchTarget,
                 todo, target, ops, own, rsp>>

\* ... commit the tail (TAIL_LO stages it, TAIL_HI makes it visible), unlock,
\* and go polling for the reserved seqnum ...
Doorbell(t) ==
  /\ pc[t] = "bell"
  /\ BumpTail(t)
  /\ tail' = devTail'
  /\ cpMu' = NoThread
  /\ target' = [target EXCEPT ![t] = expected']
  /\ own' = [own EXCEPT ![t] = Len(posted')]
  /\ pc' = [pc EXCEPT ![t] = "poll"]
  /\ UNCHANGED <<cpOnly, ring, inBatch, batchTarget, todo, ops, rsp>>

\* Mutant: a failed register write rolls cp_tail_ back and keeps the seqnum.
DoorbellFaultRollback(t) ==
  /\ RegFaults /\ pc[t] = "bell"
  /\ expected' = expected + 1
  /\ posted' = Append(posted, Head(todo[t]).cmd)
  /\ cpMu' = NoThread
  /\ Fail(t)
  /\ UNCHANGED <<cpOnly, ring, tail, devTail, inBatch, batchTarget, target, ops, rsp>>

\* ... or fail on either register write, with the line already appended.
DoorbellFault(t) ==
  /\ RegFaults /\ pc[t] = "bell"
  /\ BumpTail(t)
  /\ cpMu' = NoThread
  /\ Fail(t)
  /\ UNCHANGED <<cpOnly, ring, tail, inBatch, batchTarget, target, ops, rsp>>

\* The path inside a batch, the worker's own or (unlocked) another's: append,
\* move the batch's target, and return without waiting.
CopyInBatch(t) ==
  /\ pc[t] = "copy"
  /\ CopyCl(t)
  /\ pc' = [pc EXCEPT ![t] = "bump"]
  /\ UNCHANGED <<cpOnly, tail, posted, devVars, todo, target, ops, own, rsp>>

\* Mutant: the batch's target is left at its baseline.
BumpInBatchNoTarget(t) ==
  /\ pc[t] = "bump"
  /\ BumpTail(t)
  /\ own' = [own EXCEPT ![t] = Len(posted')]
  /\ Return(t)
  /\ UNCHANGED <<cpOnly, ring, tail, cpMu, inBatch, batchTarget, target, ops, rsp>>

BumpInBatch(t) ==
  /\ pc[t] = "bump"
  /\ BumpTail(t)
  /\ batchTarget' = expected'
  /\ own' = [own EXCEPT ![t] = Len(posted')]
  /\ Return(t)
  /\ UNCHANGED <<cpOnly, ring, tail, cpMu, inBatch, target, ops, rsp>>

BeginBatch(t) ==
  /\ Calling(t, "begin") /\ cpMu = NoThread
  /\ cpMu' = t
  /\ inBatch' = TRUE
  /\ batchTarget' = expected
  /\ Return(t)
  /\ UNCHANGED <<cpVars, devTail, expected, target, ops, own, rsp>>

\* The commands drain_cout submits for t, as calls.
DrainCalls(t) == Submits(DrainCmds[t])

\* cp_batch_end commits the staged tail once and unlocks; it polls for the
\* batch's target and then drains the console.
EndBatch(t) ==
  /\ Calling(t, "end")
  /\ target' = [target EXCEPT ![t] = batchTarget]
  /\ inBatch' = FALSE
  /\ tail' = devTail
  /\ cpMu' = NoThread
  /\ todo' = [todo EXCEPT ![t] = <<Head(@)>> \o DrainCalls(t) \o Tail(@)]
  /\ pc' = [pc EXCEPT ![t] = "poll"]
  /\ UNCHANGED <<cpOnly, ring, posted, devTail, expected, batchTarget, ops, own, rsp>>

\* Mutant: a failed doorbell returns with cp_mu_ still held.
EndBatchFaultLocked(t) ==
  /\ RegFaults /\ Calling(t, "end")
  /\ inBatch' = FALSE
  /\ Fail(t)
  /\ UNCHANGED <<cpVars, devTail, expected, cpMu, batchTarget, target, ops, rsp>>

EndBatchFault(t) ==
  /\ RegFaults /\ Calling(t, "end")
  /\ inBatch' = FALSE
  /\ cpMu' = NoThread
  /\ Fail(t)
  /\ UNCHANGED <<cpVars, devTail, expected, batchTarget, target, ops, rsp>>

\* Mutant: the poll is satisfied one command early.
PollEarly(t) ==
  /\ pc[t] = "poll" /\ cpMu = NoThread
  /\ (seqnum % SeqMod) + 1 >= target[t]
  /\ Return(t)
  /\ UNCHANGED <<cpVars, devVars, target, ops, own, rsp>>

\* One iteration of the poll loop, under cp_mu_: done when the 32-bit register
\* has reached the 64-bit target.
Poll(t) ==
  /\ pc[t] = "poll" /\ cpMu = NoThread
  /\ seqnum % SeqMod >= target[t]
  /\ Return(t)
  /\ UNCHANGED <<cpVars, devVars, target, ops, own, rsp>>

PollFault(t) ==
  /\ RegFaults /\ pc[t] = "poll" /\ cpMu = NoThread
  /\ Fail(t)
  /\ UNCHANGED <<cpVars, devVars, target, ops, rsp>>

\* The end of cp_submit_launch*: cp_in_batch_ is read again without the lock;
\* outside a batch the console is drained.
Drain(t) ==
  /\ Calling(t, "drain")
  /\ LET rest == IF inBatch THEN Tail(todo[t]) ELSE DrainCalls(t) \o Tail(todo[t])
     IN  /\ todo' = [todo EXCEPT ![t] = rest]
         /\ pc' = [pc EXCEPT ![t] = IF rest = << >> THEN "idle" ELSE "call"]
  /\ UNCHANGED <<cpVars, devVars, target, ops, own, rsp>>

\* The end of cp_submit_dcr_read: Q_LAST_DCR_RSP is read without cp_mu_.
FetchRsp(t) ==
  /\ Calling(t, "rsp")
  /\ rsp' = [rsp EXCEPT ![t] = [no |-> lastRsp.no, mine |-> own[t]]]
  /\ Return(t)
  /\ UNCHANGED <<cpVars, devVars, target, ops, own>>

FetchRspFault(t) ==
  /\ RegFaults /\ Calling(t, "rsp")
  /\ Fail(t)
  /\ UNCHANGED <<cpVars, devVars, target, ops, rsp>>

----------------------------------------------------------------------------
Init ==
  /\ CpInit
  /\ devTail = 0 /\ expected = 0 /\ cpMu = NoThread
  /\ inBatch = FALSE /\ batchTarget = 0
  /\ pc = [t \in Threads |-> "idle"]
  /\ todo = [t \in Threads |-> << >>]
  /\ target = [t \in Threads |-> 0]
  /\ ops = [t \in Threads |-> 0]
  /\ own = [t \in Threads |-> 0]
  /\ rsp = [t \in Threads |-> [no |-> 0, mine |-> 0]]

Device == (Tick \/ VortexRise \/ VortexDone) /\ UNCHANGED <<devVars, thrVars>>

\* What the runtime does while the registers answer, and when an access fails.
WorkerStep(t) ==
  \/ StartOp(t) \/ CheckBatch(t)
  \/ LockAndCopy(t) \/ Doorbell(t)
  \/ CopyInBatch(t) \/ BumpInBatch(t)
  \/ BeginBatch(t) \/ EndBatch(t)
  \/ Poll(t) \/ Drain(t) \/ FetchRsp(t)

RegisterFault(t) == DoorbellFault(t) \/ EndBatchFault(t) \/ PollFault(t) \/ FetchRspFault(t)

Worker(t) == WorkerStep(t) \/ RegisterFault(t)

Next == Device \/ \E t \in Threads : Worker(t)

\* No operation may owe its end to a register that fails.
Fairness ==
  /\ WF_vars(Tick /\ UNCHANGED <<devVars, thrVars>>)
  /\ WF_vars((VortexRise \/ VortexDone) /\ UNCHANGED <<devVars, thrVars>>)
  /\ \A t \in Threads : WF_vars(WorkerStep(t))

Spec == Init /\ [][Next]_vars /\ Fairness

----------------------------------------------------------------------------
(* Properties.                                                             *)

\* Every variable of the Device and its workers has its type, and a worker that is
\* inside an operation has a call to make.
TypeOK ==
  /\ CpTypeOK
  /\ devTail \in Nat /\ expected \in Nat /\ batchTarget \in Nat
  /\ cpMu \in Threads \cup {NoThread} /\ inBatch \in BOOLEAN
  /\ pc \in [Threads -> PcStates]
  /\ todo \in [Threads -> Seq(Call)]
  /\ \A t \in Threads : pc[t] # "idle" => todo[t] # << >>
  /\ target \in [Threads -> Nat] /\ ops \in [Threads -> Nat] /\ own \in [Threads -> Nat]
  /\ rsp \in [Threads -> [no : Nat, mine : Nat]]

\* t is between two calls and has no batch of its own open.
Returned(t) == pc[t] \in {"idle", "call"} /\ cpMu # t

\* "Synchronous semantics" of every cp_submit_* (vortex2_internal.h): once the
\* call has returned to a worker, its command has retired.  Staging buffers and
\* argument slots are reused on the strength of it.
Synchronous == \A t \in Threads : Returned(t) => own[t] <= seqnum

\* The first line the CP has still to fetch from the ring.
FirstUnfetched == IF clLoaded THEN head + 1 ELSE head

\* No line is overwritten before the CP has fetched it, however many workers
\* submit: cp_ring_append_ itself never looks at head.
RingIntact ==
  \A i \in FirstUnfetched .. devTail - 1 :
    i < Len(posted) /\ ring[i % RingSlots] = <<posted[i + 1]>>

\* The CP executes the commands in the order in which they were appended: the
\* one in flight is the one whose seqnum is reserved next.
InOrder == eng # "Idle" => seqnum < Len(posted) /\ cur = posted[seqnum + 1]

\* The console drain is the last thing a launch, a batch or a draw submits.
HasDrained(t) ==
  LET d == DrainCmds[t] IN own[t] # 0 /\ d # << >> /\ posted[own[t]] = d[Len(d)]

\* When an operation that runs kernels has ended with its console drain, no cache
\* holds writes of a kernel of that worker: every launch is followed by a flush of
\* all cores before the operation returns, and one that failed half-way is made
\* good by the next (cp_submit_launch, cp_batch_end).
Coherent ==
  \A t \in Threads : pc[t] = "idle" /\ HasDrained(t) => \A d \in dirty : d[2] # t

\* The response that command no latched, for a read of t that is command mine: its
\* own, or that of a later read of another worker.
Fresh(t, no, mine) ==
  no >= mine /\ (no > mine => posted[no].own # t /\ posted[no].op = "DCR_READ")

\* A DCR read never returns a response older than its own command, such as the one
\* its worker or another fetched before; with several readers it may be that of a
\* later one, for Q_LAST_DCR_RSP is read without the lock (cp_submit_dcr_read).
RspIsFresh == \A t \in Threads : Fresh(t, rsp[t].no, rsp[t].mine)

\* Every operation a worker starts comes to an end.
OpsComplete == \A t \in Threads : (pc[t] # "idle") ~> (pc[t] = "idle")

----------------------------------------------------------------------------
(* The inductive invariant behind RingIntact, InOrder and Synchronous, for *)
(* workers that open no batch, on registers that do not fail.              *)

Unbatched == {c \in Call : c.call \notin {"begin", "end"}}

NoBatches == \A t \in Threads : OpsOf[t] \subseteq Seq(Unbatched)

\* A worker inside cp_submit_cl_ is submitting; todo holds its line.
CallInv ==
  \A t \in Threads :
    pc[t] \in {"lock", "bell", "copy", "bump"} => Head(todo[t]).call = "submit"

LockInv ==
  /\ inBatch = FALSE
  /\ \A t \in Threads : pc[t] \notin {"copy", "bump"}
  /\ \A t \in Threads : pc[t] = "bell" <=> cpMu = t
  /\ todo \in [Threads -> Seq(Unbatched)]

\* The three counters of the Device agree with each other and with the doorbell.
CountInv ==
  /\ posted \in Seq(Submittable)
  /\ devTail = Len(posted) /\ expected = devTail /\ tail = devTail

\* Where the CP is in the stream: seqnum lags head by nothing, or leads it by the
\* one command of the loaded line once that has retired.
LineInv ==
  /\ head <= tail
  /\ ~clLoaded => eng = "Idle" /\ seqnum = head
  /\ clLoaded => head < tail /\ cl = <<posted[head + 1]>> /\ slot \in {0, 1} /\ seqnum = head + slot
  /\ clLoaded /\ eng = "Idle" => slot = 1
  /\ eng # "Idle" => clLoaded /\ slot = 0 /\ cur = posted[head + 1]

\* Each command not yet retired has a worker waiting for just that one, which is
\* what bounds the ring: cp_ring_append_ has no check of its own.
WaiterInv ==
  \A i \in seqnum + 1 .. devTail : \E t \in Threads : pc[t] = "poll" /\ target[t] = i

OwnInv ==
  \A t \in Threads : IF pc[t] = "poll" THEN own[t] = target[t] ELSE own[t] <= seqnum

BellInv ==
  \A t \in Threads : pc[t] = "bell" => ring[devTail % RingSlots] = <<Head(todo[t]).cmd>>

\* Everything the proof of RingIntact, InOrder and Synchronous rests on: every
\* command on the ring and not yet retired belongs to one worker polling for it.
SubmitInv ==
  /\ CallInv /\ LockInv /\ CountInv /\ LineInv /\ WaiterInv /\ OwnInv /\ BellInv
  /\ RingIntact

----------------------------------------------------------------------------
(* The shape of the operations of queue.cpp, on which Coherent and         *)
(* RspIsFresh rest.                                                        *)

\* cp_submit_cache_flush: every core is swept.
FullFlush(c) == c.op = "CACHE_FLUSH" /\ \A k \in Cores : k < c.arg0

\* What enqueue_draw writes into a bundle: a flush after every launch, no reads.
WellDrawn(c) ==
  \A i \in DOMAIN DrawSteps(c) :
    /\ DrawSteps(c)[i].op # "DCR_READ"
    /\ DrawSteps(c)[i].op \in LaunchOps =>
         i < Len(DrawSteps(c)) /\ FullFlush(DrawSteps(c)[i + 1])

Sends(k, S) == k.call = "submit" /\ k.cmd.op \in S

\* The calls s of worker t, as the cp_submit_* functions make them: its own
\* commands, a full flush after every launch, and the response register read
\* right after a DCR read.
Regular(t, s) ==
  \A i \in DOMAIN s :
    /\ s[i].call = "submit" => s[i].cmd.own = t
    /\ Sends(s[i], LaunchOps) =>
         i < Len(s) /\ s[i + 1].call = "submit" /\ FullFlush(s[i + 1].cmd)
    /\ Sends(s[i], {"DRAW"}) => WellDrawn(s[i].cmd)
    /\ s[i].call = "rsp" /\ i > 1 => Sends(s[i - 1], {"DCR_READ"})

RegularOps ==
  \A t \in Threads :
    /\ \A o \in OpsOf[t] : Regular(t, o) /\ (o # << >> => o[1].call # "rsp")
    /\ \A i \in DOMAIN DrainCmds[t] :
         /\ DrainCmds[t][i].own = t
         /\ DrainCmds[t][i].op \notin LaunchOps \cup {"DRAW", "DCR_READ"}
=============================================================================

--------------------------- MODULE CpSubmitProofs ---------------------------
(***************************************************************************)
(* Proofs about CpSubmit.  The first part, for every set of workers and    *)
(* operations, batches and register faults included: type correctness.     *)
(* The second, for workers that open no batch, on registers that do not    *)
(* fail, with no more workers than the ring has lines: no line of the ring *)
(* is overwritten before it is fetched, commands execute in the order in   *)
(* which they were appended, and every submission is synchronous.  The     *)
(* third, for operations made of calls as queue.cpp makes them: no cache   *)
(* holds a kernel's writes once its operation has returned, and a worker   *)
(* that alone reads DCRs gets its own responses.                           *)
(***************************************************************************)
EXTENDS CpSubmit, CommandProcessorProofs, FiniteSetTheorems, SequenceTheorems

HostType ==
  /\ devTail \in Nat /\ expected \in Nat /\ batchTarget \in Nat
  /\ cpMu \in Threads \cup {NoThread} /\ inBatch \in BOOLEAN

ThreadType ==
  /\ pc \in [Threads -> PcStates]
  /\ todo \in [Threads -> Seq(Call)]
  /\ \A t \in Threads : pc[t] # "idle" => todo[t] # << >>
  /\ CallInv

HistoryType ==
  /\ target \in [Threads -> Nat] /\ ops \in [Threads -> Nat] /\ own \in [Threads -> Nat]
  /\ rsp \in [Threads -> [no : Nat, mine : Nat]]

HInv == CpInv /\ HostType /\ ThreadType /\ HistoryType

\* The parts of the type invariant, split for citing.
LEMMA HInvParts == HInv <=> TypeOK /\ FsmInv /\ CallInv
BY DEF HInv, CpInv, HostType, ThreadType, HistoryType, TypeOK

\* A worker that is not idle has a call in hand; inside cp_submit_cl_ it is a
\* submission, and its command is one of the runtime's.
LEMMA CallInHand ==
  ASSUME ThreadType, NEW t \in Threads, pc[t] # "idle"
  PROVE  /\ todo[t] \in Seq(Call) /\ todo[t] # << >>
         /\ Head(todo[t]) \in Call /\ Tail(todo[t]) \in Seq(Call)
         /\ Head(todo[t]).call = "submit" => Head(todo[t]).cmd \in Submittable
<1>1. todo[t] \in Seq(Call) /\ todo[t] # << >>
  BY DEF ThreadType
<1>2. Head(todo[t]) \in Call /\ Tail(todo[t]) \in Seq(Call)
  BY <1>1
<1>3. \A c \in Call : c.call = "submit" => c.cmd \in Submittable
  BY DEF Call, BatchBegin, BatchEnd, DrainCout, ReadRsp
<1> QED BY <1>1, <1>2, <1>3

\* One worker moves to a place where what it must know about its call holds.
LEMMA ThreadMove ==
  ASSUME ThreadType, NEW t \in Threads, NEW p \in PcStates, NEW s \in Seq(Call),
         pc' = [pc EXCEPT ![t] = p], todo' = [todo EXCEPT ![t] = s],
         p # "idle" => s # << >>,
         p \in {"lock", "bell", "copy", "bump"} => Head(s).call = "submit"
  PROVE  ThreadType'
<1>1. pc' \in [Threads -> PcStates] /\ todo' \in [Threads -> Seq(Call)]
  BY DEF ThreadType
<1>2. ASSUME NEW u \in Threads, pc'[u] # "idle" PROVE todo'[u] # << >>
  BY <1>2 DEF ThreadType
<1>3. CallInv'
  BY DEF ThreadType, CallInv
<1> QED BY <1>1, <1>2, <1>3 DEF ThreadType

\* The end of a call, good or bad.
LEMMA ReturnStep ==
  ASSUME ThreadType, NEW t \in Threads, pc[t] # "idle", Return(t)
  PROVE  ThreadType'
<1> DEFINE p == IF Tail(todo[t]) = << >> THEN "idle" ELSE "call"
           s == Tail(todo[t])
<1>1. s \in Seq(Call)
  BY CallInHand
<1>2. p \in PcStates /\ (p # "idle" => s # << >>) /\ p \notin {"lock", "bell", "copy", "bump"}
  BY DEF PcStates
<1>3. pc' = [pc EXCEPT ![t] = p] /\ todo' = [todo EXCEPT ![t] = s]
  BY DEF Return, ThreadType
<1> HIDE DEF p, s
<1> QED BY <1>1, <1>2, <1>3, ThreadMove

\* A call that fails leaves the worker idle, with its type.
LEMMA FailStep ==
  ASSUME ThreadType, HistoryType, NEW t \in Threads, Fail(t)
  PROVE  ThreadType' /\ own' \in [Threads -> Nat]
<1>1. << >> \in Seq(Call) /\ "idle" \in PcStates
  BY DEF PcStates
<1>2. ThreadType'
  BY <1>1, ThreadMove DEF Fail
<1> QED BY <1>2 DEF Fail, HistoryType

\* A worker that stays with its call and moves on inside it.
LEMMA StayStep ==
  ASSUME ThreadType, NEW t \in Threads, NEW p \in PcStates, pc[t] # "idle",
         pc' = [pc EXCEPT ![t] = p], todo' = todo,
         p \in {"lock", "bell", "copy", "bump"} => Head(todo[t]).call = "submit"
  PROVE  ThreadType'
<1>1. todo' = [todo EXCEPT ![t] = todo[t]] /\ todo[t] \in Seq(Call) /\ todo[t] # << >>
  BY DEF ThreadType
<1> QED BY <1>1, ThreadMove

\* What a host step does to the CP's variables: ring, tail and posted only.
LEMMA HostWrites ==
  ASSUME CpInv, UNCHANGED cpOnly, tail' \in Nat, posted' \in Seq(Cmd),
         ring' \in [0 .. RingSlots - 1 -> Seq(Cmd)]
  PROVE  CpInv'
BY DEF CpInv, CpTypeOK, FsmInv, cpOnly, engVars, archVars

\* cp_ring_append_, in its two halves.
LEMMA CopyStep ==
  ASSUME HInv, NEW t \in Threads, pc[t] # "idle", Head(todo[t]).call = "submit", CopyCl(t)
  PROVE  ring' \in [0 .. RingSlots - 1 -> Seq(Cmd)]
<1>1. Head(todo[t]).cmd \in Cmd
  BY CallInHand DEF HInv, Submittable
<1>2. ring \in [0 .. RingSlots - 1 -> Seq(Cmd)]
  BY DEF HInv, CpInv, CpTypeOK
<1>3. << Head(todo[t]).cmd >> \in Seq(Cmd)
  BY <1>1
<1>4. \A c \in Seq(Cmd) : \A i : [ring EXCEPT ![i] = c] \in [0 .. RingSlots - 1 -> Seq(Cmd)]
  BY <1>2, Zenon
<1> QED BY <1>3, <1>4, Zenon DEF CopyCl

\* cp_ring_append_'s counters keep their types.
LEMMA BumpStep ==
  ASSUME HInv, NEW t \in Threads, pc[t] # "idle", Head(todo[t]).call = "submit", BumpTail(t)
  PROVE  /\ devTail' \in Nat /\ expected' \in Nat /\ posted' \in Seq(Cmd) /\ Len(posted') \in Nat
<1>1. Head(todo[t]).cmd \in Cmd
  BY CallInHand DEF HInv, Submittable
<1> QED BY <1>1 DEF BumpTail, HInv, HostType, CpInv, CpTypeOK

\* What drain_cout submits are calls of cp_submit_cl_.
LEMMA DrainCallsType ==
  ASSUME NEW t \in Threads
  PROVE  DrainCalls(t) \in Seq(Call)
<1> DEFINE d == DrainCmds[t]
<1>1. d \in Seq(Submittable)
  BY SubmitAssumption
<1>2. \A c \in Submittable : Submit(c) \in Call
  BY DEF Submit, Call
<1> HIDE DEF d
<1>3. [i \in 1 .. Len(d) |-> Submit(d[i])] \in Seq(Call)
  <2>1. Len(d) \in Nat /\ \A i \in 1 .. Len(d) : d[i] \in Submittable
    BY <1>1
  <2>2. [i \in 1 .. Len(d) |-> Submit(d[i])] \in [1 .. Len(d) -> Call]
    BY <2>1, <1>2
  <2> QED BY <2>1, <2>2
<1> QED BY <1>3 DEF DrainCalls, Submits, d

\* Steps that leave the CP's variables and the Device's alone.
LEMMA CpStutter ==
  ASSUME CpInv, UNCHANGED cpVars
  PROVE  CpInv'
BY DEF CpInv, CpTypeOK, FsmInv, cpVars, engVars, archVars

\* Every step of a worker preserves the types and what it knows of its call.
LEMMA WorkerType ==
  ASSUME HInv, NEW t \in Threads, Worker(t)
  PROVE  HInv'
<1> USE DEF HInv
<1>0. \A u \in Threads : pc[u] \in PcStates
  BY DEF ThreadType
<1>1. CASE StartOp(t)
  <2>1. PICK o \in OpsOf[t] : o # << >> /\ todo' = [todo EXCEPT ![t] = o]
    BY <1>1 DEF StartOp
  <2>2. o \in Seq(Call)
    BY SubmitAssumption
  <2>3. pc' = [pc EXCEPT ![t] = "call"] /\ "call" \in PcStates
    BY <1>1 DEF StartOp, PcStates
  <2>4. ThreadType'
    BY <2>1, <2>2, <2>3, ThreadMove
  <2>5. CpInv' /\ HostType' /\ HistoryType'
    BY <1>1, CpStutter DEF StartOp, devVars, HostType, HistoryType
  <2> QED BY <2>4, <2>5
<1>2. CASE CheckBatch(t)
  <2>1. pc[t] # "idle" /\ Head(todo[t]).call = "submit"
    BY <1>2 DEF CheckBatch, Calling
  <2>2. (IF inBatch THEN "copy" ELSE "lock") \in PcStates
    BY DEF PcStates
  <2>3. ThreadType'
    BY <1>2, <2>1, <2>2, StayStep DEF CheckBatch
  <2>4. CpInv' /\ HostType' /\ HistoryType'
    BY <1>2, CpStutter DEF CheckBatch, devVars, HostType, HistoryType
  <2> QED BY <2>3, <2>4
<1>3. CASE LockAndCopy(t)
  <2>1. pc[t] # "idle" /\ Head(todo[t]).call = "submit" /\ "bell" \in PcStates
    BY <1>3 DEF LockAndCopy, ThreadType, CallInv, PcStates
  <2>2. ThreadType'
    BY <1>3, <2>1, StayStep DEF LockAndCopy
  <2>3. CpInv'
    BY <1>3, <2>1, CopyStep, HostWrites DEF LockAndCopy, CpInv, CpTypeOK
  <2>4. HostType' /\ HistoryType'
    BY <1>3 DEF LockAndCopy, HostType, HistoryType
  <2> QED BY <2>2, <2>3, <2>4
<1>4. CASE Doorbell(t)
  <2>1. pc[t] # "idle" /\ Head(todo[t]).call = "submit" /\ "poll" \in PcStates
    BY <1>4 DEF Doorbell, ThreadType, CallInv, PcStates
  <2>2. devTail' \in Nat /\ expected' \in Nat /\ posted' \in Seq(Cmd) /\ Len(posted') \in Nat
    BY <1>4, <2>1, BumpStep DEF Doorbell
  <2>3. ThreadType'
    BY <1>4, <2>1, StayStep DEF Doorbell
  <2>4. CpInv'
    BY <1>4, <2>2, HostWrites DEF Doorbell, CpInv, CpTypeOK
  <2>5. HostType' /\ HistoryType'
    BY <1>4, <2>2 DEF Doorbell, HostType, HistoryType
  <2> QED BY <2>3, <2>4, <2>5
<1>5. CASE DoorbellFault(t)
  <2>1. pc[t] # "idle" /\ Head(todo[t]).call = "submit"
    BY <1>5 DEF DoorbellFault, ThreadType, CallInv
  <2>2. devTail' \in Nat /\ expected' \in Nat /\ posted' \in Seq(Cmd)
    BY <1>5, <2>1, BumpStep DEF DoorbellFault
  <2>3. ThreadType' /\ own' \in [Threads -> Nat]
    BY <1>5, FailStep DEF DoorbellFault
  <2>4. CpInv'
    BY <1>5, <2>2, HostWrites DEF DoorbellFault, CpInv, CpTypeOK
  <2>5. HostType' /\ HistoryType'
    BY <1>5, <2>2, <2>3 DEF DoorbellFault, HostType, HistoryType
  <2> QED BY <2>3, <2>4, <2>5
<1>6. CASE CopyInBatch(t)
  <2>1. pc[t] # "idle" /\ Head(todo[t]).call = "submit" /\ "bump" \in PcStates
    BY <1>6 DEF CopyInBatch, ThreadType, CallInv, PcStates
  <2>2. ThreadType'
    BY <1>6, <2>1, StayStep DEF CopyInBatch
  <2>3. CpInv'
    BY <1>6, <2>1, CopyStep, HostWrites DEF CopyInBatch, CpInv, CpTypeOK
  <2>4. HostType' /\ HistoryType'
    BY <1>6 DEF CopyInBatch, devVars, HostType, HistoryType
  <2> QED BY <2>2, <2>3, <2>4
<1>7. CASE BumpInBatch(t)
  <2>1. pc[t] # "idle" /\ Head(todo[t]).call = "submit"
    BY <1>7 DEF BumpInBatch, ThreadType, CallInv
  <2>2. devTail' \in Nat /\ expected' \in Nat /\ posted' \in Seq(Cmd) /\ Len(posted') \in Nat
    BY <1>7, <2>1, BumpStep DEF BumpInBatch
  <2>3. ThreadType'
    BY <1>7, <2>1, ReturnStep DEF BumpInBatch
  <2>4. CpInv'
    BY <1>7, <2>2, HostWrites DEF BumpInBatch, CpInv, CpTypeOK
  <2>5. HostType' /\ HistoryType'
    BY <1>7, <2>2 DEF BumpInBatch, HostType, HistoryType
  <2> QED BY <2>3, <2>4, <2>5
<1>8. CASE BeginBatch(t)
  <2>1. ThreadType'
    BY <1>8, ReturnStep DEF BeginBatch, Calling
  <2>2. CpInv' /\ HistoryType'
    BY <1>8, CpStutter DEF BeginBatch, HistoryType
  <2>3. inBatch' \in BOOLEAN
    BY <1>8, Zenon DEF BeginBatch
  <2>4. HostType'
    BY <1>8, <2>3 DEF BeginBatch, HostType
  <2> QED BY <2>1, <2>2, <2>4
<1>9. CASE EndBatch(t)
  <2>1. pc[t] # "idle" /\ "poll" \in PcStates
    BY <1>9 DEF EndBatch, Calling, PcStates
  <2> DEFINE s == << Head(todo[t]) >> \o DrainCalls(t) \o Tail(todo[t])
  <2>2. s \in Seq(Call) /\ s # << >>
    <3>1. << Head(todo[t]) >> \in Seq(Call) /\ Tail(todo[t]) \in Seq(Call)
      BY <2>1, CallInHand
    <3> HIDE DEF HInv
    <3>2. \A h, d, u \in Seq(Call) : h # << >> => h \o d \o u \in Seq(Call) /\ h \o d \o u # << >>
      OBVIOUS
    <3> QED BY <3>1, <3>2, DrainCallsType
  <2>3. pc' = [pc EXCEPT ![t] = "poll"] /\ todo' = [todo EXCEPT ![t] = s]
    BY <1>9 DEF EndBatch, ThreadType
  <2> HIDE DEF s
  <2>4. ThreadType'
    BY <2>1, <2>2, <2>3, ThreadMove
  <2>5. CpInv'
    BY <1>9, HostWrites DEF EndBatch, HostType, CpInv, CpTypeOK
  <2>6. inBatch' \in BOOLEAN
    BY <1>9, Zenon DEF EndBatch
  <2>7. HostType' /\ HistoryType'
    BY <1>9, <2>6 DEF EndBatch, HostType, HistoryType
  <2> QED BY <2>4, <2>5, <2>7
<1>10. CASE EndBatchFault(t)
  <2>1. ThreadType' /\ own' \in [Threads -> Nat]
    BY <1>10, FailStep DEF EndBatchFault
  <2>2. inBatch' \in BOOLEAN
    BY <1>10, Zenon DEF EndBatchFault
  <2>3. CpInv' /\ HostType' /\ HistoryType'
    BY <1>10, <2>1, <2>2, CpStutter DEF EndBatchFault, HostType, HistoryType
  <2> QED BY <2>1, <2>3
<1>11. CASE Poll(t)
  <2>1. ThreadType'
    BY <1>11, ReturnStep DEF Poll
  <2>2. CpInv' /\ HostType' /\ HistoryType'
    BY <1>11, CpStutter DEF Poll, devVars, HostType, HistoryType
  <2> QED BY <2>1, <2>2
<1>12. CASE PollFault(t)
  <2>1. ThreadType' /\ own' \in [Threads -> Nat]
    BY <1>12, FailStep DEF PollFault
  <2>2. CpInv' /\ HostType' /\ HistoryType'
    BY <1>12, <2>1, CpStutter DEF PollFault, devVars, HostType, HistoryType
  <2> QED BY <2>1, <2>2
<1>13. CASE Drain(t)
  <2>1. pc[t] # "idle"
    BY <1>13 DEF Drain, Calling
  <2> DEFINE s == IF inBatch THEN Tail(todo[t]) ELSE DrainCalls(t) \o Tail(todo[t])
             p == IF s = << >> THEN "idle" ELSE "call"
  <2>2. s \in Seq(Call)
    BY <2>1, CallInHand, DrainCallsType
  <2>3. pc' = [pc EXCEPT ![t] = p] /\ todo' = [todo EXCEPT ![t] = s]
    BY <1>13 DEF Drain
  <2>4. p \in PcStates /\ (p # "idle" => s # << >>) /\ p \notin {"lock", "bell", "copy", "bump"}
    BY DEF PcStates
  <2> HIDE DEF s, p
  <2>5. ThreadType'
    BY <2>2, <2>3, <2>4, ThreadMove
  <2>6. CpInv' /\ HostType' /\ HistoryType'
    BY <1>13, CpStutter DEF Drain, devVars, HostType, HistoryType
  <2> QED BY <2>5, <2>6
<1>14. CASE FetchRsp(t)
  <2>1. ThreadType'
    BY <1>14, ReturnStep DEF FetchRsp, Calling
  <2>2. lastRsp.no \in Nat /\ own[t] \in Nat
    BY DEF CpInv, CpTypeOK, HistoryType
  <2>3. CpInv' /\ HostType' /\ HistoryType'
    BY <1>14, <2>2, CpStutter DEF FetchRsp, devVars, HostType, HistoryType
  <2> QED BY <2>1, <2>3
<1>15. CASE FetchRspFault(t)
  <2>1. ThreadType' /\ own' \in [Threads -> Nat]
    BY <1>15, FailStep DEF FetchRspFault
  <2>2. CpInv' /\ HostType' /\ HistoryType'
    BY <1>15, <2>1, CpStutter DEF FetchRspFault, devVars, HostType, HistoryType
  <2> QED BY <2>1, <2>2
<1> QED
  BY <1>1, <1>2, <1>3, <1>4, <1>5, <1>6, <1>7, <1>8, <1>9, <1>10, <1>11, <1>12, <1>13,
     <1>14, <1>15 DEF Worker, WorkerStep, RegisterFault

\* The state cp_init leaves has its type.
LEMMA SubmitInitType == Init => HInv
<1> SUFFICES ASSUME Init PROVE HInv
  OBVIOUS
<1>1. CpInv
  BY CpInitInv DEF Init
<1>2. inBatch \in BOOLEAN
  BY Zenon DEF Init
<1>3. HostType
  BY <1>2 DEF Init, HostType
<1>4. ThreadType
  BY DEF Init, ThreadType, CallInv, PcStates
<1>5. HistoryType
  BY SubmitAssumption DEF Init, HistoryType
<1> QED BY <1>1, <1>3, <1>4, <1>5 DEF HInv

\* Every step of a worker or of the device keeps the types.
LEMMA NextType ==
  ASSUME HInv, [Next]_vars
  PROVE  HInv'
<1>1. CASE Device
  BY <1>1, DeviceStep
     DEF Device, HInv, devVars, thrVars, HostType, ThreadType, HistoryType, CallInv
<1>2. CASE \E t \in Threads : Worker(t)
  BY <1>2, WorkerType
<1>3. CASE UNCHANGED vars
  BY <1>3, CpStutter
     DEF vars, HInv, devVars, thrVars, HostType, ThreadType, HistoryType, CallInv
<1> QED BY <1>1, <1>2, <1>3 DEF Next

\* The inductive type invariant of the Device, its workers and the CP: types, the
\* CP's two FSMs in step, and a line in hand wherever cp_submit_cl_ uses one.
THEOREM SubmitTypeInvariant == Spec => []HInv
<1>1. HInv /\ [Next]_vars => HInv'
  BY NextType
<1> QED BY <1>1, SubmitInitType, PTL DEF Spec

\* The Device, the workers and the CP keep their types together, whatever the
\* workers submit, batch or lose to a failing register.
THEOREM SubmitTypeCorrect == Spec => []TypeOK
<1>1. HInv => TypeOK
  BY HInvParts
<1> QED BY <1>1, SubmitTypeInvariant, PTL

----------------------------------------------------------------------------
(* No batches, no register faults, at most one worker per line of the ring. *)

Calm ==
  /\ NoBatches /\ RegFaults = FALSE
  /\ IsFiniteSet(Threads) /\ Cardinality(Threads) <= RingSlots

SInv == HInv /\ SubmitInv

\* A line that holds one command unpacks to that command.
LEMMA UnpackOne ==
  ASSUME NEW c \in Submittable
  PROVE  UnpackCl(<< c >>) = << c >>
<1> DEFINE l == << c >>
           Stop(n) == Unpackable(l, n) /\ ~Unpackable(l, n + 1)
<1>1. c.op # "PAD" /\ CmdBytes(c.op) \in Nat /\ CmdBytes(c.op) <= 28
  BY DEF Submittable, CmdBytes
<1>2. Len(l) = 1 /\ l[1] = c
  OBVIOUS
<1> HIDE DEF l
<1>3. Unpackable(l, 1)
  <2>1. \A i \in 1 .. 1 : l[i].op # "PAD"
    BY <1>1, <1>2
  <2>2. ClOffset(l, 1) = CmdBytes(c.op)
    BY <1>1, <1>2 DEF ClOffset
  <2> QED BY <1>1, <1>2, <2>1, <2>2 DEF Unpackable, MaxCmdsPerCl, ClBytes
<1>4. \A n \in 0 .. MaxCmdsPerCl : n >= 2 => ~Unpackable(l, n)
  BY <1>2 DEF Unpackable
<1>5. ~Unpackable(l, 2)
  BY <1>2 DEF Unpackable
<1>6. \A n \in 0 .. MaxCmdsPerCl : Stop(n) <=> n = 1
  <2>1. \A n \in 0 .. MaxCmdsPerCl : n = 0 \/ n = 1 \/ n >= 2
    BY DEF MaxCmdsPerCl
  <2>2. ~Stop(0)
    BY <1>3
  <2>3. Stop(1)
    BY <1>3, <1>5
  <2> QED BY <1>4, <2>1, <2>2, <2>3
<1> DEFINE m == CHOOSE n \in 0 .. MaxCmdsPerCl : Stop(n)
<1>7. m = 1
  <2>1. 1 \in 0 .. MaxCmdsPerCl
    BY DEF MaxCmdsPerCl
  <2> HIDE DEF Stop
  <2>2. m \in 0 .. MaxCmdsPerCl /\ Stop(m)
    BY <1>6, <2>1
  <2> QED BY <1>6, <2>2
<1>8. UnpackCl(l) = SubSeq(l, 1, m)
  BY DEF UnpackCl
<1>9. SubSeq(l, 1, 1) = l
  <2>1. l \in Seq(Submittable)
    BY DEF l
  <2> QED BY <2>1, <1>2, SubSeqFull
<1> QED BY <1>7, <1>8, <1>9 DEF l

\* The facts about single variables the arithmetic below needs.
LEMMA Numbers ==
  ASSUME HInv
  PROVE  /\ RingSlots \in Nat /\ RingSlots > 0
         /\ devTail \in Nat /\ head \in Nat /\ tail \in Nat /\ seqnum \in Nat /\ slot \in Nat
         /\ posted \in Seq(Cmd) /\ Len(posted) \in Nat /\ cl \in Seq(Cmd)
         /\ ring \in [0 .. RingSlots - 1 -> Seq(Cmd)]
         /\ target \in [Threads -> Nat] /\ own \in [Threads -> Nat]
         /\ pc \in [Threads -> PcStates]
BY CpAssumption DEF HInv, CpInv, CpTypeOK, HostType, ThreadType, HistoryType

\* Fewer commands wait than there are workers, when some worker is not polling:
\* each waiting command has a worker of its own.
LEMMA PendingBound ==
  ASSUME Calm, SInv, NEW t \in Threads, pc[t] # "poll"
  PROVE  devTail - seqnum < RingSlots
<1>1. devTail \in Nat /\ seqnum \in Nat /\ RingSlots \in Nat /\ RingSlots > 0
  BY Numbers DEF SInv
<1> DEFINE P == seqnum + 1 .. devTail
           T == Threads \ {t}
           f == [i \in P |-> CHOOSE u \in Threads : pc[u] = "poll" /\ target[u] = i]
<1>2. \A i \in P : f[i] \in Threads /\ pc[f[i]] = "poll" /\ target[f[i]] = i
  BY DEF SInv, SubmitInv, WaiterInv
<1>3. \A i \in P : f[i] \in T
  BY <1>2
<1>4. f \in [P -> T]
  BY <1>3
<1>5. \A i, j \in P : f[i] = f[j] => i = j
  BY <1>2
<1>6. f \in Injection(P, T)
  BY <1>4, <1>5 DEF Injection, IsInjective
<1>7. IsFiniteSet(T) /\ Cardinality(T) = Cardinality(Threads) - 1
  BY FS_RemoveElement DEF Calm
<1>8. Cardinality(P) <= Cardinality(T)
  BY <1>6, <1>7, FS_Injection
<1>9. Cardinality(P) = IF seqnum + 1 > devTail THEN 0 ELSE devTail - (seqnum + 1) + 1
  BY <1>1, FS_Interval
<1>10. Cardinality(Threads) \in Nat /\ Cardinality(Threads) <= RingSlots
  BY FS_CardinalityType DEF Calm
<1> HIDE DEF P, T, f
<1> QED BY <1>1, <1>7, <1>8, <1>9, <1>10

\* A step that leaves the ring, the counters, the loaded line and the workers
\* alone, and the engine idle or not as it was.
LEMMA QuietStep ==
  ASSUME SInv, UNCHANGED <<hostVars, head, seqnum, clLoaded, cl, slot, cur, devVars, thrVars>>,
         (eng' = "Idle") <=> (eng = "Idle")
  PROVE  SubmitInv'
<1>1. CallInv' /\ LockInv' /\ CountInv' /\ WaiterInv' /\ OwnInv' /\ BellInv'
  BY DEF SInv, SubmitInv, CallInv, LockInv, CountInv, WaiterInv, OwnInv, BellInv, hostVars,
         devVars, thrVars
<1>2. LineInv'
  BY DEF SInv, SubmitInv, LineInv, hostVars
<1>3. RingIntact'
  BY DEF SInv, SubmitInv, RingIntact, FirstUnfetched, hostVars, devVars
<1> QED BY <1>1, <1>2, <1>3 DEF SubmitInv

\* The line the CP fetches is the one appended at its position.
LEMMA FetchStep ==
  ASSUME SInv, EngFetch, UNCHANGED <<devVars, thrVars>>
  PROVE  SubmitInv'
<1>0. devTail \in Nat /\ head \in Nat /\ tail \in Nat /\ seqnum \in Nat /\ posted \in Seq(Cmd)
      /\ Len(posted) \in Nat
  BY Numbers DEF SInv
<1>1. eng = "Idle" /\ ~clLoaded /\ head < tail /\ slot' = 0
      /\ UNCHANGED <<hostVars, seqnum>>
  BY DEF EngFetch
<1>2. tail = devTail /\ devTail = Len(posted) /\ posted \in Seq(Submittable) /\ seqnum = head
  BY <1>1 DEF SInv, SubmitInv, CountInv, LineInv
<1>3. ring[head % RingSlots] = << posted[head + 1] >>
  <2>1. head \in FirstUnfetched .. devTail - 1
    BY <1>0, <1>1, <1>2 DEF FirstUnfetched
  <2> QED BY <2>1 DEF SInv, SubmitInv, RingIntact
<1>4. posted[head + 1] \in Submittable
  BY <1>0, <1>1, <1>2
<1>5. cl' = << posted[head + 1] >>
  BY <1>3, <1>4, UnpackOne DEF EngFetch
<1>6. cur' = posted[head + 1] /\ eng' = "Decode" /\ clLoaded' = TRUE /\ head' = head
  <2>1. Len(cl') = 1 /\ cl'[1] = posted[head + 1]
    BY <1>5
  <2>2. LoadNextCmd(cl', 0)
    BY DEF EngFetch
  <2> QED BY <2>1, <2>2 DEF LoadNextCmd
<1>7. CallInv' /\ LockInv' /\ CountInv' /\ WaiterInv' /\ OwnInv' /\ BellInv'
  BY <1>1 DEF SInv, SubmitInv, CallInv, LockInv, CountInv, WaiterInv, OwnInv, BellInv,
              hostVars, devVars, thrVars
<1>8. LineInv'
  BY <1>0, <1>1, <1>2, <1>5, <1>6 DEF LineInv, hostVars
<1>9. RingIntact'
  <2>1. FirstUnfetched = head /\ FirstUnfetched' = head + 1
    BY <1>1, <1>6 DEF FirstUnfetched
  <2> QED BY <1>0, <1>1, <2>1 DEF SInv, SubmitInv, RingIntact, hostVars, devVars
<1> QED BY <1>7, <1>8, <1>9 DEF SubmitInv

\* The loaded line is dropped once its one command has retired.
LEMMA NextLineStep ==
  ASSUME SInv, EngNext, UNCHANGED <<devVars, thrVars>>
  PROVE  SubmitInv'
<1>0. devTail \in Nat /\ head \in Nat /\ tail \in Nat /\ seqnum \in Nat
  BY Numbers DEF SInv
<1>1. eng = "Idle" /\ clLoaded /\ UNCHANGED <<hostVars, seqnum, cl, slot>>
  BY DEF EngNext
<1>2. slot = 1 /\ Len(cl) = 1 /\ head < tail /\ seqnum = head + 1
  BY <1>1 DEF SInv, SubmitInv, LineInv
<1>3. head' = head + 1 /\ clLoaded' = FALSE /\ eng' = "Idle"
  BY <1>1, <1>2 DEF EngNext, LoadNextCmd
<1>4. CallInv' /\ LockInv' /\ CountInv' /\ WaiterInv' /\ OwnInv' /\ BellInv'
  BY <1>1 DEF SInv, SubmitInv, CallInv, LockInv, CountInv, WaiterInv, OwnInv, BellInv,
              hostVars, devVars, thrVars
<1>5. LineInv'
  BY <1>0, <1>1, <1>2, <1>3 DEF LineInv, hostVars
<1>6. RingIntact'
  <2>1. FirstUnfetched = head + 1 /\ FirstUnfetched' = head + 1
    BY <1>1, <1>3 DEF FirstUnfetched
  <2> QED BY <1>0, <1>1, <2>1 DEF SInv, SubmitInv, RingIntact, hostVars, devVars
<1> QED BY <1>4, <1>5, <1>6 DEF SubmitInv

\* Retiring satisfies the one worker that waits for this command, and no other.
LEMMA RetireStep ==
  ASSUME SInv, EngRetire, UNCHANGED <<devVars, thrVars>>
  PROVE  SubmitInv'
<1>0. devTail \in Nat /\ head \in Nat /\ tail \in Nat /\ seqnum \in Nat
      /\ own \in [Threads -> Nat] /\ target \in [Threads -> Nat]
  BY Numbers DEF SInv
<1>1. eng = "Retire" /\ seqnum' = seqnum + 1 /\ slot' = slot + 1 /\ eng' = "Idle"
      /\ UNCHANGED <<hostVars, head, clLoaded, cl, cur>>
  BY DEF EngRetire
<1>2. clLoaded /\ slot = 0 /\ head < tail /\ seqnum = head
  BY <1>0, <1>1 DEF SInv, SubmitInv, LineInv
<1>3. CallInv' /\ LockInv' /\ CountInv' /\ BellInv'
  BY <1>1 DEF SInv, SubmitInv, CallInv, LockInv, CountInv, BellInv, hostVars, devVars, thrVars
<1>4. WaiterInv'
  <2> SUFFICES ASSUME NEW i \in seqnum' + 1 .. devTail'
               PROVE  \E t \in Threads : pc'[t] = "poll" /\ target'[t] = i
    BY DEF WaiterInv
  <2>1. i \in seqnum + 1 .. devTail
    BY <1>0, <1>1 DEF devVars
  <2> QED BY <2>1 DEF SInv, SubmitInv, WaiterInv, thrVars
<1>5. OwnInv'
  BY <1>0, <1>1 DEF SInv, SubmitInv, OwnInv, thrVars
<1>6. LineInv'
  BY <1>0, <1>1, <1>2 DEF SInv, SubmitInv, LineInv, hostVars
<1>7. RingIntact'
  BY <1>1 DEF SInv, SubmitInv, RingIntact, FirstUnfetched, hostVars, devVars
<1> QED BY <1>3, <1>4, <1>5, <1>6, <1>7 DEF SubmitInv

\* No step of the CP or the GPU disturbs the submission invariant.
LEMMA DeviceSubmit ==
  ASSUME SInv, Device
  PROVE  SubmitInv'
<1>1. UNCHANGED <<devVars, thrVars>>
  BY DEF Device
<1>2. CASE Tick
  BY <1>1, <1>2, TickShape, FetchStep, NextLineStep, RetireStep, QuietStep DEF SInv, HInv
<1>3. CASE VortexRise \/ VortexDone
  BY <1>1, <1>3, QuietStep DEF VortexRise, VortexDone, engVars
<1> QED BY <1>2, <1>3 DEF Device

\* A worker moves between calls, or enters one, touching nothing shared; when it
\* stops polling its command has retired.
LEMMA PrivateStep ==
  ASSUME SInv, HInv', NEW t \in Threads, NEW p \in {"idle", "call", "lock"},
         NEW s \in Seq(Unbatched),
         UNCHANGED <<cpVars, devVars, target, own>>,
         pc[t] # "bell", pc[t] = "poll" => target[t] <= seqnum,
         pc' = [pc EXCEPT ![t] = p], todo' = [todo EXCEPT ![t] = s]
  PROVE  SubmitInv'
<1>0. seqnum \in Nat /\ devTail \in Nat /\ own \in [Threads -> Nat] /\ target \in [Threads -> Nat]
      /\ pc \in [Threads -> PcStates]
  BY Numbers DEF SInv
<1>1. UNCHANGED <<ring, tail, posted, head, seqnum, clLoaded, cl, slot, cur, eng>>
  BY DEF cpVars, engVars
<1>2. CallInv'
  BY DEF HInv, ThreadType
<1>3. LockInv'
  <2>1. inBatch' = FALSE /\ \A u \in Threads : pc'[u] \notin {"copy", "bump"}
    BY <1>0 DEF SInv, SubmitInv, LockInv, devVars
  <2>2. \A u \in Threads : pc'[u] = "bell" <=> cpMu' = u
    BY <1>0 DEF SInv, SubmitInv, LockInv, devVars
  <2>3. todo' \in [Threads -> Seq(Unbatched)]
    BY DEF SInv, SubmitInv, LockInv
  <2> QED BY <2>1, <2>2, <2>3 DEF LockInv
<1>4. CountInv' /\ LineInv' /\ RingIntact'
  BY <1>1 DEF SInv, SubmitInv, CountInv, LineInv, RingIntact, FirstUnfetched, devVars
<1>5. WaiterInv'
  <2> SUFFICES ASSUME NEW i \in seqnum + 1 .. devTail
               PROVE  \E u \in Threads : pc'[u] = "poll" /\ target[u] = i
    BY <1>1 DEF WaiterInv, devVars
  <2>1. PICK u \in Threads : pc[u] = "poll" /\ target[u] = i
    BY DEF SInv, SubmitInv, WaiterInv
  <2>2. u # t
    BY <1>0, <2>1
  <2> QED BY <1>0, <2>1, <2>2
<1>6. OwnInv'
  <2> SUFFICES ASSUME NEW u \in Threads
               PROVE  IF pc'[u] = "poll" THEN own[u] = target[u] ELSE own[u] <= seqnum
    BY <1>1 DEF OwnInv
  <2>1. IF pc[u] = "poll" THEN own[u] = target[u] ELSE own[u] <= seqnum
    BY DEF SInv, SubmitInv, OwnInv
  <2> QED BY <1>0, <2>1
<1>7. BellInv'
  BY <1>0, <1>1 DEF SInv, SubmitInv, BellInv, devVars
<1> QED BY <1>2, <1>3, <1>4, <1>5, <1>6, <1>7 DEF SubmitInv

\* The line the lock holder writes is one the CP has already fetched.
LEMMA LockAndCopyStep ==
  ASSUME Calm, SInv, HInv', NEW t \in Threads, LockAndCopy(t)
  PROVE  SubmitInv'
<1>0. /\ seqnum \in Nat /\ devTail \in Nat /\ head \in Nat /\ RingSlots \in Nat /\ RingSlots > 0
      /\ pc \in [Threads -> PcStates] /\ ring \in [0 .. RingSlots - 1 -> Seq(Cmd)]
  BY Numbers DEF SInv
<1>1. /\ pc[t] = "lock" /\ cpMu = NoThread /\ cpMu' = t /\ pc' = [pc EXCEPT ![t] = "bell"]
      /\ ring' = [ring EXCEPT ![devTail % RingSlots] = << Head(todo[t]).cmd >>]
      /\ UNCHANGED <<tail, posted, devTail, expected, inBatch, batchTarget, todo, target, own>>
  BY DEF LockAndCopy, CopyCl
<1>2. UNCHANGED <<head, seqnum, clLoaded, cl, slot, cur, eng>>
  BY DEF LockAndCopy, cpOnly, engVars
<1>3. \A u \in Threads : pc[u] # "bell"
  BY <1>1, SubmitAssumption DEF SInv, SubmitInv, LockInv
<1>4. CallInv'
  BY DEF HInv, ThreadType
<1>5. LockInv'
  BY <1>0, <1>1, <1>3 DEF SInv, SubmitInv, LockInv
<1>6. CountInv' /\ LineInv'
  BY <1>1, <1>2 DEF SInv, SubmitInv, CountInv, LineInv
<1>7. WaiterInv' /\ OwnInv'
  BY <1>0, <1>1, <1>2 DEF SInv, SubmitInv, WaiterInv, OwnInv
<1>8. devTail % RingSlots \in 0 .. RingSlots - 1
  BY <1>0, DivMod
<1>9. BellInv'
  <2>1. ring'[devTail % RingSlots] = << Head(todo[t]).cmd >>
    BY <1>0, <1>1, <1>8
  <2>2. \A u \in Threads : pc'[u] = "bell" => u = t
    BY <1>0, <1>1, <1>3
  <2> QED BY <1>1, <2>1, <2>2 DEF BellInv
<1>10. RingIntact'
  <2>1. devTail - seqnum < RingSlots
    BY <1>1, PendingBound
  <2>2. FirstUnfetched \in Nat /\ FirstUnfetched >= seqnum
    BY <1>0 DEF SInv, SubmitInv, LineInv, FirstUnfetched
  <2> HIDE DEF FirstUnfetched
  <2>3. FirstUnfetched' = FirstUnfetched
    BY <1>2 DEF FirstUnfetched
  <2> SUFFICES ASSUME NEW i \in FirstUnfetched .. devTail - 1
               PROVE  i < Len(posted) /\ ring'[i % RingSlots] = << posted[i + 1] >>
    BY <1>1, <2>3 DEF RingIntact
  <2>4. i < Len(posted) /\ ring[i % RingSlots] = << posted[i + 1] >>
    BY DEF SInv, SubmitInv, RingIntact
  <2>5. i \in Nat /\ i < devTail /\ devTail - i < RingSlots
    BY <1>0, <2>1, <2>2
  <2>6. i % RingSlots # devTail % RingSlots /\ i % RingSlots \in 0 .. RingSlots - 1
    BY <1>0, <2>5, ModDistinct, DivMod
  <2>7. ring'[i % RingSlots] = ring[i % RingSlots]
    BY <1>0, <1>1, <2>6
  <2> QED BY <2>4, <2>7
<1> QED BY <1>4, <1>5, <1>6, <1>7, <1>9, <1>10 DEF SubmitInv

\* The doorbell publishes the line just written, as the next command in order.
LEMMA DoorbellStep ==
  ASSUME SInv, HInv', NEW t \in Threads, Doorbell(t)
  PROVE  SubmitInv'
<1>0. /\ seqnum \in Nat /\ devTail \in Nat /\ head \in Nat /\ tail \in Nat
      /\ pc \in [Threads -> PcStates] /\ own \in [Threads -> Nat] /\ target \in [Threads -> Nat]
  BY Numbers DEF SInv
<1>1. /\ pc[t] = "bell" /\ cpMu' = NoThread /\ pc' = [pc EXCEPT ![t] = "poll"]
      /\ devTail' = devTail + 1 /\ expected' = expected + 1 /\ tail' = devTail'
      /\ posted' = Append(posted, Head(todo[t]).cmd)
      /\ target' = [target EXCEPT ![t] = expected'] /\ own' = [own EXCEPT ![t] = Len(posted')]
      /\ UNCHANGED <<ring, inBatch, todo>>
  BY DEF Doorbell, BumpTail
<1>2. UNCHANGED <<head, seqnum, clLoaded, cl, slot, cur, eng>>
  BY DEF Doorbell, cpOnly, engVars
<1>3. /\ posted \in Seq(Submittable) /\ Len(posted) = devTail /\ expected = devTail
      /\ tail = devTail /\ head <= tail /\ seqnum <= devTail
  BY <1>0 DEF SInv, SubmitInv, CountInv, LineInv
<1>4. Head(todo[t]).cmd \in Submittable
  <2>1. Head(todo[t]).call = "submit"
    BY <1>1 DEF SInv, SubmitInv, CallInv
  <2> QED BY <1>1, <2>1, CallInHand DEF SInv, HInv
<1>5. /\ posted' \in Seq(Submittable) /\ Len(posted') = devTail + 1
      /\ posted'[devTail + 1] = Head(todo[t]).cmd
      /\ \A i \in 1 .. devTail : posted'[i] = posted[i]
  BY <1>1, <1>3, <1>4
<1>6. CallInv'
  BY DEF HInv, ThreadType
<1>7. LockInv'
  <2>1. cpMu = t /\ \A u \in Threads : pc[u] = "bell" => u = t
    BY <1>1 DEF SInv, SubmitInv, LockInv
  <2>2. \A u \in Threads : pc'[u] # "bell" /\ pc'[u] \notin {"copy", "bump"}
    BY <1>0, <1>1, <2>1 DEF SInv, SubmitInv, LockInv
  <2> QED BY <1>1, <2>2, SubmitAssumption DEF SInv, SubmitInv, LockInv
<1>8. CountInv'
  BY <1>1, <1>3, <1>5 DEF CountInv
<1>9. LineInv'
  <2>1. clLoaded => head + 1 \in 1 .. devTail
    BY <1>0, <1>3 DEF SInv, SubmitInv, LineInv
  <2>2. clLoaded => posted'[head + 1] = posted[head + 1]
    BY <1>5, <2>1
  <2> HIDE DEF HInv
  <2> QED BY <1>0, <1>1, <1>2, <1>3, <2>2 DEF SInv, SubmitInv, LineInv
<1>10. WaiterInv'
  <2> SUFFICES ASSUME NEW i \in seqnum + 1 .. devTail + 1
               PROVE  \E u \in Threads : pc'[u] = "poll" /\ target'[u] = i
    BY <1>1, <1>2 DEF WaiterInv
  <2>1. CASE i = devTail + 1
    BY <1>0, <1>1, <1>3, <2>1
  <2>2. CASE i # devTail + 1
    <3>1. i \in seqnum + 1 .. devTail
      BY <1>0, <2>2
    <3>2. PICK u \in Threads : pc[u] = "poll" /\ target[u] = i
      BY <3>1 DEF SInv, SubmitInv, WaiterInv
    <3> QED BY <1>0, <1>1, <3>2
  <2> QED BY <2>1, <2>2
<1>11. OwnInv'
  <2> SUFFICES ASSUME NEW u \in Threads
               PROVE  IF pc'[u] = "poll" THEN own'[u] = target'[u] ELSE own'[u] <= seqnum
    BY <1>2 DEF OwnInv
  <2>1. CASE u = t
    BY <1>0, <1>1, <1>3, <1>5, <2>1
  <2>2. CASE u # t
    BY <1>0, <1>1, <2>2 DEF SInv, SubmitInv, OwnInv
  <2> QED BY <2>1, <2>2
<1>12. BellInv'
  <2>1. \A u \in Threads : pc[u] = "bell" => u = t
    BY <1>1 DEF SInv, SubmitInv, LockInv
  <2>2. \A u \in Threads : pc'[u] # "bell"
    BY <1>0, <1>1, <2>1
  <2> QED BY <2>2 DEF BellInv
<1>13. RingIntact'
  <2>1. FirstUnfetched' = FirstUnfetched /\ FirstUnfetched \in Nat
    BY <1>0, <1>2 DEF FirstUnfetched
  <2> SUFFICES ASSUME NEW i \in FirstUnfetched .. devTail
               PROVE  i < Len(posted') /\ ring[i % RingSlots] = << posted'[i + 1] >>
    BY <1>0, <1>1, <2>1 DEF RingIntact
  <2>2. CASE i = devTail
    BY <1>0, <1>1, <1>5, <2>2 DEF SInv, SubmitInv, BellInv
  <2>3. CASE i # devTail
    <3>1. i \in FirstUnfetched .. devTail - 1 /\ i + 1 \in 1 .. devTail
      BY <1>0, <2>1, <2>3
    <3>2. ring[i % RingSlots] = << posted[i + 1] >>
      BY <3>1 DEF SInv, SubmitInv, RingIntact
    <3>3. i < Len(posted') /\ posted'[i + 1] = posted[i + 1]
      BY <1>0, <1>5, <2>1, <3>1
    <3> QED BY <3>2, <3>3
  <2> QED BY <2>2, <2>3
<1> QED BY <1>6, <1>7, <1>8, <1>9, <1>10, <1>11, <1>12, <1>13 DEF SubmitInv

\* Seen modulo 2^32, the seqnum can only look smaller than it is.
LEMMA SeenSeqnum ==
  ASSUME HInv
  PROVE  seqnum % SeqMod \in Nat /\ seqnum % SeqMod <= seqnum
<1>1. SeqMod \in Nat /\ SeqMod > 0 /\ seqnum \in Nat
  BY SubmitAssumption, Numbers
<1>2. PICK q \in Int, r \in 0 .. SeqMod - 1 : seqnum = q * SeqMod + r /\ r = seqnum % SeqMod
  BY <1>1, DivMod
<1>3. q < 0 => q * SeqMod <= -SeqMod
  BY <1>1
<1>4. q >= 0 => q * SeqMod >= 0
  BY <1>1
<1>5. q * SeqMod \in Int
  BY <1>1
<1> HIDE DEF HInv
<1> QED BY <1>1, <1>2, <1>3, <1>4, <1>5

\* The calls of a worker that opens no batch.
LEMMA UnbatchedCalls ==
  ASSUME SInv, NEW t \in Threads, pc[t] # "idle"
  PROVE  /\ Head(todo[t]).call \notin {"begin", "end"}
         /\ todo[t] \in Seq(Unbatched) /\ Tail(todo[t]) \in Seq(Unbatched)
<1>1. todo[t] \in Seq(Unbatched) /\ todo[t] # << >>
  BY DEF SInv, HInv, ThreadType, SubmitInv, LockInv
<1>2. Head(todo[t]) \in Unbatched /\ Tail(todo[t]) \in Seq(Unbatched)
  BY <1>1
<1> QED BY <1>1, <1>2 DEF Unbatched

\* drain_cout opens no batch.
LEMMA DrainUnbatched ==
  ASSUME NEW t \in Threads
  PROVE  DrainCalls(t) \in Seq(Unbatched)
<1> DEFINE d == DrainCmds[t]
<1>1. d \in Seq(Submittable)
  BY SubmitAssumption
<1>2. \A c \in Submittable : Submit(c) \in Unbatched
  BY DEF Submit, Call, Unbatched
<1> HIDE DEF d
<1>3. [i \in 1 .. Len(d) |-> Submit(d[i])] \in Seq(Unbatched)
  <2>1. Len(d) \in Nat /\ \A i \in 1 .. Len(d) : d[i] \in Submittable
    BY <1>1
  <2>2. [i \in 1 .. Len(d) |-> Submit(d[i])] \in [1 .. Len(d) -> Unbatched]
    BY <2>1, <1>2
  <2> QED BY <2>1, <2>2
<1> QED BY <1>3 DEF DrainCalls, Submits, d

\* No step of a worker disturbs the submission invariant.
LEMMA WorkerSubmit ==
  ASSUME Calm, SInv, HInv', NEW t \in Threads, Worker(t)
  PROVE  SubmitInv'
<1>0. /\ pc \in [Threads -> PcStates] /\ todo \in [Threads -> Seq(Call)]
      /\ inBatch = FALSE /\ RegFaults = FALSE /\ pc[t] \notin {"copy", "bump"}
  BY DEF SInv, HInv, ThreadType, SubmitInv, LockInv, Calm
<1>1. CASE StartOp(t)
  <2>1. PICK o \in OpsOf[t] : todo' = [todo EXCEPT ![t] = o]
    BY <1>1 DEF StartOp
  <2>2. o \in Seq(Unbatched)
    BY DEF Calm, NoBatches
  <2> QED BY <1>1, <2>1, <2>2, PrivateStep DEF StartOp
<1>2. CASE CheckBatch(t)
  <2>1. todo' = [todo EXCEPT ![t] = todo[t]] /\ todo[t] \in Seq(Unbatched)
    BY <1>0, <1>2, UnbatchedCalls DEF CheckBatch, Calling
  <2>2. pc' = [pc EXCEPT ![t] = "lock"]
    BY <1>0, <1>2 DEF CheckBatch
  <2> QED BY <1>2, <2>1, <2>2, PrivateStep DEF CheckBatch, Calling
<1>3. CASE LockAndCopy(t)
  BY <1>3, LockAndCopyStep
<1>4. CASE Doorbell(t)
  BY <1>4, DoorbellStep
<1>5. CASE CopyInBatch(t) \/ BumpInBatch(t)
  BY <1>0, <1>5 DEF CopyInBatch, BumpInBatch
<1>6. CASE BeginBatch(t) \/ EndBatch(t)
  BY <1>6, UnbatchedCalls DEF BeginBatch, EndBatch, Calling
<1>7. CASE DoorbellFault(t) \/ EndBatchFault(t) \/ PollFault(t) \/ FetchRspFault(t)
  BY <1>0, <1>7 DEF DoorbellFault, EndBatchFault, PollFault, FetchRspFault
<1> DEFINE p == IF Tail(todo[t]) = << >> THEN "idle" ELSE "call"
<1>8. Return(t) => pc' = [pc EXCEPT ![t] = p] /\ todo' = [todo EXCEPT ![t] = Tail(todo[t])]
  BY <1>0 DEF Return
<1>9. p \in {"idle", "call", "lock"}
  OBVIOUS
<1> HIDE DEF p
<1>10. CASE Poll(t)
  <2>1. target[t] <= seqnum
    <3>1. seqnum % SeqMod >= target[t] /\ target[t] \in Nat /\ seqnum \in Nat
      BY <1>10, Numbers DEF Poll, SInv
    <3>2. seqnum % SeqMod \in Nat /\ seqnum % SeqMod <= seqnum
      BY SeenSeqnum DEF SInv
    <3> QED BY <3>1, <3>2
  <2>2. Tail(todo[t]) \in Seq(Unbatched) /\ Return(t)
    BY <1>10, UnbatchedCalls DEF Poll
  <2> QED BY <1>8, <1>9, <1>10, <2>1, <2>2, PrivateStep DEF Poll
<1>11. CASE Drain(t)
  <2> DEFINE s == DrainCalls(t) \o Tail(todo[t])
             q == IF s = << >> THEN "idle" ELSE "call"
  <2>1. s \in Seq(Unbatched)
    BY <1>11, DrainUnbatched, UnbatchedCalls DEF Drain, Calling
  <2>2. pc' = [pc EXCEPT ![t] = q] /\ todo' = [todo EXCEPT ![t] = s]
    BY <1>0, <1>11 DEF Drain
  <2>3. q \in {"idle", "call", "lock"}
    OBVIOUS
  <2> HIDE DEF s, q
  <2> QED BY <1>11, <2>1, <2>2, <2>3, PrivateStep DEF Drain, Calling
<1>12. CASE FetchRsp(t)
  <2>1. Tail(todo[t]) \in Seq(Unbatched) /\ Return(t)
    BY <1>12, UnbatchedCalls DEF FetchRsp, Calling
  <2> QED BY <1>8, <1>9, <1>12, <2>1, PrivateStep DEF FetchRsp, Calling
<1> QED
  BY <1>1, <1>2, <1>3, <1>4, <1>5, <1>6, <1>7, <1>10, <1>11, <1>12 DEF Worker, WorkerStep, RegisterFault

\* The state cp_init leaves satisfies the submission invariant.
LEMMA SubmitInitInv == Init => SubmitInv
<1> SUFFICES ASSUME Init PROVE SubmitInv
  OBVIOUS
<1>1. CallInv /\ OwnInv /\ BellInv
  BY DEF Init, CpInit, CallInv, OwnInv, BellInv
<1>2. LockInv
  <2>1. << >> \in Seq(Unbatched)
    OBVIOUS
  <2> QED BY <2>1, SubmitAssumption DEF Init, LockInv
<1>3. CountInv /\ LineInv
  <2>1. posted = << >> /\ << >> \in Seq(Submittable) /\ Len(posted) = 0
    BY DEF Init, CpInit
  <2> QED BY <2>1 DEF Init, CpInit, CountInv, LineInv
<1>4. WaiterInv /\ RingIntact
  BY DEF Init, CpInit, WaiterInv, RingIntact, FirstUnfetched
<1> QED BY <1>1, <1>2, <1>3, <1>4 DEF SubmitInv

\* Without batches and register faults, and with at most one worker per line of
\* the ring, every command on the ring and not yet retired has one worker that
\* polls for it, and what the CP holds is what was appended.
THEOREM SubmitInvariant == ASSUME Calm PROVE Spec => []SubmitInv
<1>1. Init => SInv
  BY SubmitInitType, SubmitInitInv DEF SInv
<1>2. SInv /\ [Next]_vars => SInv'
  <2> SUFFICES ASSUME SInv, [Next]_vars PROVE SInv'
    OBVIOUS
  <2>1. HInv'
    BY NextType DEF SInv
  <2>2. CASE Device
    BY <2>1, <2>2, DeviceSubmit DEF SInv
  <2>3. CASE \E t \in Threads : Worker(t)
    BY <2>1, <2>3, WorkerSubmit DEF SInv
  <2>4. CASE UNCHANGED vars
    <3>1. SubmitInv'
      BY <2>4, QuietStep DEF vars, cpVars, engVars, hostVars
    <3> QED BY <2>1, <3>1 DEF SInv
  <2> QED BY <2>2, <2>3, <2>4 DEF Next
<1>3. SInv => SubmitInv
  BY DEF SInv
<1> QED BY <1>1, <1>2, <1>3, PTL DEF Spec

\* cp_ring_append_ never overwrites a line the CP has not fetched, though it does
\* not look at head: the waiting workers are the flow control.
THEOREM NoOverwrite == ASSUME Calm PROVE Spec => []RingIntact
<1>1. SubmitInv => RingIntact
  BY DEF SubmitInv
<1> QED BY <1>1, SubmitInvariant, PTL

\* The command in the engine is the next one appended, so seqnum counts exactly
\* the commands the workers take it to count.
THEOREM ExecutesInOrder == ASSUME Calm PROVE Spec => []InOrder
<1>1. HInv /\ SubmitInv => InOrder
  BY Numbers DEF SubmitInv, LineInv, CountInv, InOrder
<1> QED BY <1>1, SubmitTypeInvariant, SubmitInvariant, PTL

\* Whenever a worker is back from cp_submit_cl_, its command has retired: the
\* seqnum it reserved is the seqnum its command gets.
THEOREM SubmitIsSynchronous == ASSUME Calm PROVE Spec => []Synchronous
<1>1. SubmitInv => Synchronous
  BY DEF SubmitInv, OwnInv, Synchronous, Returned
<1> QED BY <1>1, SubmitInvariant, PTL

----------------------------------------------------------------------------
(* What the operations of queue.cpp promise when they return, caches       *)
(* written back and responses their own, from the shape of their calls.    *)

\* A polling worker waits for the command it has in hand.
PollInv ==
  \A t \in Threads : pc[t] = "poll" =>
    /\ target[t] \in 1 .. Len(posted) /\ Head(todo[t]).call = "submit"
    /\ posted[target[t]] = Head(todo[t]).cmd

\* The engine is at the command t polls for.
InEngine(t) == eng # "Idle" /\ pc[t] = "poll" /\ target[t] = seqnum + 1

TodoInv == \A t \in Threads : Regular(t, todo[t])

\* What the engine waits for is a kernel.
KernelInv ==
  /\ eng = "WaitDone" => cur.op \in LaunchOps
  /\ eng = "DrawLaunchWait" =>
       drawStep < Len(DrawSteps(cur)) /\ DrawSteps(cur)[drawStep + 1].op \in LaunchOps

\* No cache holds writes of a kernel of t.
Clean(t) == \A d \in dirty : d[2] # t

\* The flush that makes t clean is still to come: it is the call t is about to make, it
\* follows the launch t polls for, it is on the ring and has not taken effect, or it is
\* the next step of the draw in the engine.
Ahead(t) ==
  /\ pc[t] \in {"call", "lock", "bell"}
  /\ Head(todo[t]).call = "submit" /\ FullFlush(Head(todo[t]).cmd)
AtLaunch(t) == pc[t] = "poll" /\ Head(todo[t]).cmd.op \in LaunchOps
Flushing(t) ==
  /\ pc[t] = "poll" /\ FullFlush(Head(todo[t]).cmd) /\ seqnum < target[t]
  /\ InEngine(t) => eng # "Retire"
Drawing(t) ==
  /\ InEngine(t)
  /\ \/ eng = "DrawLaunchWait"
     \/ /\ eng = "DrawStep" /\ drawStep < Len(DrawSteps(cur))
        /\ FullFlush(DrawSteps(cur)[drawStep + 1])

Owed(t) == Ahead(t) \/ AtLaunch(t) \/ Flushing(t) \/ Drawing(t)
FlushInv == \A t \in Threads : Clean(t) \/ Owed(t)

AnswerInv == PollInv /\ TodoInv /\ KernelInv /\ FlushInv
AInv == SInv /\ AnswerInv

\* The last call of a sequence made, the rest is as regular as the whole was.
LEMMA RegularTail ==
  ASSUME NEW t, NEW s \in Seq(Call), s # << >>, Regular(t, s)
  PROVE  Regular(t, Tail(s))
<1> DEFINE r == Tail(s)
<1>1. /\ r \in Seq(Call) /\ Len(r) = Len(s) - 1 /\ Len(s) \in Nat
      /\ \A i \in 1 .. Len(r) : r[i] = s[i + 1]
  OBVIOUS
<1>2. DOMAIN r = 1 .. Len(r) /\ DOMAIN s = 1 .. Len(s)
  BY <1>1
<1> HIDE DEF r
<1> SUFFICES ASSUME NEW i \in 1 .. Len(r)
             PROVE  /\ r[i].call = "submit" => r[i].cmd.own = t
                    /\ Sends(r[i], LaunchOps) =>
                         i < Len(r) /\ r[i + 1].call = "submit" /\ FullFlush(r[i + 1].cmd)
                    /\ Sends(r[i], {"DRAW"}) => WellDrawn(r[i].cmd)
                    /\ r[i].call = "rsp" /\ i > 1 => Sends(r[i - 1], {"DCR_READ"})
  BY <1>2 DEF Regular, r
<1>3. i + 1 \in 1 .. Len(s) /\ i \in Nat /\ r[i] = s[i + 1]
  BY <1>1
<1>4. /\ s[i + 1].call = "submit" => s[i + 1].cmd.own = t
      /\ Sends(s[i + 1], LaunchOps) =>
           i + 1 < Len(s) /\ s[i + 1 + 1].call = "submit" /\ FullFlush(s[i + 1 + 1].cmd)
      /\ Sends(s[i + 1], {"DRAW"}) => WellDrawn(s[i + 1].cmd)
      /\ s[i + 1].call = "rsp" /\ i + 1 > 1 => Sends(s[i + 1 - 1], {"DCR_READ"})
  BY <1>2, <1>3 DEF Regular
<1>5. i + 1 < Len(s) => i + 1 \in 1 .. Len(r) /\ r[i + 1] = s[i + 1 + 1]
  BY <1>1, <1>3
<1>6. i > 1 => i - 1 \in 1 .. Len(r) /\ r[i - 1] = s[i + 1 - 1]
  BY <1>1, <1>3
<1>7. i + 1 < Len(s) => i < Len(r)
  BY <1>1, <1>3
<1>8. i > 1 => i + 1 > 1
  BY <1>3
<1> QED BY <1>3, <1>4, <1>5, <1>6, <1>7, <1>8

\* The commands of drain_cout, then the rest, in place of the drain call.
LEMMA RegularDrain ==
  ASSUME RegularOps, NEW t \in Threads, NEW s \in Seq(Call), s # << >>, Regular(t, s),
         s[1].call = "drain"
  PROVE  /\ Regular(t, DrainCalls(t) \o Tail(s))
         /\ DrainCalls(t) \o Tail(s) # << >> => (DrainCalls(t) \o Tail(s))[1].call # "rsp"
<1> DEFINE d == DrainCalls(t)
           r == Tail(s)
           w == d \o r
           n == Len(d)
<1>1. d \in Seq(Call) /\ r \in Seq(Call) /\ w \in Seq(Call) /\ n \in Nat
  <2>1. d \in Seq(Call)
    BY DrainCallsType
  <2> HIDE DEF d
  <2> QED BY <2>1
<1>2. Regular(t, r)
  BY RegularTail
<1>3. \A i \in 1 .. n : /\ d[i].call = "submit" /\ d[i].cmd.own = t
                        /\ d[i].cmd.op \notin LaunchOps \cup {"DRAW", "DCR_READ"}
  <2> DEFINE c == DrainCmds[t]
  <2>1. c \in Seq(Submittable)
    BY SubmitAssumption
  <2>2. \A i \in DOMAIN c : c[i].own = t /\ c[i].op \notin LaunchOps \cup {"DRAW", "DCR_READ"}
    BY DEF RegularOps
  <2> HIDE DEF c
  <2>3. d = [i \in 1 .. Len(c) |-> Submit(c[i])] /\ Len(c) \in Nat /\ DOMAIN c = 1 .. Len(c)
    BY <2>1 DEF DrainCalls, Submits, c
  <2>4. DOMAIN d = 1 .. Len(c)
    BY <2>3
  <2>5. DOMAIN d = 1 .. n
    BY <1>1
  <2> HIDE DEF d, n
  <2>6. ASSUME NEW i \in 1 .. n PROVE d[i] = Submit(c[i]) /\ i \in DOMAIN c
    BY <2>3, <2>4, <2>5
  <2>7. ASSUME NEW i \in 1 .. n
        PROVE  /\ d[i].call = "submit" /\ d[i].cmd.own = t
               /\ d[i].cmd.op \notin LaunchOps \cup {"DRAW", "DCR_READ"}
    <3>1. d[i] = Submit(c[i]) /\ i \in DOMAIN c
      BY <2>6
    <3>2. d[i].call = "submit" /\ d[i].cmd = c[i]
      BY <3>1 DEF Submit
    <3> QED BY <2>2, <3>1, <3>2
  <2> QED BY <2>7
<1>4. r # << >> => r[1].call # "rsp"
  <2>1. r # << >> => 2 \in 1 .. Len(s) /\ r[1] = s[2] /\ DOMAIN s = 1 .. Len(s)
    OBVIOUS
  <2>2. r # << >> /\ s[2].call = "rsp" => Sends(s[2 - 1], {"DCR_READ"})
    BY <2>1 DEF Regular
  <2> QED BY <2>1, <2>2 DEF Sends
<1> HIDE DEF d, r, n
<1>5. /\ Len(w) = n + Len(r) /\ Len(r) \in Nat /\ DOMAIN w = 1 .. n + Len(r)
      /\ \A i \in 1 .. n : w[i] = d[i]
      /\ \A i \in n + 1 .. n + Len(r) : w[i] = r[i - n]
  BY <1>1 DEF n
<1> HIDE DEF w
<1>6. w # << >> => w[1].call # "rsp"
  <2>1. w # << >> => Len(w) > 0
    BY <1>1
  <2>2. CASE n > 0
    BY <1>1, <1>3, <1>5, <2>2
  <2>3. CASE n = 0 /\ w # << >>
    <3>1. w[1] = r[1] /\ Len(r) > 0
      BY <1>5, <2>1, <2>3
    <3>2. r # << >>
      BY <1>1, <3>1
    <3> QED BY <1>4, <3>1, <3>2
  <2> QED BY <1>1, <2>2, <2>3
<1>7. Regular(t, w)
  <2> SUFFICES ASSUME NEW i \in 1 .. n + Len(r)
               PROVE  /\ w[i].call = "submit" => w[i].cmd.own = t
                      /\ Sends(w[i], LaunchOps) =>
                           i < Len(w) /\ w[i + 1].call = "submit" /\ FullFlush(w[i + 1].cmd)
                      /\ Sends(w[i], {"DRAW"}) => WellDrawn(w[i].cmd)
                      /\ w[i].call = "rsp" /\ i > 1 => Sends(w[i - 1], {"DCR_READ"})
    BY <1>5 DEF Regular
  <2>1. CASE i <= n
    <3>1. /\ w[i].call = "submit" /\ w[i].cmd.own = t
          /\ w[i].cmd.op \notin LaunchOps \cup {"DRAW", "DCR_READ"}
      BY <1>1, <1>3, <1>5, <2>1
    <3> QED BY <3>1 DEF Sends
  <2>2. CASE i > n
    <3> DEFINE j == i - n
    <3>1. j \in 1 .. Len(r) /\ w[i] = r[j] /\ DOMAIN r = 1 .. Len(r)
      <4>1. i \in n + 1 .. n + Len(r) /\ j \in 1 .. Len(r)
        BY <1>1, <1>5, <2>2
      <4>2. DOMAIN r = 1 .. Len(r)
        BY <1>1
      <4> QED BY <1>5, <4>1, <4>2
    <3>2. j < Len(r) => w[i + 1] = r[j + 1] /\ i < Len(w)
      BY <1>1, <1>5, <2>2
    <3>3. j > 1 => w[i - 1] = r[j - 1]
      BY <1>1, <1>5, <2>2
    <3>4. j = 1 => w[i].call # "rsp"
      <4>1. Len(r) > 0 => r # << >>
        BY <1>1
      <4> QED BY <1>4, <1>5, <3>1, <4>1
    <3>5. j \in Nat /\ j >= 1
      BY <3>1, <1>5
    <3> HIDE DEF j
    <3>6. /\ r[j].call = "submit" => r[j].cmd.own = t
          /\ Sends(r[j], LaunchOps) =>
               j < Len(r) /\ r[j + 1].call = "submit" /\ FullFlush(r[j + 1].cmd)
          /\ Sends(r[j], {"DRAW"}) => WellDrawn(r[j].cmd)
          /\ r[j].call = "rsp" /\ j > 1 => Sends(r[j - 1], {"DCR_READ"})
      BY <1>2, <3>1 DEF Regular
    <3>7. j = 1 \/ j > 1
      BY <3>5
    <3> QED BY <3>1, <3>2, <3>3, <3>4, <3>6, <3>7
  <2> QED BY <1>1, <2>1, <2>2
<1> QED BY <1>6, <1>7 DEF w, d, r
\* The first call of a worker that has one.
LEMMA FirstCall ==
  ASSUME AInv, NEW t \in Threads, pc[t] # "idle"
  PROVE  /\ todo[t] \in Seq(Call) /\ todo[t] # << >> /\ 1 \in DOMAIN todo[t]
         /\ Head(todo[t]) = todo[t][1] /\ Regular(t, todo[t])
<1>1. todo[t] \in Seq(Call) /\ todo[t] # << >>
  BY CallInHand DEF AInv, SInv, HInv
<1>2. 1 \in DOMAIN todo[t] /\ Head(todo[t]) = todo[t][1]
  BY <1>1
<1>3. Regular(t, todo[t])
  BY DEF AInv, AnswerInv, TodoInv
<1> QED BY <1>1, <1>2, <1>3

\* The command in the engine is the one its worker polls for, and its own.
LEMMA EngineCmd ==
  ASSUME AInv, NEW t \in Threads, InEngine(t)
  PROVE  /\ cur = Head(todo[t]).cmd /\ cur.own = t
         /\ Head(todo[t]).call = "submit"
         /\ cur.op = "DRAW" => WellDrawn(cur)
<1>1. seqnum \in Nat /\ head \in Nat /\ slot \in Nat
  BY Numbers DEF AInv, SInv
<1>2. eng # "Idle" /\ pc[t] = "poll" /\ target[t] = seqnum + 1
  BY DEF InEngine
<1>3. cur = posted[head + 1] /\ clLoaded /\ slot = 0 /\ seqnum = head + slot
  BY <1>2 DEF AInv, SInv, SubmitInv, LineInv
<1>4. seqnum = head
  BY <1>1, <1>3
<1>5. posted[target[t]] = Head(todo[t]).cmd /\ Head(todo[t]).call = "submit"
  BY <1>2 DEF AInv, AnswerInv, PollInv
<1>6. cur = Head(todo[t]).cmd
  BY <1>2, <1>3, <1>4, <1>5
<1>7. 1 \in DOMAIN todo[t] /\ Head(todo[t]) = todo[t][1] /\ Regular(t, todo[t])
  BY <1>2, FirstCall
<1>8. /\ todo[t][1].cmd.own = t
      /\ Sends(todo[t][1], {"DRAW"}) => WellDrawn(todo[t][1].cmd)
  BY <1>5, <1>7 DEF Regular
<1>9. cur.own = t
  BY <1>6, <1>7, <1>8
<1>10. cur.op = "DRAW" => WellDrawn(cur)
  BY <1>5, <1>6, <1>7, <1>8 DEF Sends
<1> QED BY <1>5, <1>6, <1>9, <1>10

\* Whenever the engine is busy, the owner of its command polls for it.
LEMMA OwnerWaits ==
  ASSUME AInv, eng # "Idle"
  PROVE  cur.own \in Threads /\ InEngine(cur.own)
<1>1. seqnum \in Nat /\ head \in Nat /\ slot \in Nat /\ devTail \in Nat /\ tail \in Nat
  BY Numbers DEF AInv, SInv
<1>2. slot = 0 /\ clLoaded /\ head < tail /\ seqnum = head + slot /\ tail = devTail
  BY DEF AInv, SInv, SubmitInv, LineInv, CountInv
<1>3. seqnum + 1 \in seqnum + 1 .. devTail
  BY <1>1, <1>2
<1>4. PICK t \in Threads : pc[t] = "poll" /\ target[t] = seqnum + 1
  BY <1>3 DEF AInv, SInv, SubmitInv, WaiterInv
<1>5. InEngine(t)
  BY <1>4 DEF InEngine
<1> QED BY <1>5, EngineCmd

\* A full flush leaves no cache dirty.
LEMMA FlushCleans ==
  ASSUME AInv, NEW c \in Cmd, FullFlush(c), InlineEffect(c)
  PROVE  \A t \in Threads : Clean(t)'
<1>1. c.op = "CACHE_FLUSH" /\ \A k \in Cores : k < c.arg0
  BY DEF FullFlush
<1>2. c.arg0 \in Nat /\ Cores \subseteq Nat
  BY <1>1, CpAssumption DEF CmdOK
<1>3. dirty' = {d \in dirty : d[1] >= c.arg0}
  BY <1>1 DEF InlineEffect
<1>4. dirty \subseteq Cores \X Owners
  BY DEF AInv, SInv, HInv, CpInv, CpTypeOK
<1>5. \A d \in dirty : d[1] \in Cores
  BY <1>4
<1>6. ASSUME NEW d \in dirty PROVE ~(d[1] >= c.arg0)
  <2>1. d[1] \in Nat /\ d[1] < c.arg0
    BY <1>1, <1>2, <1>5
  <2> QED BY <1>2, <2>1
<1>7. dirty' = {}
  BY <1>3, <1>6
<1> QED BY <1>7 DEF Clean

\* A step of the engine that retires nothing and dirties nothing: what is owed stays
\* owed, unless the flush retires without taking effect, which it does not.
LEMMA StillOwed ==
  ASSUME AInv, UNCHANGED <<seqnum, thrVars>>, dirty' \subseteq dirty, NEW t \in Threads,
         eng' = "Retire" /\ InEngine(t) => ~FullFlush(Head(todo[t]).cmd),
         eng = "Idle" => eng' # "Retire",
         Drawing(t) => Drawing(t)'
  PROVE  Clean(t)' \/ Owed(t)'
<1>0. pc' = pc /\ todo' = todo /\ target' = target
  BY DEF thrVars
<1>1. CASE Clean(t)
  BY <1>1 DEF Clean
<1>2. CASE Ahead(t)
  BY <1>0, <1>2 DEF Ahead, FullFlush, Owed
<1>3. CASE AtLaunch(t)
  BY <1>0, <1>3 DEF AtLaunch, Owed
<1>4. CASE Flushing(t)
  <2>1. FullFlush(Head(todo[t]).cmd)' <=> FullFlush(Head(todo[t]).cmd)
    BY <1>0 DEF FullFlush
  <2>2. InEngine(t)' => eng' # "Retire"
    <3>1. ASSUME InEngine(t)', eng' = "Retire" PROVE FALSE
      <4>1. InEngine(t)
        BY <1>0, <3>1 DEF InEngine
      <4> QED BY <1>4, <3>1, <4>1 DEF Flushing
    <3> QED BY <3>1
  <2> QED BY <1>0, <1>4, <2>1, <2>2 DEF Flushing, Owed
<1>5. CASE Drawing(t)
  BY <1>5 DEF Owed
<1> QED BY <1>1, <1>2, <1>3, <1>4, <1>5 DEF AInv, AnswerInv, FlushInv, Owed

\* The parts that speak of workers and the ring alone.
LEMMA SameWorkers ==
  ASSUME AInv, UNCHANGED <<posted, thrVars>>
  PROVE  PollInv' /\ TodoInv'
<1>0. pc' = pc /\ todo' = todo /\ target' = target /\ posted' = posted
  BY DEF thrVars
<1> QED BY <1>0 DEF AInv, AnswerInv, PollInv, TodoInv
\* The engine waits for kernels only.
LEMMA TickKernel ==
  ASSUME AInv, Tick
  PROVE  KernelInv'
<1>0. KernelInv /\ drawStep \in Nat
  BY DEF AInv, SInv, HInv, CpInv, CpTypeOK, AnswerInv
<1>1. CASE EngFetch \/ EngNext
  BY <1>1 DEF EngFetch, EngNext, LoadNextCmd, KernelInv
<1>2. CASE BidLaunch
  BY <1>2 DEF BidLaunch, Move, KernelInv
<1>3. CASE EngDecode \/ BidDraw \/ BidInline \/ BidEventSig \/ BidEventWait \/ BidMem
  BY <1>3 DEF EngDecode, BidDraw, BidInline, BidEventSig, BidEventWait, BidMem, Move, KernelInv
<1>4. CASE EngWaitDone
  BY <1>0, <1>4 DEF EngWaitDone, Move, KernelInv
<1>5. CASE DrawEnd \/ DrawInline \/ EngRetire
  BY <1>5 DEF DrawEnd, DrawInline, EngRetire, Move, KernelInv
<1>6. CASE DrawLaunch
  <2>1. /\ eng' = "DrawLaunchWait" /\ UNCHANGED <<cur, drawStep>>
        /\ drawStep < Len(DrawSteps(cur)) /\ DrawSteps(cur)[drawStep + 1].op \in LaunchOps
    BY <1>6 DEF DrawLaunch, Move
  <2> QED BY <2>1 DEF KernelInv
<1>7. CASE EngDrawLaunchWait
  <2>1. /\ eng = "DrawLaunchWait" /\ UNCHANGED cur
        /\ eng' = "DrawStep" \/ (eng' = "DrawLaunchWait" /\ drawStep' = drawStep)
    BY <1>7 DEF EngDrawLaunchWait, Move
  <2> QED BY <1>0, <2>1 DEF KernelInv
<1> QED BY <1>1, <1>2, <1>3, <1>4, <1>5, <1>6, <1>7 DEF Tick

\* No step of the CP or the GPU disturbs the answer invariant: the engine waits for
\* kernels only, a kernel dirties the caches of the worker that waits for it, and a
\* flush sweeps them before it retires.
LEMMA TickAnswer ==
  ASSUME AInv, Tick, UNCHANGED <<devVars, thrVars>>
  PROVE  AnswerInv'
<1>0. /\ seqnum \in Nat /\ target \in [Threads -> Nat] /\ drawStep \in Nat /\ KernelInv /\ FsmInv
      /\ pc' = pc /\ todo' = todo /\ target' = target /\ eng \in EngStates
  BY Numbers DEF AInv, SInv, HInv, CpInv, CpTypeOK, AnswerInv, thrVars
<1>1. posted' = posted
  BY TickShape DEF AInv, SInv, HInv, hostVars, EngFetch, EngNext, EngRetire
<1>2. PollInv' /\ TodoInv'
  BY <1>1, SameWorkers
<1> SUFFICES ASSUME NEW t \in Threads PROVE Clean(t)' \/ Owed(t)'
  BY <1>2, TickKernel DEF AnswerInv, FlushInv
<1>3. CASE EngFetch \/ EngNext
  <2>1. eng = "Idle" /\ eng' \in {"Idle", "Decode"} /\ UNCHANGED <<seqnum, dirty>>
    BY <1>3 DEF EngFetch, EngNext, LoadNextCmd
  <2> QED BY <2>1, StillOwed DEF Drawing, InEngine
<1>4. CASE EngDecode
  <2>1. /\ eng = "Decode" /\ eng' = (IF cur.op \in NoResource THEN "Retire" ELSE "Bid")
        /\ UNCHANGED <<seqnum, dirty>>
    BY <1>4 DEF EngDecode, Move
  <2>3. eng' = "Retire" /\ InEngine(t) => ~FullFlush(Head(todo[t]).cmd)
    BY <2>1, EngineCmd DEF FullFlush, NoResource
  <2> QED BY <2>1, <2>3, StillOwed DEF Drawing
<1>5. CASE BidLaunch
  <2>1. /\ eng = "Bid" /\ eng' = "WaitDone" /\ cur' = cur /\ cur.op \in LaunchOps
        /\ UNCHANGED <<seqnum, dirty>>
    BY <1>5 DEF BidLaunch, Move
  <2> QED BY <2>1, StillOwed DEF Drawing
<1>6. CASE BidDraw
  <2>1. eng = "Bid" /\ eng' = "DrawStep" /\ UNCHANGED <<seqnum, dirty>>
    BY <1>6 DEF BidDraw, Move
  <2> QED BY <2>1, StillOwed DEF Drawing
<1>7. CASE BidInline
  <2>1. eng = "Bid" /\ eng' = "Retire" /\ UNCHANGED seqnum /\ InlineEffect(cur)
    BY <1>7 DEF BidInline, Move
  <2>2. dirty' \subseteq dirty
    BY <2>1 DEF InlineEffect
  <2>3. CASE FullFlush(cur)
    <3>1. cur \in Cmd
      BY <1>0, <2>1 DEF FsmInv
    <3> QED BY <2>1, <2>2, <2>3, <3>1, FlushCleans
  <2>4. CASE ~FullFlush(cur)
    <3>1. InEngine(t) => ~FullFlush(Head(todo[t]).cmd)
      BY <2>4, EngineCmd
    <3> QED BY <2>1, <2>2, <3>1, StillOwed DEF Drawing
  <2> QED BY <2>3, <2>4
<1>8. CASE BidEventSig \/ BidEventWait \/ BidMem
  <2>1. /\ eng = "Bid" /\ eng' = "Retire" /\ UNCHANGED <<seqnum, dirty>>
        /\ cur.op # "CACHE_FLUSH"
    BY <1>8 DEF BidEventSig, BidEventWait, BidMem, Move, MemOps
  <2>3. InEngine(t) => ~FullFlush(Head(todo[t]).cmd)
    BY <2>1, EngineCmd DEF FullFlush
  <2> QED BY <2>1, <2>3, StillOwed DEF Drawing
<1>9. CASE EngWaitDone
  <2>1. /\ eng = "WaitDone" /\ eng' \in {"WaitDone", "Retire"} /\ UNCHANGED <<seqnum, dirty, cur>>
    BY <1>9 DEF EngWaitDone, Move
  <2>2. cur.op \in LaunchOps
    BY <1>0, <2>1 DEF KernelInv
  <2>4. InEngine(t) => ~FullFlush(Head(todo[t]).cmd)
    BY <2>2, EngineCmd DEF FullFlush, LaunchOps
  <2> QED BY <2>1, <2>4, StillOwed DEF Drawing
<1>10. CASE DrawEnd
  <2>1. /\ eng = "DrawStep" /\ eng' = "Retire" /\ UNCHANGED <<seqnum, dirty>>
        /\ drawStep >= Len(DrawSteps(cur))
    BY <1>10 DEF DrawEnd, Move
  <2>3. cur \in Cmd /\ cur.op = "DRAW"
    BY <1>0, <2>1 DEF FsmInv
  <2>4. InEngine(t) => ~FullFlush(Head(todo[t]).cmd)
    BY <2>3, EngineCmd DEF FullFlush
  <2>5. Len(DrawSteps(cur)) \in Nat
    BY <2>3, DrawStepsType
  <2>6. ~Drawing(t)
    BY <1>0, <2>1, <2>5 DEF Drawing
  <2> QED BY <2>1, <2>4, <2>6, StillOwed
<1>11. CASE DrawInline
  <2> DEFINE c == DrawSteps(cur)[drawStep + 1]
  <2>1. /\ eng = "DrawStep" /\ eng' = "DrawStep" /\ UNCHANGED seqnum
        /\ drawStep < Len(DrawSteps(cur)) /\ InlineEffect(c)
    BY <1>11 DEF DrawInline, Move
  <2>2. cur \in Cmd /\ cur.op = "DRAW"
    BY <1>0, <2>1 DEF FsmInv
  <2>3. c \in Cmd
    <3>1. DrawSteps(cur) \in Seq(Cmd)
      BY <2>2, DrawStepsType
    <3> QED BY <1>0, <2>1, <3>1
  <2>4. dirty' \subseteq dirty
    BY <2>1 DEF InlineEffect
  <2>5. CASE FullFlush(c)
    BY <2>1, <2>3, <2>4, <2>5, FlushCleans
  <2>6. CASE ~FullFlush(c)
    <3>1. ~Drawing(t)
      BY <2>1, <2>6 DEF Drawing
    <3> QED BY <2>1, <2>4, <3>1, StillOwed
  <2> QED BY <2>5, <2>6
<1>12. CASE DrawLaunch
  <2>1. /\ eng = "DrawStep" /\ eng' = "DrawLaunchWait" /\ UNCHANGED <<seqnum, dirty, cur, drawStep>>
        /\ drawStep < Len(DrawSteps(cur)) /\ DrawSteps(cur)[drawStep + 1].op \in LaunchOps
    BY <1>12 DEF DrawLaunch, Move
  <2>3. Drawing(t) => Drawing(t)'
    BY <1>0, <2>1 DEF Drawing, InEngine
  <2> QED BY <2>1, <2>3, StillOwed
<1>13. CASE EngDrawLaunchWait
  <2>1. /\ eng = "DrawLaunchWait" /\ UNCHANGED <<seqnum, dirty, cur>>
        /\ \/ eng' = "DrawLaunchWait" /\ drawStep' = drawStep
           \/ eng' = "DrawStep" /\ drawStep' = drawStep + 1
    BY <1>13 DEF EngDrawLaunchWait, Move
  <2>2. /\ drawStep < Len(DrawSteps(cur)) /\ DrawSteps(cur)[drawStep + 1].op \in LaunchOps
        /\ cur \in Cmd /\ cur.op = "DRAW"
    BY <1>0, <2>1 DEF KernelInv, FsmInv
  <2>4. ASSUME Drawing(t) PROVE Drawing(t)'
    <3>1. InEngine(t) /\ InEngine(t)'
      BY <1>0, <2>1, <2>4 DEF Drawing, InEngine
    <3>2. WellDrawn(cur)
      BY <2>2, <3>1, EngineCmd
    <3>3. DrawSteps(cur) \in Seq(Cmd)
      BY <2>2, DrawStepsType
    <3>4. drawStep + 1 \in DOMAIN DrawSteps(cur)
      BY <1>0, <2>2, <3>3
    <3>5. drawStep + 1 < Len(DrawSteps(cur)) /\ FullFlush(DrawSteps(cur)[drawStep + 1 + 1])
      BY <2>2, <3>2, <3>4 DEF WellDrawn
    <3>6. CASE eng' = "DrawStep"
      <4>1. drawStep' = drawStep + 1 /\ DrawSteps(cur)' = DrawSteps(cur)
        BY <2>1, <3>6 DEF DrawSteps
      <4>2. FullFlush(DrawSteps(cur)[drawStep + 1])' <=> FullFlush(DrawSteps(cur)[drawStep + 1 + 1])
        BY <4>1 DEF FullFlush
      <4> QED BY <3>1, <3>5, <3>6, <4>1, <4>2 DEF Drawing
    <3>7. CASE eng' = "DrawLaunchWait"
      BY <3>1, <3>7 DEF Drawing
    <3> QED BY <2>1, <3>6, <3>7
  <2> QED BY <2>1, <2>4, StillOwed
<1>14. CASE EngRetire
  <2>1. eng = "Retire" /\ eng' = "Idle" /\ seqnum' = seqnum + 1 /\ dirty' = dirty
    BY <1>14 DEF EngRetire
  <2>3. CASE Clean(t)
    BY <2>1, <2>3 DEF Clean
  <2>4. CASE Ahead(t)
    BY <1>0, <2>4 DEF Ahead, FullFlush, Owed
  <2>5. CASE AtLaunch(t)
    BY <1>0, <2>5 DEF AtLaunch, Owed
  <2>6. CASE Flushing(t)
    <3>1. pc[t] = "poll" /\ seqnum < target[t] /\ target[t] # seqnum + 1
      BY <2>1, <2>6 DEF Flushing, InEngine
    <3>2. seqnum' < target'[t]
      BY <1>0, <2>1, <3>1
    <3>3. Flushing(t)'
      BY <1>0, <2>1, <2>6, <3>2 DEF Flushing, InEngine, FullFlush
    <3> QED BY <3>3 DEF Owed
  <2>7. CASE Drawing(t)
    BY <2>1, <2>7 DEF Drawing
  <2> QED BY <2>3, <2>4, <2>5, <2>6, <2>7 DEF AInv, AnswerInv, FlushInv, Owed
<1> QED
  BY <1>3, <1>4, <1>5, <1>6, <1>7, <1>8, <1>9, <1>10, <1>11, <1>12, <1>13, <1>14 DEF Tick

\* A kernel dirties the caches for the worker that waits for it, and for no other.
LEMMA VortexAnswer ==
  ASSUME AInv, VortexRise \/ VortexDone, UNCHANGED <<devVars, thrVars>>
  PROVE  AnswerInv'
<1>0. /\ KernelInv /\ FsmInv /\ pc' = pc /\ todo' = todo /\ target' = target
      /\ launch \in LaunchStates /\ gpu \in {"off", "starting", "busy"}
      /\ UNCHANGED <<posted, seqnum, eng, cur, drawStep>>
  BY DEF AInv, SInv, HInv, CpInv, CpTypeOK, AnswerInv, thrVars, VortexRise, VortexDone, hostVars,
         engVars
<1>1. PollInv' /\ TodoInv'
  BY <1>0, SameWorkers
<1>2. KernelInv'
  BY <1>0 DEF KernelInv
<1> SUFFICES ASSUME NEW t \in Threads PROVE Clean(t)' \/ Owed(t)'
  BY <1>1, <1>2 DEF AnswerInv, FlushInv
<1>3. Owed(t) => Owed(t)'
  BY <1>0 DEF Owed, Ahead, AtLaunch, Flushing, Drawing, InEngine, FullFlush, DrawSteps
<1>4. CASE VortexRise
  BY <1>3, <1>4 DEF VortexRise, Clean, AInv, AnswerInv, FlushInv
<1>5. CASE VortexDone
  <2>1. gpu = "busy" /\ dirty' = dirty \cup (Cores \X {cur.own})
    BY <1>5 DEF VortexDone
  <2>2. eng \in {"WaitDone", "DrawLaunchWait"}
    BY <1>0, <2>1 DEF FsmInv
  <2>3. CASE t # cur.own
    <3>1. Clean(t) => Clean(t)'
      BY <2>1, <2>3 DEF Clean
    <3> QED BY <1>3, <3>1 DEF AInv, AnswerInv, FlushInv
  <2>4. CASE t = cur.own
    <3>1. InEngine(t)
      BY <2>2, <2>4, OwnerWaits
    <3>2. CASE eng = "WaitDone"
      <4>1. Head(todo[t]).cmd.op \in LaunchOps
        BY <1>0, <3>1, <3>2, EngineCmd DEF KernelInv
      <4> QED BY <1>0, <3>1, <4>1 DEF InEngine, AtLaunch, Owed
    <3>3. CASE eng = "DrawLaunchWait"
      BY <1>0, <3>1, <3>3 DEF InEngine, Drawing, Owed
    <3> QED BY <2>2, <3>2, <3>3
  <2> QED BY <2>3, <2>4
<1> QED BY <1>4, <1>5
\* A worker moves on without ringing the doorbell, clean or with the flush in hand.
LEMMA MoveAnswer ==
  ASSUME AInv, NEW t \in Threads, NEW p \in {"idle", "call", "lock", "bell"}, NEW s \in Seq(Call),
         pc' = [pc EXCEPT ![t] = p], todo' = [todo EXCEPT ![t] = s],
         UNCHANGED <<seqnum, engVars, dirty, target, posted>>,
         Regular(t, s),
         \/ Clean(t)
         \/ p # "idle" /\ Head(s).call = "submit" /\ FullFlush(Head(s).cmd)
  PROVE  AnswerInv'
<1>0. /\ pc \in [Threads -> PcStates] /\ todo \in [Threads -> Seq(Call)]
      /\ UNCHANGED <<eng, cur, drawStep>>
  BY DEF AInv, SInv, HInv, ThreadType, engVars
<1>1. /\ \A u \in Threads \ {t} : pc'[u] = pc[u] /\ todo'[u] = todo[u]
      /\ pc'[t] = p /\ todo'[t] = s
  BY <1>0
<1>2. PollInv'
  BY <1>1 DEF AInv, AnswerInv, PollInv
<1>3. TodoInv'
  <2> SUFFICES ASSUME NEW u \in Threads PROVE Regular(u, todo'[u])
    BY DEF TodoInv, Regular
  <2> QED BY <1>1 DEF AInv, AnswerInv, TodoInv
<1>4. KernelInv'
  BY <1>0 DEF AInv, AnswerInv, KernelInv, DrawSteps
<1>5. ASSUME NEW u \in Threads PROVE Clean(u)' \/ Owed(u)'
  <2>1. Clean(u)' <=> Clean(u)
    BY DEF Clean
  <2>2. CASE u = t
    <3>1. Clean(t) \/ Ahead(t)'
      BY <1>1 DEF Ahead, FullFlush
    <3> QED BY <2>1, <2>2, <3>1 DEF Owed
  <2>3. CASE u # t
    <3>1. pc'[u] = pc[u] /\ todo'[u] = todo[u]
      BY <1>1, <2>3
    <3>2. Owed(u) => Owed(u)'
      BY <1>0, <3>1 DEF Owed, Ahead, AtLaunch, Flushing, Drawing, InEngine, FullFlush, DrawSteps
    <3> QED BY <2>1, <3>2 DEF AInv, AnswerInv, FlushInv
  <2> QED BY <2>2, <2>3
<1> QED BY <1>2, <1>3, <1>4, <1>5 DEF AnswerInv, FlushInv

\* A worker that is not polling is clean, or has the flush in hand.
LEMMA NotPolling ==
  ASSUME AInv, NEW t \in Threads, pc[t] # "poll"
  PROVE  Clean(t) \/ Ahead(t)
BY DEF AInv, AnswerInv, FlushInv, Owed, AtLaunch, Flushing, Drawing, InEngine

\* The command just appended is behind everything the engine has taken.
LEMMA NewTarget ==
  ASSUME AInv, NEW t \in Threads, Doorbell(t)
  PROVE  /\ target'[t] = Len(posted) + 1 /\ seqnum < target'[t] /\ ~InEngine(t)'
         /\ pc' = [pc EXCEPT ![t] = "poll"] /\ pc[t] = "bell"
         /\ \A u \in Threads \ {t} : target'[u] = target[u]
         /\ posted' = Append(posted, Head(todo[t]).cmd) /\ todo' = todo
         /\ UNCHANGED <<seqnum, eng, cur, drawStep, dirty, lastRsp, rsp>>
<1>0. /\ seqnum \in Nat /\ devTail \in Nat /\ head \in Nat /\ tail \in Nat /\ slot \in Nat
      /\ target \in [Threads -> Nat] /\ Len(posted) \in Nat
  BY Numbers DEF AInv, SInv
<1>1. devTail = Len(posted) /\ expected = devTail /\ tail = devTail
  BY DEF AInv, SInv, SubmitInv, CountInv
<1>2. /\ seqnum <= devTail
      /\ eng # "Idle" => seqnum < devTail
  BY <1>0, <1>1 DEF AInv, SInv, SubmitInv, LineInv
<1>3. /\ pc' = [pc EXCEPT ![t] = "poll"] /\ pc[t] = "bell"
      /\ posted' = Append(posted, Head(todo[t]).cmd) /\ todo' = todo
      /\ target' = [target EXCEPT ![t] = expected + 1]
      /\ UNCHANGED <<seqnum, eng, cur, drawStep, dirty, lastRsp, rsp>>
  BY DEF Doorbell, BumpTail, cpOnly, engVars, archVars
<1>4. target'[t] = Len(posted) + 1 /\ \A u \in Threads \ {t} : target'[u] = target[u]
  BY <1>0, <1>1, <1>3
<1>5. seqnum < target'[t]
  BY <1>0, <1>1, <1>2, <1>4
<1>6. ~InEngine(t)'
  <2>1. eng # "Idle" => target'[t] # seqnum + 1
    BY <1>0, <1>1, <1>2, <1>4
  <2> QED BY <1>3, <2>1 DEF InEngine
<1> QED BY <1>3, <1>4, <1>5, <1>6

\* The doorbell puts the flush the worker had in hand on the ring.
LEMMA DoorbellAnswer ==
  ASSUME AInv, NEW t \in Threads, Doorbell(t)
  PROVE  AnswerInv'
<1>0. pc \in [Threads -> PcStates] /\ posted \in Seq(Cmd) /\ Len(posted) \in Nat
      /\ target \in [Threads -> Nat]
  BY Numbers DEF AInv, SInv
<1>1. /\ target'[t] = Len(posted) + 1 /\ seqnum < target'[t] /\ ~InEngine(t)'
      /\ pc' = [pc EXCEPT ![t] = "poll"] /\ pc[t] = "bell"
      /\ \A u \in Threads \ {t} : target'[u] = target[u]
      /\ posted' = Append(posted, Head(todo[t]).cmd) /\ todo' = todo
      /\ UNCHANGED <<seqnum, eng, cur, drawStep, dirty>>
  BY NewTarget
<1>2. pc'[t] = "poll" /\ \A u \in Threads \ {t} : pc'[u] = pc[u]
  BY <1>0, <1>1
<1>3. Head(todo[t]).call = "submit" /\ Head(todo[t]).cmd \in Cmd
  <2>1. Head(todo[t]).call = "submit"
    BY <1>1 DEF AInv, SInv, SubmitInv, CallInv
  <2> QED BY <1>1, <2>1, CallInHand DEF AInv, SInv, HInv, Submittable
<1>4. /\ Len(posted') = Len(posted) + 1 /\ posted'[Len(posted) + 1] = Head(todo[t]).cmd
      /\ \A i \in 1 .. Len(posted) : posted'[i] = posted[i]
  BY <1>0, <1>1, <1>3
<1>5. PollInv'
  <2> SUFFICES ASSUME NEW u \in Threads, pc'[u] = "poll"
               PROVE  /\ target'[u] \in 1 .. Len(posted') /\ Head(todo[u]).call = "submit"
                      /\ posted'[target'[u]] = Head(todo[u]).cmd
    BY <1>1 DEF PollInv
  <2>1. CASE u = t
    <3>1. target'[u] \in 1 .. Len(posted')
      BY <1>0, <1>1, <1>4, <2>1
    <3> QED BY <1>1, <1>3, <1>4, <2>1, <3>1
  <2>2. CASE u # t
    <3>1. /\ target[u] \in 1 .. Len(posted) /\ Head(todo[u]).call = "submit"
          /\ posted[target[u]] = Head(todo[u]).cmd /\ target'[u] = target[u]
      BY <1>1, <1>2, <2>2 DEF AInv, AnswerInv, PollInv
    <3>2. target[u] \in 1 .. Len(posted')
      BY <1>0, <1>4, <3>1
    <3> QED BY <1>4, <3>1, <3>2
  <2> QED BY <2>1, <2>2
<1>6. TodoInv' /\ KernelInv'
  BY <1>1 DEF AInv, AnswerInv, TodoInv, KernelInv
<1>7. ASSUME NEW u \in Threads PROVE Clean(u)' \/ Owed(u)'
  <2>1. Clean(u)' <=> Clean(u)
    BY <1>1 DEF Clean
  <2>2. CASE u = t
    <3>1. Clean(t) \/ Ahead(t)
      BY <1>1, NotPolling
    <3>2. Ahead(t) => Flushing(t)'
      BY <1>1, <1>2 DEF Ahead, Flushing, FullFlush
    <3> QED BY <2>1, <2>2, <3>1, <3>2 DEF Owed
  <2>3. CASE u # t
    <3>1. pc'[u] = pc[u] /\ target'[u] = target[u]
      BY <1>1, <1>2, <2>3
    <3>2. Owed(u) => Owed(u)'
      BY <1>1, <3>1 DEF Owed, Ahead, AtLaunch, Flushing, Drawing, InEngine, FullFlush, DrawSteps
    <3> QED BY <2>1, <3>2 DEF AInv, AnswerInv, FlushInv
  <2> QED BY <2>2, <2>3
<1> QED BY <1>5, <1>6, <1>7 DEF AnswerInv, FlushInv
\* The poll of a worker ends only once its command has retired.
LEMMA PollDone ==
  ASSUME AInv, NEW t \in Threads, Poll(t)
  PROVE  target[t] <= seqnum /\ pc[t] = "poll" /\ Return(t)
<1>1. /\ seqnum % SeqMod >= target[t] /\ pc[t] = "poll" /\ Return(t)
      /\ target[t] \in Nat /\ seqnum \in Nat
  BY Numbers DEF Poll, AInv, SInv
<1>2. seqnum % SeqMod \in Nat /\ seqnum % SeqMod <= seqnum
  BY SeenSeqnum DEF AInv, SInv
<1> QED BY <1>1, <1>2

\* What is left of t's calls after the one in hand.
LEMMA NextCall ==
  ASSUME AInv, NEW t \in Threads, pc[t] # "idle"
  PROVE  /\ Tail(todo[t]) \in Seq(Call) /\ Regular(t, Tail(todo[t]))
         /\ Tail(todo[t]) # << >> => Head(Tail(todo[t])) = todo[t][2] /\ 2 \in DOMAIN todo[t]
         /\ Sends(Head(todo[t]), LaunchOps) =>
              /\ Tail(todo[t]) # << >> /\ Head(Tail(todo[t])).call = "submit"
              /\ FullFlush(Head(Tail(todo[t])).cmd)
         /\ Tail(todo[t]) # << >> /\ Head(Tail(todo[t])).call = "rsp" =>
              Sends(Head(todo[t]), {"DCR_READ"})
<1> DEFINE s == todo[t]
<1>1. s \in Seq(Call) /\ s # << >> /\ 1 \in DOMAIN s /\ Head(s) = s[1] /\ Regular(t, s)
  BY FirstCall
<1> HIDE DEF s
<1>2. Tail(s) \in Seq(Call) /\ Regular(t, Tail(s))
  BY <1>1, RegularTail
<1>3. ASSUME Tail(s) # << >> PROVE Head(Tail(s)) = s[2] /\ 2 \in DOMAIN s
  <2>1. Len(s) >= 2 /\ DOMAIN s = 1 .. Len(s) /\ Len(s) \in Nat
    BY <1>1, <1>3
  <2>2. Head(Tail(s)) = Tail(s)[1] /\ Tail(s)[1] = s[2]
    BY <1>1, <2>1
  <2> QED BY <2>1, <2>2
<1>4. 1 < Len(s) => Tail(s) # << >>
  <2>1. Len(Tail(s)) = Len(s) - 1 /\ Len(s) \in Nat
    BY <1>1
  <2>2. \A r : r = << >> => Len(r) = 0
    OBVIOUS
  <2>3. Tail(s) = << >> => Len(Tail(s)) = 0
    BY <2>2, Zenon
  <2> QED BY <2>1, <2>3
<1>5. Sends(s[1], LaunchOps) => 1 < Len(s) /\ s[1 + 1].call = "submit" /\ FullFlush(s[1 + 1].cmd)
  BY <1>1 DEF Regular
<1>6. 2 \in DOMAIN s /\ s[2].call = "rsp" => Sends(s[2 - 1], {"DCR_READ"})
  BY <1>1 DEF Regular
<1>7. Sends(Head(s), LaunchOps) =>
        Tail(s) # << >> /\ Head(Tail(s)).call = "submit" /\ FullFlush(Head(Tail(s)).cmd)
  BY <1>1, <1>3, <1>4, <1>5
<1>8. Tail(s) # << >> /\ Head(Tail(s)).call = "rsp" => Sends(Head(s), {"DCR_READ"})
  BY <1>1, <1>3, <1>6
<1> QED BY <1>2, <1>3, <1>7, <1>8 DEF s

\* No step of a worker disturbs the answer invariant.
LEMMA WorkerAnswer ==
  ASSUME Calm, RegularOps, AInv, NEW t \in Threads, Worker(t)
  PROVE  AnswerInv'
<1>0. /\ pc \in [Threads -> PcStates] /\ todo \in [Threads -> Seq(Call)]
      /\ inBatch = FALSE /\ RegFaults = FALSE /\ pc[t] \notin {"copy", "bump"}
      /\ Regular(t, todo[t])
  BY DEF AInv, SInv, HInv, ThreadType, SubmitInv, LockInv, Calm, AnswerInv, TodoInv
<1>1. CASE StartOp(t)
  <2>1. PICK o \in OpsOf[t] : todo' = [todo EXCEPT ![t] = o]
    BY <1>1 DEF StartOp
  <2>2. o \in Seq(Call) /\ Regular(t, o)
    BY SubmitAssumption DEF RegularOps
  <2>3. pc[t] = "idle" /\ pc' = [pc EXCEPT ![t] = "call"]
        /\ UNCHANGED <<seqnum, engVars, dirty, target, posted>>
    BY <1>1 DEF StartOp, cpVars
  <2>4. Clean(t)
    BY <2>3, NotPolling DEF Ahead
  <2> QED BY <2>1, <2>2, <2>3, <2>4, MoveAnswer
<1>2. CASE CheckBatch(t)
  <2>1. /\ pc[t] = "call" /\ pc' = [pc EXCEPT ![t] = "lock"] /\ todo' = [todo EXCEPT ![t] = todo[t]]
        /\ UNCHANGED <<seqnum, engVars, dirty, target, posted>>
    BY <1>0, <1>2 DEF CheckBatch, Calling, cpVars
  <2>2. Clean(t) \/ (Head(todo[t]).call = "submit" /\ FullFlush(Head(todo[t]).cmd))
    BY <2>1, NotPolling DEF Ahead
  <2> QED BY <1>0, <2>1, <2>2, MoveAnswer
<1>3. CASE LockAndCopy(t)
  <2>1. /\ pc[t] = "lock" /\ pc' = [pc EXCEPT ![t] = "bell"] /\ todo' = [todo EXCEPT ![t] = todo[t]]
        /\ UNCHANGED <<seqnum, engVars, dirty, target, posted>>
    BY <1>0, <1>3 DEF LockAndCopy, cpOnly
  <2>2. Clean(t) \/ (Head(todo[t]).call = "submit" /\ FullFlush(Head(todo[t]).cmd))
    BY <2>1, NotPolling DEF Ahead
  <2> QED BY <1>0, <2>1, <2>2, MoveAnswer
<1>4. CASE Doorbell(t)
  BY <1>4, DoorbellAnswer
<1>5. CASE CopyInBatch(t) \/ BumpInBatch(t)
  BY <1>0, <1>5 DEF CopyInBatch, BumpInBatch
<1>6. CASE BeginBatch(t) \/ EndBatch(t)
  BY <1>6, UnbatchedCalls DEF BeginBatch, EndBatch, Calling, AInv
<1>7. CASE DoorbellFault(t) \/ EndBatchFault(t) \/ PollFault(t) \/ FetchRspFault(t)
  BY <1>0, <1>7 DEF DoorbellFault, EndBatchFault, PollFault, FetchRspFault
<1> DEFINE p == IF Tail(todo[t]) = << >> THEN "idle" ELSE "call"
<1>8. Return(t) => pc' = [pc EXCEPT ![t] = p] /\ todo' = [todo EXCEPT ![t] = Tail(todo[t])]
  BY <1>0 DEF Return
<1>9. p \in {"idle", "call", "lock", "bell"} /\ (Tail(todo[t]) # << >> => p # "idle")
  OBVIOUS
<1> HIDE DEF p
<1>10. CASE Poll(t)
  <2>1. target[t] <= seqnum /\ pc[t] = "poll" /\ Return(t)
        /\ UNCHANGED <<seqnum, engVars, dirty, target, posted>>
    BY <1>10, PollDone DEF Poll, cpVars
  <2>2. Clean(t) \/ AtLaunch(t)
    <3>1. seqnum \in Nat /\ target[t] \in Nat
      BY Numbers DEF AInv, SInv
    <3>2. ~(seqnum < target[t]) /\ target[t] # seqnum + 1
      BY <2>1, <3>1
    <3> QED BY <2>1, <3>2 DEF AInv, AnswerInv, FlushInv, Owed, Ahead, Flushing, Drawing, InEngine
  <2>3. AtLaunch(t) => Sends(Head(todo[t]), LaunchOps)
    BY <2>1 DEF AtLaunch, Sends, AInv, AnswerInv, PollInv
  <2>4. Tail(todo[t]) \in Seq(Call) /\ Regular(t, Tail(todo[t]))
    BY <2>1, NextCall
  <2>5. \/ Clean(t)
        \/ /\ p # "idle" /\ Head(Tail(todo[t])).call = "submit"
           /\ FullFlush(Head(Tail(todo[t])).cmd)
    BY <1>9, <2>1, <2>2, <2>3, NextCall
  <2> QED BY <1>8, <1>9, <2>1, <2>4, <2>5, MoveAnswer
<1>11. CASE Drain(t)
  <2> DEFINE s == DrainCalls(t) \o Tail(todo[t])
             q == IF s = << >> THEN "idle" ELSE "call"
  <2>1. /\ pc[t] = "call" /\ Head(todo[t]).call = "drain"
        /\ pc' = [pc EXCEPT ![t] = q] /\ todo' = [todo EXCEPT ![t] = s]
        /\ UNCHANGED <<seqnum, engVars, dirty, target, posted>>
    BY <1>0, <1>11 DEF Drain, Calling, cpVars
  <2>2. q \in {"idle", "call", "lock", "bell"}
    OBVIOUS
  <2>3. Clean(t)
    BY <2>1, NotPolling DEF Ahead
  <2>4. s \in Seq(Call)
    BY <2>1, NextCall, DrainCallsType
  <2>5. Regular(t, s)
    BY <2>1, FirstCall, RegularDrain
  <2> HIDE DEF s, q
  <2> QED BY <2>1, <2>2, <2>3, <2>4, <2>5, MoveAnswer
<1>12. CASE FetchRsp(t)
  <2>1. /\ pc[t] = "call" /\ Head(todo[t]).call = "rsp" /\ Return(t)
        /\ UNCHANGED <<seqnum, engVars, dirty, target, posted>>
    BY <1>12 DEF FetchRsp, Calling, cpVars
  <2>2. Clean(t)
    BY <2>1, NotPolling DEF Ahead
  <2>3. Tail(todo[t]) \in Seq(Call) /\ Regular(t, Tail(todo[t]))
    BY <2>1, NextCall
  <2> QED BY <1>8, <1>9, <2>1, <2>2, <2>3, MoveAnswer
<1> QED
  BY <1>1, <1>2, <1>3, <1>4, <1>5, <1>6, <1>7, <1>10, <1>11, <1>12 DEF Worker, WorkerStep, RegisterFault

\* No step disturbs it.
LEMMA AnswerStep ==
  ASSUME Calm, RegularOps, AInv, [Next]_vars
  PROVE  AnswerInv'
<1>1. CASE Device
  BY <1>1, TickAnswer, VortexAnswer DEF Device
<1>2. CASE \E t \in Threads : Worker(t)
  BY <1>2, WorkerAnswer
<1>3. CASE UNCHANGED vars
  <2>1. UNCHANGED <<seqnum, dirty, posted, pc, todo, target, eng, cur, drawStep>>
    BY <1>3 DEF vars, cpVars, engVars, thrVars
  <2>2. PollInv' /\ TodoInv'
    BY <2>1 DEF AInv, AnswerInv, PollInv, TodoInv
  <2>3. KernelInv'
    BY <2>1 DEF AInv, AnswerInv, KernelInv
  <2>4. FlushInv'
    BY <2>1 DEF AInv, AnswerInv, FlushInv, Clean, Owed, Ahead, AtLaunch, Flushing, Drawing, InEngine
  <2> QED BY <2>2, <2>3, <2>4 DEF AnswerInv
<1> QED BY <1>1, <1>2, <1>3 DEF Next

\* Between submission and retirement every command is in the hands of its worker,
\* and a worker whose kernels have left writes in a cache still has the flush that
\* writes them back before it.
LEMMA AnswerInvariant == ASSUME Calm, RegularOps PROVE Spec => []AInv
<1>1. Init => AnswerInv
  <2> SUFFICES ASSUME Init PROVE AnswerInv
    OBVIOUS
  <2>1. PollInv /\ KernelInv /\ FlushInv
    BY DEF Init, CpInit, PollInv, KernelInv, FlushInv, Clean
  <2>2. TodoInv
    <3>1. \A t \in Threads : todo[t] = << >>
      BY DEF Init
    <3> QED BY <3>1 DEF TodoInv, Regular
  <2> QED BY <2>1, <2>2 DEF AnswerInv
<1>2. AnswerInv /\ HInv /\ SubmitInv /\ [Next]_vars => AnswerInv'
  BY AnswerStep DEF AInv, SInv
<1>3. Spec => []HInv
  BY SubmitTypeInvariant
<1>4. Spec => []SubmitInv
  BY SubmitInvariant
<1>5. Spec => []AnswerInv
  BY <1>1, <1>2, <1>3, <1>4, PTL DEF Spec
<1>6. HInv /\ SubmitInv /\ AnswerInv => AInv
  BY DEF AInv, SInv
<1> QED BY <1>3, <1>4, <1>5, <1>6, PTL

\* When an operation has returned, no cache holds writes of its worker's kernels,
\* whatever the other workers are launching meanwhile: the caller reads what the
\* kernel wrote (cp_submit_launch, cp_submit_launch_qmd, cp_submit_draw).
THEOREM CachesCoherent == ASSUME Calm, RegularOps PROVE Spec => []Coherent
<1>1. AInv => Coherent
  <2> SUFFICES ASSUME AInv, NEW t \in Threads, pc[t] = "idle" PROVE Clean(t)
    BY DEF Coherent, Clean
  <2> QED BY NotPolling DEF Ahead
<1> QED BY <1>1, AnswerInvariant, PTL

----------------------------------------------------------------------------
(* The response register.                                                  *)

\* t's answer is in the register and t has still to fetch it.
Latched(t) ==
  \/ pc[t] = "call" /\ Head(todo[t]).call = "rsp"
  \/ /\ pc[t] = "poll" /\ Head(todo[t]).cmd.op = "DCR_READ"
     /\ seqnum >= target[t] \/ (InEngine(t) /\ eng = "Retire")

RspInv ==
  /\ RspIsFresh
  /\ lastRsp.no <= Len(posted) /\ \A t \in Threads : rsp[t].no <= Len(posted)
  /\ \A t \in Threads : Latched(t) => Fresh(t, lastRsp.no, own[t])

\* A step of the device that latches nothing, and completes no DCR read either.
LEMMA SameRsp ==
  ASSUME AInv, RspInv, UNCHANGED <<thrVars, seqnum, lastRsp, posted>>,
         \A t \in Threads : InEngine(t) /\ eng # "Retire" /\ eng' = "Retire" => cur.op # "DCR_READ",
         eng = "Idle" => eng' # "Retire"
  PROVE  RspInv'
<1>0. pc' = pc /\ todo' = todo /\ target' = target /\ rsp' = rsp /\ own' = own
  BY DEF thrVars
<1>1. /\ RspIsFresh' /\ lastRsp'.no <= Len(posted')
      /\ \A t \in Threads : rsp'[t].no <= Len(posted')
  BY <1>0 DEF RspInv, RspIsFresh, Fresh
<1>2. ASSUME NEW t \in Threads, Latched(t)' PROVE Latched(t)
  <2>1. CASE InEngine(t)' /\ eng' = "Retire" /\ Head(todo[t]).cmd.op = "DCR_READ"
    <3>1. InEngine(t)
      BY <1>0, <2>1 DEF InEngine
    <3>2. eng = "Retire"
      BY <2>1, <3>1, EngineCmd
    <3> QED BY <2>1, <3>1, <3>2 DEF Latched, InEngine
  <2> QED BY <1>0, <1>2, <2>1 DEF Latched
<1>3. ASSUME NEW t \in Threads, Latched(t)' PROVE Fresh(t, lastRsp.no, own[t])'
  <2>1. Fresh(t, lastRsp.no, own[t])
    BY <1>2, <1>3 DEF RspInv
  <2> QED BY <1>0, <2>1 DEF Fresh
<1> QED BY <1>1, <1>3 DEF RspInv

\* The engine latches the response of the command in it, which no worker is past:
\* for its own worker it is the response, for another that waits a later one.
LEMMA TickRsp ==
  ASSUME AInv, RspInv, Tick, UNCHANGED <<devVars, thrVars>>
  PROVE  RspInv'
<1>0. /\ seqnum \in Nat /\ target \in [Threads -> Nat] /\ drawStep \in Nat /\ KernelInv /\ FsmInv
      /\ pc' = pc /\ todo' = todo /\ target' = target /\ rsp' = rsp
      /\ own' = own /\ posted' = posted /\ own \in [Threads -> Nat]
  <2>1. posted' = posted
    BY DEF Tick, EngFetch, EngNext, EngDecode, BidLaunch, BidDraw, BidInline, BidEventSig,
           BidEventWait, BidMem, EngWaitDone, DrawEnd, DrawInline, DrawLaunch, EngDrawLaunchWait,
           EngRetire, Move, hostVars
  <2> QED BY <2>1, Numbers
          DEF AInv, SInv, HInv, CpInv, CpTypeOK, AnswerInv, thrVars, HistoryType
<1>1. CASE EngFetch \/ EngNext
  <2>1. eng = "Idle" /\ eng' # "Retire" /\ UNCHANGED <<seqnum, lastRsp>>
    BY <1>1 DEF EngFetch, EngNext, LoadNextCmd, archVars
  <2> QED BY <1>0, <2>1, SameRsp
<1>2. CASE EngDecode
  <2>1. /\ eng = "Decode" /\ eng' = (IF cur.op \in NoResource THEN "Retire" ELSE "Bid")
        /\ UNCHANGED <<seqnum, lastRsp>>
    BY <1>2 DEF EngDecode, Move, archVars
  <2> QED BY <1>0, <2>1, SameRsp DEF NoResource
<1>3. CASE BidLaunch \/ BidDraw
  <2>1. eng = "Bid" /\ eng' # "Retire" /\ UNCHANGED <<seqnum, lastRsp>>
    BY <1>3 DEF BidLaunch, BidDraw, Move, archVars
  <2> QED BY <1>0, <2>1, SameRsp
<1>4. CASE BidEventSig \/ BidEventWait \/ BidMem
  <2>1. /\ eng = "Bid" /\ UNCHANGED <<seqnum, lastRsp>> /\ cur.op # "DCR_READ"
    BY <1>4 DEF BidEventSig, BidEventWait, BidMem, Move, MemOps, archVars
  <2> QED BY <1>0, <2>1, SameRsp
<1>5. CASE BidInline
  <2>1. eng = "Bid" /\ eng' = "Retire" /\ UNCHANGED seqnum /\ InlineEffect(cur)
    BY <1>5 DEF BidInline, Move
  <2>2. CASE cur.op # "DCR_READ"
    <3>1. lastRsp' = lastRsp
      BY <2>1, <2>2 DEF InlineEffect
    <3> QED BY <1>0, <2>1, <2>2, <3>1, SameRsp
  <2>3. CASE cur.op = "DCR_READ"
    <3> DEFINE u == cur.own
               n == seqnum + 1
    <3>1. u \in Threads /\ InEngine(u)
      BY <2>1, OwnerWaits
    <3>2. lastRsp'.no = n /\ n \in Nat
      BY <1>0, <2>1, <2>3 DEF InlineEffect
    <3>3. n <= Len(posted) /\ posted[n] = cur
      <4>1. n = head + 1 /\ cur = posted[head + 1] /\ head < tail /\ tail = Len(posted)
        BY <1>0, <2>1, Numbers DEF AInv, SInv, SubmitInv, LineInv, CountInv
      <4> QED BY <1>0, <4>1, Numbers DEF AInv, SInv
    <3>4. ASSUME NEW t \in Threads, Latched(t)' PROVE Fresh(t, lastRsp.no, own[t])'
      <4>1. \/ pc[t] = "call" /\ Head(todo[t]).call = "rsp"
            \/ pc[t] = "poll" /\ (seqnum >= target[t] \/ target[t] = n)
        BY <1>0, <2>1, <3>4 DEF Latched, InEngine
      <4>2. IF pc[t] = "poll" THEN own[t] = target[t] ELSE own[t] <= seqnum
        BY DEF AInv, SInv, SubmitInv, OwnInv
      <4>3. own[t] <= n
        BY <1>0, <4>1, <4>2
      <4>4. t = u => own[t] = n
        BY <3>1, <4>2 DEF InEngine
      <4>5. n > own[t] => cur.own # t /\ cur.op = "DCR_READ"
        BY <1>0, <2>3, <4>4
      <4> HIDE DEF n, u
      <4> QED BY <1>0, <3>2, <3>3, <4>3, <4>5 DEF Fresh
    <3>5. RspIsFresh'
      BY <1>0 DEF RspInv, RspIsFresh, Fresh
    <3> HIDE DEF n, u
    <3>6. lastRsp'.no <= Len(posted') /\ \A t \in Threads : rsp'[t].no <= Len(posted')
      BY <1>0, <3>2, <3>3 DEF RspInv
    <3> QED BY <3>4, <3>5, <3>6 DEF RspInv
  <2> QED BY <2>2, <2>3
<1>6. CASE EngWaitDone
  <2>1. eng = "WaitDone" /\ UNCHANGED <<seqnum, lastRsp>> /\ cur.op \in LaunchOps
    BY <1>0, <1>6 DEF EngWaitDone, Move, archVars, KernelInv
  <2> QED BY <1>0, <2>1, SameRsp DEF LaunchOps
<1>7. CASE DrawEnd
  <2>1. eng = "DrawStep" /\ UNCHANGED <<seqnum, lastRsp>> /\ cur.op = "DRAW"
    BY <1>0, <1>7 DEF DrawEnd, Move, archVars, FsmInv
  <2> QED BY <1>0, <2>1, SameRsp
<1>8. CASE DrawInline
  <2> DEFINE c == DrawSteps(cur)[drawStep + 1]
  <2>1. /\ eng = "DrawStep" /\ eng' = "DrawStep" /\ UNCHANGED seqnum
        /\ drawStep < Len(DrawSteps(cur)) /\ InlineEffect(c)
    BY <1>8 DEF DrawInline, Move
  <2>2. cur \in Cmd /\ cur.op = "DRAW"
    BY <1>0, <2>1 DEF FsmInv
  <2>3. WellDrawn(cur)
    BY <2>1, <2>2, OwnerWaits, EngineCmd
  <2>4. drawStep + 1 \in DOMAIN DrawSteps(cur)
    <3>1. DrawSteps(cur) \in Seq(Cmd)
      BY <2>2, DrawStepsType
    <3> QED BY <1>0, <2>1, <3>1
  <2>5. c.op # "DCR_READ"
    BY <2>3, <2>4 DEF WellDrawn
  <2>6. lastRsp' = lastRsp
    BY <2>1, <2>5 DEF InlineEffect
  <2> QED BY <1>0, <2>1, <2>6, SameRsp
<1>9. CASE DrawLaunch
  <2>1. eng = "DrawStep" /\ eng' = "DrawLaunchWait" /\ UNCHANGED <<seqnum, lastRsp>>
    BY <1>9 DEF DrawLaunch, Move
  <2> QED BY <1>0, <2>1, SameRsp
<1>10. CASE EngDrawLaunchWait
  <2>1. eng = "DrawLaunchWait" /\ eng' # "Retire" /\ UNCHANGED <<seqnum, lastRsp>>
    BY <1>10 DEF EngDrawLaunchWait, Move, archVars
  <2> QED BY <1>0, <2>1, SameRsp
<1>11. CASE EngRetire
  <2>1. eng = "Retire" /\ eng' = "Idle" /\ seqnum' = seqnum + 1 /\ lastRsp' = lastRsp
    BY <1>11 DEF EngRetire, archVars
  <2>2. ASSUME NEW t \in Threads, Latched(t)' PROVE Latched(t)
    <3>1. seqnum + 1 >= target[t] => seqnum >= target[t] \/ target[t] = seqnum + 1
      BY <1>0
    <3> QED BY <1>0, <2>1, <2>2, <3>1 DEF Latched, InEngine
  <2>3. ASSUME NEW t \in Threads, Latched(t)' PROVE Fresh(t, lastRsp.no, own[t])'
    <3>1. Fresh(t, lastRsp.no, own[t])
      BY <2>2, <2>3 DEF RspInv
    <3> QED BY <1>0, <2>1, <3>1 DEF Fresh
  <2>4. /\ RspIsFresh' /\ lastRsp'.no <= Len(posted')
        /\ \A t \in Threads : rsp'[t].no <= Len(posted')
    BY <1>0, <2>1 DEF RspInv, RspIsFresh, Fresh
  <2> QED BY <2>3, <2>4 DEF RspInv
<1> QED
  BY <1>1, <1>2, <1>3, <1>4, <1>5, <1>6, <1>7, <1>8, <1>9, <1>10, <1>11 DEF Tick

\* A worker moves on; if it is about to fetch an answer, the answer is fresh.
LEMMA MoveRsp ==
  ASSUME AInv, RspInv, NEW t \in Threads, NEW p \in {"idle", "call", "lock", "bell"}, NEW s,
         pc' = [pc EXCEPT ![t] = p], todo' = [todo EXCEPT ![t] = s],
         UNCHANGED <<seqnum, eng, target, own, posted, lastRsp>>, RspIsFresh',
         \A u \in Threads : rsp'[u].no <= Len(posted),
         p = "call" /\ Head(s).call = "rsp" => Fresh(t, lastRsp.no, own[t])
  PROVE  RspInv'
<1>0. pc \in [Threads -> PcStates] /\ todo \in [Threads -> Seq(Call)]
  BY DEF AInv, SInv, HInv, ThreadType
<1>1. ASSUME NEW u \in Threads, Latched(u)' PROVE Fresh(u, lastRsp.no, own[u])
  <2>1. CASE u = t
    <3>1. pc'[t] = p /\ todo'[t] = s
      BY <1>0
    <3> QED BY <1>1, <2>1, <3>1 DEF Latched
  <2>2. CASE u # t
    <3>1. pc'[u] = pc[u] /\ todo'[u] = todo[u]
      BY <1>0, <2>2
    <3>2. Latched(u)
      BY <1>1, <3>1 DEF Latched, InEngine
    <3> QED BY <3>2 DEF RspInv
  <2> QED BY <2>1, <2>2
<1>2. ASSUME NEW u \in Threads, Latched(u)' PROVE Fresh(u, lastRsp.no, own[u])'
  BY <1>1, <1>2 DEF Fresh
<1>3. lastRsp'.no <= Len(posted') /\ \A u \in Threads : rsp'[u].no <= Len(posted')
  BY DEF RspInv
<1> QED BY <1>2, <1>3 DEF RspInv

\* No step of a worker makes an answer stale.
LEMMA WorkerRsp ==
  ASSUME Calm, RegularOps, AInv, RspInv, NEW t \in Threads, Worker(t)
  PROVE  RspInv'
<1>0. /\ pc \in [Threads -> PcStates] /\ todo \in [Threads -> Seq(Call)]
      /\ inBatch = FALSE /\ RegFaults = FALSE /\ pc[t] \notin {"copy", "bump"}
      /\ rsp \in [Threads -> [no : Nat, mine : Nat]] /\ own \in [Threads -> Nat] /\ RspIsFresh
      /\ lastRsp.no \in Nat /\ lastRsp.no <= Len(posted)
      /\ \A u \in Threads : rsp[u].no <= Len(posted)
  BY DEF AInv, SInv, HInv, ThreadType, HistoryType, SubmitInv, LockInv, Calm, RspInv,
         CpInv, CpTypeOK
<1>1. CASE StartOp(t)
  <2>1. PICK o \in OpsOf[t] : o # << >> /\ todo' = [todo EXCEPT ![t] = o]
    BY <1>1 DEF StartOp
  <2>2. o \in Seq(Call)
    BY SubmitAssumption
  <2>3. Head(o).call # "rsp"
    BY <2>1, <2>2 DEF RegularOps
  <2>4. /\ pc' = [pc EXCEPT ![t] = "call"] /\ UNCHANGED <<seqnum, eng, target, own, posted, lastRsp, rsp>>
        /\ RspIsFresh'
    BY <1>0, <1>1 DEF StartOp, cpVars, engVars, archVars, RspIsFresh,
           Fresh
  <2> QED BY <1>0, <2>1, <2>3, <2>4, MoveRsp
<1>2. CASE CheckBatch(t) \/ LockAndCopy(t)
  <2>1. /\ pc' = [pc EXCEPT ![t] = "lock"] \/ pc' = [pc EXCEPT ![t] = "bell"]
        /\ todo' = [todo EXCEPT ![t] = todo[t]] /\ UNCHANGED <<seqnum, eng, target, own, posted, lastRsp, rsp>>
        /\ RspIsFresh'
    BY <1>0, <1>2 DEF CheckBatch, LockAndCopy, cpVars, cpOnly, engVars, archVars, RspIsFresh,
           Fresh
  <2> QED BY <1>0, <2>1, MoveRsp
<1>3. CASE Doorbell(t)
  <2>1. /\ target'[t] = Len(posted) + 1 /\ seqnum < target'[t] /\ ~InEngine(t)'
        /\ pc' = [pc EXCEPT ![t] = "poll"]
        /\ \A u \in Threads \ {t} : target'[u] = target[u]
        /\ todo' = todo /\ UNCHANGED <<seqnum, eng, lastRsp, rsp>>
    BY <1>3, NewTarget
  <2>2. pc'[t] = "poll" /\ \A u \in Threads \ {t} : pc'[u] = pc[u]
    BY <1>0, <2>1
  <2>3. seqnum \in Nat /\ Len(posted) \in Nat
    BY Numbers DEF AInv, SInv
  <2>4. ~(seqnum >= target'[t])
    BY <2>1, <2>3
  <2> DEFINE c == Head(todo[t]).cmd
  <2>5. /\ posted' = Append(posted, c) /\ posted \in Seq(Cmd) /\ c \in Cmd
        /\ \A u \in Threads \ {t} : own'[u] = own[u]
    <3>1. posted' = Append(posted, c) /\ pc[t] = "bell"
      BY <1>3, NewTarget
    <3>2. Head(todo[t]).call = "submit"
      BY <3>1 DEF AInv, SInv, SubmitInv, CallInv
    <3>3. c \in Cmd
      BY <3>1, <3>2, CallInHand DEF AInv, SInv, HInv, Submittable
    <3>4. posted \in Seq(Cmd)
      BY Numbers DEF AInv, SInv
    <3> QED BY <1>0, <1>3, <3>1, <3>3, <3>4 DEF Doorbell
  <2> HIDE DEF c
  <2>6. Len(posted') = Len(posted) + 1
    BY <2>5
  <2>7. ASSUME NEW u \in Threads, Latched(u)' PROVE Fresh(u, lastRsp.no, own[u])'
    <3>1. u # t
      BY <2>1, <2>2, <2>4, <2>7 DEF Latched
    <3>2. pc'[u] = pc[u] /\ target'[u] = target[u] /\ own'[u] = own[u]
      BY <2>1, <2>2, <2>5, <3>1
    <3>3. Latched(u)
      BY <2>1, <2>7, <3>2 DEF Latched, InEngine
    <3>4. Fresh(u, lastRsp.no, own[u]) /\ own[u] \in Nat
      BY <1>0, <3>3 DEF RspInv
    <3> DEFINE no == lastRsp.no
               mine == own[u]
    <3>5. no' = no /\ mine' = mine /\ no \in Nat /\ mine \in Nat /\ no <= Len(posted)
      BY <1>0, <2>1, <3>2, <3>4
    <3> HIDE DEF no, mine
    <3>6. no > mine => posted'[no] = posted[no]
      BY <2>5, <3>5
    <3> QED BY <3>4, <3>5, <3>6 DEF Fresh, no, mine
  <2>8. ASSUME NEW u \in Threads PROVE Fresh(u, rsp[u].no, rsp[u].mine)'
    <3> DEFINE no == rsp[u].no
               mine == rsp[u].mine
    <3>1. Fresh(u, no, mine) /\ no \in Nat /\ mine \in Nat /\ no <= Len(posted)
      BY <1>0 DEF RspIsFresh
    <3>2. no' = no /\ mine' = mine
      BY <2>1
    <3> HIDE DEF no, mine
    <3>3. no > mine => posted'[no] = posted[no]
      BY <2>5, <3>1
    <3> QED BY <3>1, <3>2, <3>3 DEF Fresh, no, mine
  <2>9. lastRsp'.no <= Len(posted') /\ \A u \in Threads : rsp'[u].no <= Len(posted')
    BY <1>0, <2>1, <2>3, <2>6
  <2> QED BY <2>7, <2>8, <2>9 DEF RspInv, RspIsFresh
<1>4. CASE CopyInBatch(t) \/ BumpInBatch(t)
  BY <1>0, <1>4 DEF CopyInBatch, BumpInBatch
<1>5. CASE BeginBatch(t) \/ EndBatch(t)
  BY <1>5, UnbatchedCalls DEF BeginBatch, EndBatch, Calling, AInv
<1>6. CASE DoorbellFault(t) \/ EndBatchFault(t) \/ PollFault(t) \/ FetchRspFault(t)
  BY <1>0, <1>6 DEF DoorbellFault, EndBatchFault, PollFault, FetchRspFault
<1> DEFINE p == IF Tail(todo[t]) = << >> THEN "idle" ELSE "call"
<1>7. Return(t) => pc' = [pc EXCEPT ![t] = p] /\ todo' = [todo EXCEPT ![t] = Tail(todo[t])]
  BY <1>0 DEF Return
<1>8. p \in {"idle", "call", "lock", "bell"} /\ (p = "call" => Tail(todo[t]) # << >>)
  OBVIOUS
<1> HIDE DEF p
<1>9. CASE Poll(t)
  <2>1. /\ target[t] <= seqnum /\ pc[t] = "poll" /\ Return(t)
        /\ UNCHANGED <<seqnum, eng, target, own, posted, lastRsp, rsp>>
    BY <1>9, PollDone DEF Poll, cpVars, engVars, archVars
  <2>2. Tail(todo[t]) # << >> /\ Head(Tail(todo[t])).call = "rsp" => Sends(Head(todo[t]), {"DCR_READ"})
    BY <2>1, NextCall
  <2>3. Sends(Head(todo[t]), {"DCR_READ"}) => Latched(t)
    <3>1. seqnum \in Nat /\ target[t] \in Nat
      BY Numbers DEF AInv, SInv
    <3>2. seqnum >= target[t]
      BY <2>1, <3>1
    <3> QED BY <2>1, <3>2 DEF Sends, Latched
  <2>4. p = "call" /\ Head(Tail(todo[t])).call = "rsp" => Fresh(t, lastRsp.no, own[t])
    BY <1>8, <2>2, <2>3 DEF RspInv
  <2>5. RspIsFresh'
    BY <1>0, <2>1 DEF RspIsFresh, Fresh
  <2> QED BY <1>0, <1>7, <1>8, <2>1, <2>4, <2>5, MoveRsp
<1>10. CASE Drain(t)
  <2> DEFINE s == DrainCalls(t) \o Tail(todo[t])
             q == IF s = << >> THEN "idle" ELSE "call"
  <2>1. /\ pc[t] = "call" /\ Head(todo[t]).call = "drain"
        /\ pc' = [pc EXCEPT ![t] = q] /\ todo' = [todo EXCEPT ![t] = s]
        /\ UNCHANGED <<seqnum, eng, target, own, posted, lastRsp, rsp>>
    BY <1>0, <1>10 DEF Drain, Calling, cpVars, engVars, archVars
  <2>2. q \in {"idle", "call", "lock", "bell"} /\ (q = "call" => s # << >>)
    OBVIOUS
  <2>3. s # << >> => s[1].call # "rsp"
    BY <2>1, FirstCall, RegularDrain
  <2>4. s \in Seq(Call)
    BY <2>1, NextCall, DrainCallsType
  <2> HIDE DEF s, q
  <2>5. q = "call" => Head(s).call # "rsp"
    BY <2>2, <2>3, <2>4
  <2>6. RspIsFresh'
    BY <1>0, <2>1 DEF RspIsFresh, Fresh
  <2> QED BY <1>0, <2>1, <2>2, <2>5, <2>6, MoveRsp
<1>11. CASE FetchRsp(t)
  <2>1. /\ pc[t] = "call" /\ Head(todo[t]).call = "rsp" /\ Return(t)
        /\ rsp' = [rsp EXCEPT ![t] = [no |-> lastRsp.no, mine |-> own[t]]]
        /\ UNCHANGED <<seqnum, eng, target, own, posted, lastRsp>>
    BY <1>11 DEF FetchRsp, Calling, cpVars, engVars, archVars
  <2>2. Fresh(t, lastRsp.no, own[t])
    BY <2>1 DEF Latched, RspInv
  <2>3. /\ rsp'[t].no = lastRsp.no /\ rsp'[t].mine = own[t]
        /\ \A u \in Threads \ {t} : rsp'[u] = rsp[u]
    BY <1>0, <2>1
  <2>4. RspIsFresh' /\ \A u \in Threads : rsp'[u].no <= Len(posted)
    BY <1>0, <2>1, <2>2, <2>3 DEF RspIsFresh, Fresh
  <2>5. /\ pc' = [pc EXCEPT ![t] = p] /\ todo' = [todo EXCEPT ![t] = Tail(todo[t])]
        /\ UNCHANGED <<seqnum, eng, target, own, posted, lastRsp>>
    BY <1>7, <2>1
  <2> QED BY <1>8, <2>2, <2>4, <2>5, MoveRsp
<1> QED
  BY <1>1, <1>2, <1>3, <1>4, <1>5, <1>6, <1>9, <1>10, <1>11 DEF Worker, WorkerStep, RegisterFault

\* However many workers read DCRs, a read returns the response of its own
\* CMD_DCR_READ or of a later one of another worker, never an older response: by the
\* time the poll ends the register holds the command's answer, and what overwrites
\* it before the fetch, which holds no lock, is younger (cp_submit_dcr_read).
THEOREM ResponsesFresh == ASSUME Calm, RegularOps PROVE Spec => []RspIsFresh
<1>1. Init => RspInv
  <2> SUFFICES ASSUME Init PROVE RspInv
    OBVIOUS
  <2>1. lastRsp.no = 0 /\ Len(posted) = 0 /\ \A t \in Threads : rsp[t].no = 0 /\ rsp[t].mine = 0
    BY DEF Init, CpInit
  <2>2. \A t \in Threads : ~Latched(t)
    BY DEF Init, Latched
  <2> QED BY <2>1, <2>2 DEF RspInv, RspIsFresh, Fresh
<1>2. AInv /\ RspInv /\ [Next]_vars => RspInv'
  <2> SUFFICES ASSUME AInv, RspInv, [Next]_vars PROVE RspInv'
    OBVIOUS
  <2>1. CASE Tick /\ UNCHANGED <<devVars, thrVars>>
    BY <2>1, TickRsp
  <2>2. CASE (VortexRise \/ VortexDone) /\ UNCHANGED <<devVars, thrVars>>
    BY <2>2, SameRsp DEF VortexRise, VortexDone, engVars, archVars, hostVars
  <2>3. CASE \E t \in Threads : Worker(t)
    BY <2>3, WorkerRsp
  <2>4. CASE UNCHANGED vars
    BY <2>4, SameRsp DEF vars, cpVars, engVars, archVars
  <2> QED BY <2>1, <2>2, <2>3, <2>4 DEF Next, Device
<1>3. Spec => []AInv
  BY AnswerInvariant
<1>4. RspInv => RspIsFresh
  BY DEF RspInv
<1> QED BY <1>1, <1>2, <1>3, <1>4, PTL DEF Spec
=============================================================================

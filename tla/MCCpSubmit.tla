----------------------------- MODULE MCCpSubmit -----------------------------
(***************************************************************************)
(* Small instances of CpSubmit: the operations of queue.cpp, for one or    *)
(* two workers sharing the device, and the command processor fed with      *)
(* packed lines.  Worker w1 programs and stages value 1, worker w2 value   *)
(* 2; w1's cells are 0 (staging) and 2, w2's 1 and 3.                      *)
(***************************************************************************)
EXTENDS CpSubmit, MCCommandProcessor, Functions

CONSTANT Uses  \* the ways to use the device that a run looks at
VARIABLE use   \* the way of this behaviour

Id(t)      == IF t = "w1" THEN 1 ELSE 2
Staging(t) == Id(t) - 1
DevCell(t) == Id(t) + 1

FlushAll(t) == Flush(t, Cardinality(MCCores))
Stage(t)    == C("MEM_WRITE", t, DevCell(t), Staging(t), 1)

LaunchOp(t) ==
  EnqueueLaunch(<< Stage(t) >>, << DcrWr(t, Pc, Id(t)), DcrWr(t, Grid, Id(t)) >>,
                Launch(t), FlushAll(t))

BatchOp(t) ==
  EnqueueCommands(<< Stage(t) >>,
                  SubmitLaunch(LaunchQmd(t, DevCell(t)), FlushAll(t))
                    \o << Submit(DcrWr(t, Grid, Id(t))) >>)

DrawOp(t)    == EnqueueDraw(<< Stage(t) >>, Draw(t, DevCell(t)))
CopyOp(t)    == Submits(<< C("MEM_COPY", t, DevCell(t), Staging(t), 1) >>)
DcrReadOp(t) == SubmitDcrRead(DcrRd(t))

\* drain_cout: read the write pointers and the lost counters.
MCDrainCmds == [t \in Two |-> << C("MEM_READ", t, Staging(t), DevCell(t), 1) >>]

AllOps(t) == {LaunchOp(t), BatchOp(t), DrawOp(t), CopyOp(t), DcrReadOp(t)}

\* Ways to use the device.  One worker alone makes every kind of operation, several
\* in a row.  Two that share it make one operation each: a launch or a DCR read on
\* the one and a draw or a copy on the other; two launches register by register;
\* two DCR reads each; a batch and a copy.  Or a host posts whole lines.
Plan == [alone     |-> [w1 |-> AllOps("w1"), w2 |-> {}],
         shared    |-> [w1 |-> {LaunchOp("w1"), DcrReadOp("w1")},
                        w2 |-> {DrawOp("w2"), CopyOp("w2")}],
         launchers |-> [t \in Two |-> {LaunchOp(t)}],
         readers   |-> [t \in Two |-> {DcrReadOp(t)}],
         foreign   |-> [w1 |-> {BatchOp("w1")}, w2 |-> {CopyOp("w2")}],
         lines     |-> [t \in Two |-> {}]]
OpLimit(u) == CASE u = "alone" -> MaxOps [] u = "readers" -> 2 [] OTHER -> 1

MCOpsOf == [t \in Two |-> AllOps(t)]

\* The operations of queue.cpp have the shape the proofs ask for.
ASSUME OpsAreRegular == RegularOps

MCCmd ==
  UNION {{o[i].cmd : i \in {j \in 1 .. Len(o) : o[j].call = "submit"}} :
           o \in UNION {AllOps(t) : t \in Two}}
    \cup UNION {Range(MCDrainCmds[t]) : t \in Two} \cup LineCmds

----------------------------------------------------------------------------
Programs(c) == c.op \in {"DCR_WRITE", "LAUNCH_QMD", "DRAW"}

\* Between t's last write to register r and the command numbered n, another worker
\* has programmed the GPU.
Meddled(t, r, n) ==
  \E i \in 1 .. n - 1 :
    /\ posted[i].own # t /\ Programs(posted[i])
    /\ \A j \in i + 1 .. n - 1 : ~(posted[j].own = t /\ posted[j].op = "DCR_WRITE" /\ posted[j].arg0 = r)

\* A kernel runs with the descriptor of the worker that launched it.  One launched
\* by descriptor, alone or in a draw, always does, whatever another worker programs
\* meanwhile (apply_qmd_); one launched register by register (enqueue_launch) does
\* unless another worker's programming has come between its writes and its start.
LaunchesOwnDescriptor ==
  [][use # "lines" /\ gpu = "off" /\ gpu' # "off" =>
       \A r \in Regs : \/ dcr'[r] = Id(cur.own)
                       \/ cur.op = "LAUNCH" /\ Meddled(cur.own, r, seqnum + 1)]_vars

\* Every command of a posted line retires, unless an EVENT_WAIT at the head of the
\* ring is never satisfied (the reason the runtime posts none).
EveryCommandRetires ==
  (use = "lines" /\ seqnum < Len(posted)) ~> (seqnum = Len(posted) \/ StalledAtWait)

\* The operations that are started are the ones the plan has, and no more of them.
Planned ==
  /\ UNCHANGED use
  /\ \A t \in Threads : ops'[t] # ops[t] =>
       todo'[t] \in Plan[use][t] /\ ops'[t] <= OpLimit(use)

PostLine == use = "lines" /\ (\E c \in Cls : PostCl(c)) /\ UNCHANGED <<devVars, thrVars, use>>

MCInit == Init /\ dcr = InitialArch.dcr /\ lastRsp.value = 0 /\ use \in Uses
\* Registers fail at any access but in the longest use, the two launches.
MCNext ==
  \/ Device /\ Planned
  \/ \E t \in Threads : (WorkerStep(t) \/ (use # "launchers" /\ RegisterFault(t))) /\ Planned
  \/ PostLine

\* Fairness of CpSubmit, for the steps the plan allows.
MCFairness ==
  /\ WF_vars(Tick /\ UNCHANGED <<devVars, thrVars>> /\ Planned)
  /\ WF_vars((VortexRise \/ VortexDone) /\ UNCHANGED <<devVars, thrVars>> /\ Planned)
  /\ \A t \in Threads : WF_vars(WorkerStep(t) /\ Planned)

MCSpec == MCInit /\ [][MCNext]_<<vars, use>> /\ MCFairness
=============================================================================

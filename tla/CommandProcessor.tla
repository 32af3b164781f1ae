-------------------------- MODULE CommandProcessor --------------------------
(***************************************************************************)
(* The command processor (CP) of the device: the functional model in       *)
(* sim/common/cmd_processor.{h,cpp}, which every backend drives through    *)
(* the same register file and the same ring in CP-visible memory.          *)
(*                                                                         *)
(* The host writes 64-byte command lines (CLs) into the ring and commits   *)
(* the new tail with a doorbell; the CP fetches the CL at head, unpacks    *)
(* the commands packed in it, walks each one through the engine FSM, and   *)
(* counts it in seqnum when it retires.  A launch runs through a sub-FSM   *)
(* that starts the GPU and watches its busy wire.  One action is one call  *)
(* of tick(): an engine step followed by a launch step.                    *)
(*                                                                         *)
(* head and tail count CLs, not bytes.  Descriptors (QMD launch            *)
(* descriptors, draw bundles) are constants: the host stages them before   *)
(* it posts the command that names them and keeps them until it retired.   *)
(* `posted` and the field `own` of a command are history: which commands   *)
(* the host has put on the ring, and on whose behalf.                      *)
(***************************************************************************)
EXTENDS Integers, Sequences, FiniteSets

CONSTANTS
  Regs,          \* device configuration registers (DCRs)
  Vals,          \* values of a DCR
  Addrs,         \* device-visible memory cells
  Data,          \* values of a memory cell, 0 included
  Cores,         \* 0 .. number of cores - 1
  Owners,        \* on whose behalf a command is posted (history only)
  Cmd,           \* the commands that may be posted or appear in a draw bundle
  PageTable,     \* virtual to physical cells; the identity when VM is off
  QmdAt,         \* cell -> the {dcr, value} list staged there
  DrawAt,        \* cell -> the draw steps staged there
  RingSlots,     \* CLs in the ring (CP_RING_SIZE / 64)
  MissBusy,      \* may a kernel end before the CP samples the busy wire high?
  Cls,           \* lines of commands a host may post
  MaxPosted,     \* bound on the commands posted
  NoCmd          \* contents of cur_cmd_ before the first command

Ops == {"NOP", "PAD", "FENCE", "LAUNCH", "LAUNCH_QMD", "DRAW", "CACHE_FLUSH",
        "DCR_WRITE", "DCR_READ", "EVENT_SIG", "EVENT_WAIT",
        "MEM_WRITE", "MEM_READ", "MEM_COPY", "UNKNOWN"}

LaunchOps   == {"LAUNCH", "LAUNCH_QMD"}
MemOps      == {"MEM_WRITE", "MEM_READ", "MEM_COPY"}
NoResource  == {"NOP", "FENCE"}

ClBytes      == 64
MaxCmdsPerCl == 5
MaxQmdDcrs   == 64
MaxDrawSteps == 256

(* A command names only registers and cells that exist; a draw step is     *)
(* itself a command.  The fields keep the names of the on-wire record.     *)
CmdOK(c) ==
  /\ c.op \in Ops
  /\ c.own \in Owners
  /\ c.physical \in BOOLEAN
  /\ c.op = "DCR_WRITE" => c.arg0 \in Regs /\ c.arg1 \in Vals
  /\ c.op = "DCR_READ" => c.arg0 \in Regs
  /\ c.op = "CACHE_FLUSH" => c.arg0 \in Nat
  /\ c.op \in LaunchOps \cup {"DRAW"} => c.arg0 \in Addrs
  /\ c.op = "EVENT_SIG" => c.arg0 \in Addrs /\ c.arg1 \in Data
  /\ c.op = "EVENT_WAIT" => c.arg0 \in Addrs /\ c.arg1 \in Data /\ c.arg2 \in 0 .. 3
  /\ c.op \in MemOps => c.arg0 \in Addrs /\ c.arg1 \in Addrs /\ c.arg2 \in Nat

ASSUME CpAssumption ==
  /\ RingSlots \in Nat \ {0}
  /\ MissBusy \in BOOLEAN /\ Cores \subseteq Nat
  /\ Data \subseteq Nat /\ 0 \in Data
  /\ \A c \in Cmd : CmdOK(c)
  /\ NoCmd \notin Cmd
  /\ Cls \subseteq Seq(Cmd) /\ MaxPosted \in Nat
  /\ PageTable \in [Addrs -> Addrs]
  /\ QmdAt \in [Addrs -> Seq([dcr : Regs, value : Vals])]
  /\ DrawAt \in [Addrs -> Seq(Cmd)]

VARIABLES
  ring,      \* slot -> the CL last written there, a sequence of commands
  tail,      \* q0_.tail: CLs the host has committed
  head,      \* q0_.head: CLs the CP has consumed
  seqnum,    \* q0_.seqnum: commands retired
  clLoaded,  \* cl_loaded_: cl holds a CL not yet consumed
  cl,        \* cl_buf_ unpacked; Len(cl) is cl_cmd_count_
  slot,      \* cl_cmd_slot_: commands of cl already retired
  cur,       \* cur_cmd_
  eng,       \* eng_state_
  launch,    \* launch_state_
  drawStep,  \* draw_step_
  dcr,       \* the GPU's DCRs
  lastRsp,   \* last_dcr_rsp_, with the number of the command that latched it
  mem,       \* memory cells the CP reads and writes
  gpu,       \* "off", "starting", or "busy": the busy wire is high
  dirty,     \* <<core, owner>>: kernel writes still in the core's caches
  posted     \* history: every command put on the ring, in ring order

engVars == <<clLoaded, cl, slot, cur, eng, drawStep>>
archVars == <<dcr, lastRsp, mem>>
cpVars  == <<ring, tail, head, seqnum, engVars, launch, archVars, gpu, dirty, posted>>

EngStates    == {"Idle", "Decode", "Bid", "WaitDone", "Retire", "DrawStep", "DrawLaunchWait"}
LaunchStates == {"Idle", "PulseStart", "WaitBusy", "WaitDrain"}

----------------------------------------------------------------------------
(* Decoding.                                                               *)

\* Bytes a command takes in its CL, by opcode.
CmdBytes(op) ==
  CASE op \in {"LAUNCH", "LAUNCH_QMD", "DRAW", "CACHE_FLUSH"} -> 12
    [] op = "FENCE" -> 8
    [] op \in {"DCR_WRITE", "DCR_READ", "EVENT_SIG"} -> 20
    [] op \in {"EVENT_WAIT"} \cup MemOps -> 28
    [] OTHER -> 4

\* Offset of the byte after the first n commands of a CL, for n <= 5.
ClOffset(c, n) ==
  LET sz(i) == IF i <= n THEN CmdBytes(c[i].op) ELSE 0
  IN  sz(1) + sz(2) + sz(3) + sz(4) + sz(5)

\* unpack_cl takes commands until the sixth, a zero header (PAD), or one that
\* would run past the end of the CL.
Unpackable(c, n) ==
  /\ n <= Len(c) /\ n <= MaxCmdsPerCl
  /\ \A i \in 1 .. n : c[i].op # "PAD"
  /\ ClOffset(c, n) <= ClBytes

\* Mutant: the slot loop stops one command short.
UnpackClShort(c) ==
  SubSeq(c, 1, CHOOSE n \in 0 .. MaxCmdsPerCl :
                 Unpackable(c, n) /\ n < MaxCmdsPerCl
                   /\ (n + 1 = MaxCmdsPerCl \/ ~Unpackable(c, n + 1)))

UnpackCl(c) ==
  SubSeq(c, 1, CHOOSE n \in 0 .. MaxCmdsPerCl :
                 Unpackable(c, n) /\ ~Unpackable(c, n + 1))

\* cp_translate: a physical operand passes through, any other is walked.
Translate(a, physical) == IF physical THEN a ELSE PageTable[a]

\* event_wait_satisfied_: wait_op_e is EQ, GE, GT, NE.
EventWaitSatisfied(c) ==
  LET v == mem[c.arg0] IN
  CASE c.arg2 = 0 -> v = c.arg1
    [] c.arg2 = 1 -> v >= c.arg1
    [] c.arg2 = 2 -> v > c.arg1
    [] OTHER -> v # c.arg1

\* The position of the last of the first n pairs of q to name register r, if any.
LastWrite(q, n, r) ==
  {i \in 1 .. n : q[i].dcr = r /\ \A j \in i + 1 .. n : q[j].dcr # r}

ReplayPairs(q, n) ==
  [r \in Regs |-> IF LastWrite(q, n, r) = {} THEN dcr[r]
                  ELSE q[CHOOSE i \in LastWrite(q, n, r) : TRUE].value]

AtMost(n, max) == IF n > max THEN max ELSE n

\* Mutant: the last pair of the descriptor is not applied.
ApplyQmdShort(addr) ==
  LET q == QmdAt[Translate(addr, FALSE)]
  IN  ReplayPairs(q, AtMost(Len(q), MaxQmdDcrs) - 1)

\* apply_qmd_: replay at most MaxQmdDcrs pairs in order; the last one to name
\* a register decides its value.
ApplyQmd(addr) ==
  LET q == QmdAt[Translate(addr, FALSE)]
  IN  ReplayPairs(q, AtMost(Len(q), MaxQmdDcrs))

DrawSteps(c) ==
  LET d == DrawAt[Translate(c.arg0, FALSE)]
  IN  SubSeq(d, 1, AtMost(Len(d), MaxDrawSteps))

----------------------------------------------------------------------------
(* tick_launch, given the launch state the engine step of the same tick    *)
(* left behind.                                                            *)

LaunchIdle(l)  == l = "Idle" /\ launch' = "Idle" /\ UNCHANGED gpu

LaunchStart(l) == l = "PulseStart" /\ launch' = "WaitBusy" /\ gpu' = "starting"

LaunchWaitBusy(l) ==
  /\ l = "WaitBusy"
  /\ launch' = IF gpu = "busy" THEN "WaitDrain" ELSE "WaitBusy"
  /\ UNCHANGED gpu

LaunchWaitDrain(l) ==
  /\ l = "WaitDrain"
  /\ launch' = IF gpu = "busy" THEN "WaitDrain" ELSE "Idle"
  /\ UNCHANGED gpu

TickLaunch(l) ==
  LaunchIdle(l) \/ LaunchStart(l) \/ LaunchWaitBusy(l) \/ LaunchWaitDrain(l)

----------------------------------------------------------------------------
(* tick_engine, one action per engine state.  `hostVars` is what only the  *)
(* host changes.                                                           *)

hostVars == <<ring, tail, posted>>

\* load_next_cmd on the loaded CL c at slot s: drop the CL once every command
\* in it has retired, else decode the next one.
LoadNextCmd(c, s) ==
  \/ /\ s >= Len(c)
     /\ head' = head + 1
     /\ clLoaded' = FALSE
     /\ UNCHANGED <<cur, eng>>
  \/ /\ s < Len(c)
     /\ cur' = c[s + 1]
     /\ eng' = "Decode"
     /\ clLoaded' = TRUE
     /\ UNCHANGED head

\* Mutant: the slot counter is not reset for the new line.
EngFetchStaleSlot ==
  /\ eng = "Idle" /\ ~clLoaded /\ head < tail
  /\ cl' = UnpackCl(ring[head % RingSlots])
  /\ LoadNextCmd(cl', slot)
  /\ TickLaunch(launch)
  /\ UNCHANGED <<hostVars, slot, seqnum, drawStep, archVars, dirty>>

EngFetch ==
  /\ eng = "Idle" /\ ~clLoaded /\ head < tail
  /\ cl' = UnpackCl(ring[head % RingSlots])
  /\ slot' = 0
  /\ LoadNextCmd(cl', 0)
  /\ TickLaunch(launch)
  /\ UNCHANGED <<hostVars, seqnum, drawStep, archVars, dirty>>

EngNext ==
  /\ eng = "Idle" /\ clLoaded
  /\ LoadNextCmd(cl, slot)
  /\ TickLaunch(launch)
  /\ UNCHANGED <<hostVars, seqnum, cl, slot, drawStep, archVars, dirty>>

\* A step that only moves the engine to state e and leaves launch state l.
Move(e, l) ==
  /\ eng' = e
  /\ TickLaunch(l)
  /\ UNCHANGED <<hostVars, head, seqnum, clLoaded, cl, slot, cur>>

EngDecode ==
  /\ eng = "Decode"
  /\ Move(IF cur.op \in NoResource THEN "Retire" ELSE "Bid", launch)
  /\ UNCHANGED <<drawStep, archVars, dirty>>

BidLaunch ==
  /\ eng = "Bid" /\ cur.op \in LaunchOps
  /\ dcr' = IF cur.op = "LAUNCH_QMD" THEN ApplyQmd(cur.arg0) ELSE dcr
  /\ Move("WaitDone", "PulseStart")
  /\ UNCHANGED <<drawStep, lastRsp, mem, dirty>>

BidDraw ==
  /\ eng = "Bid" /\ cur.op = "DRAW"
  /\ drawStep' = 0
  /\ Move("DrawStep", launch)
  /\ UNCHANGED <<archVars, dirty>>

\* Mutant: the flush sweep stops one core early.
InlineEffectFlushShort(c) ==
  /\ dcr' = IF c.op = "DCR_WRITE" THEN [dcr EXCEPT ![c.arg0] = c.arg1] ELSE dcr
  /\ lastRsp' = IF c.op = "DCR_READ" THEN [value |-> dcr[c.arg0], no |-> seqnum + 1] ELSE lastRsp
  /\ dirty' = IF c.op = "CACHE_FLUSH" THEN {d \in dirty : d[1] >= c.arg0 - 1} ELSE dirty

\* The effect of an inline command c on the GPU: shared by the ring path and
\* by draw steps.  A DCR read latches its response; a cache flush sweeps cores
\* 0 .. arg0 - 1.
InlineEffect(c) ==
  /\ dcr' = IF c.op = "DCR_WRITE" THEN [dcr EXCEPT ![c.arg0] = c.arg1] ELSE dcr
  /\ lastRsp' = IF c.op = "DCR_READ" THEN [value |-> dcr[c.arg0], no |-> seqnum + 1]
                ELSE lastRsp
  /\ dirty' = IF c.op = "CACHE_FLUSH" THEN {d \in dirty : d[1] >= c.arg0} ELSE dirty

BidInline ==
  /\ eng = "Bid" /\ cur.op \in {"DCR_WRITE", "DCR_READ", "CACHE_FLUSH", "UNKNOWN"}
  /\ InlineEffect(cur)
  /\ Move("Retire", launch)
  /\ UNCHANGED <<drawStep, mem>>

BidEventSig ==
  /\ eng = "Bid" /\ cur.op = "EVENT_SIG"
  /\ mem' = [mem EXCEPT ![cur.arg0] = cur.arg1]
  /\ Move("Retire", launch)
  /\ UNCHANGED <<drawStep, dcr, lastRsp, dirty>>

\* An unsatisfied wait spins in Bid: no state changes until it is satisfied.
BidEventWait ==
  /\ eng = "Bid" /\ cur.op = "EVENT_WAIT"
  /\ EventWaitSatisfied(cur)
  /\ Move("Retire", launch)
  /\ UNCHANGED <<drawStep, archVars, dirty>>

\* The device-side operand is translated: the destination of a write, the
\* source of a read, both of a copy.
BidMem ==
  /\ eng = "Bid" /\ cur.op \in MemOps
  /\ LET dst == IF cur.op = "MEM_READ" THEN cur.arg0 ELSE Translate(cur.arg0, cur.physical)
         src == IF cur.op = "MEM_WRITE" THEN cur.arg1 ELSE Translate(cur.arg1, cur.physical)
     IN  mem' = IF cur.arg2 # 0 THEN [mem EXCEPT ![dst] = mem[src]] ELSE mem
  /\ Move("Retire", launch)
  /\ UNCHANGED <<drawStep, dcr, lastRsp, dirty>>

\* Mutant: the engine does not wait for the launch FSM.
EngWaitDoneAtOnce ==
  /\ eng = "WaitDone"
  /\ Move("Retire", launch)
  /\ UNCHANGED <<drawStep, archVars, dirty>>

EngWaitDone ==
  /\ eng = "WaitDone"
  /\ Move(IF launch # "Idle" THEN "WaitDone" ELSE "Retire", launch)
  /\ UNCHANGED <<drawStep, archVars, dirty>>

\* One step of a draw bundle per tick: past the end it retires, a launch step
\* starts the GPU, anything else takes effect at once.
DrawEnd ==
  /\ eng = "DrawStep" /\ drawStep >= Len(DrawSteps(cur))
  /\ Move("Retire", launch)
  /\ UNCHANGED <<drawStep, archVars, dirty>>

DrawInline ==
  /\ eng = "DrawStep" /\ drawStep < Len(DrawSteps(cur))
  /\ LET c == DrawSteps(cur)[drawStep + 1]
     IN  c.op \notin LaunchOps /\ InlineEffect(c)
  /\ drawStep' = drawStep + 1
  /\ Move("DrawStep", launch)
  /\ UNCHANGED mem

DrawLaunch ==
  /\ eng = "DrawStep" /\ drawStep < Len(DrawSteps(cur))
  /\ LET c == DrawSteps(cur)[drawStep + 1]
     IN  /\ c.op \in LaunchOps
         /\ dcr' = IF c.op = "LAUNCH_QMD" THEN ApplyQmd(c.arg0) ELSE dcr
  /\ Move("DrawLaunchWait", "PulseStart")
  /\ UNCHANGED <<drawStep, lastRsp, mem, dirty>>

\* Mutant: the draw walk resumes at the launch step it has just run.
EngDrawLaunchRepeat ==
  /\ eng = "DrawLaunchWait"
  /\ Move(IF launch # "Idle" THEN "DrawLaunchWait" ELSE "DrawStep", launch)
  /\ UNCHANGED <<drawStep, archVars, dirty>>

EngDrawLaunchWait ==
  /\ eng = "DrawLaunchWait"
  /\ drawStep' = IF launch # "Idle" THEN drawStep ELSE drawStep + 1
  /\ Move(IF launch # "Idle" THEN "DrawLaunchWait" ELSE "DrawStep", launch)
  /\ UNCHANGED <<archVars, dirty>>

\* publish_completion writes seqnum to a cell of its own that only the host
\* reads; the runtime polls the register instead.
EngRetire ==
  /\ eng = "Retire"
  /\ seqnum' = seqnum + 1
  /\ slot' = slot + 1
  /\ eng' = "Idle"
  /\ TickLaunch(launch)
  /\ UNCHANGED <<hostVars, head, clLoaded, cl, cur, drawStep, archVars, dirty>>

Tick ==
  \/ EngFetch \/ EngNext \/ EngDecode
  \/ BidLaunch \/ BidDraw \/ BidInline \/ BidEventSig \/ BidEventWait \/ BidMem
  \/ EngWaitDone \/ DrawEnd \/ DrawInline \/ DrawLaunch \/ EngDrawLaunchWait
  \/ EngRetire

----------------------------------------------------------------------------
(* The GPU.  Its busy wire rises some time after the start pulse and falls *)
(* when the kernel ends, leaving the kernel's writes in the caches of its  *)
(* cores.  Unless MissBusy, the kernel outlasts the CP's next sample.      *)

VortexRise ==
  /\ gpu = "starting"
  /\ gpu' = "busy"
  /\ UNCHANGED <<hostVars, head, seqnum, engVars, launch, archVars, dirty>>

VortexDone ==
  /\ gpu = "busy"
  /\ launch = "WaitBusy" => MissBusy
  /\ gpu' = "off"
  /\ dirty' = dirty \cup (Cores \X {cur.own})
  /\ UNCHANGED <<hostVars, head, seqnum, engVars, launch, archVars>>

----------------------------------------------------------------------------
(* State after cp_init: an empty ring, the CP enabled.                     *)

CpInit ==
  /\ ring = [i \in 0 .. RingSlots - 1 |-> << >>]
  /\ tail = 0 /\ head = 0 /\ seqnum = 0
  /\ clLoaded = FALSE /\ cl = << >> /\ slot = 0 /\ cur = NoCmd
  /\ eng = "Idle" /\ launch = "Idle" /\ drawStep = 0
  /\ dcr \in [Regs -> Vals]
  /\ lastRsp \in [value : Vals, no : {0}]
  /\ mem = [a \in Addrs |-> 0]
  /\ gpu = "off" /\ dirty = {} /\ posted = << >>

\* Every register, FSM state and memory cell of the CP has its type; in particular
\* only values of the registers reach the registers and the response slot.
CpTypeOK ==
  /\ ring \in [0 .. RingSlots - 1 -> Seq(Cmd)]
  /\ tail \in Nat /\ head \in Nat /\ seqnum \in Nat
  /\ clLoaded \in BOOLEAN /\ cl \in Seq(Cmd) /\ slot \in Nat
  /\ cur \in Cmd \cup {NoCmd}
  /\ eng \in EngStates /\ launch \in LaunchStates
  /\ drawStep \in Nat
  /\ dcr \in [Regs -> Vals]
  /\ lastRsp \in [value : Vals, no : Nat]
  /\ mem \in [Addrs -> Data]
  /\ gpu \in {"off", "starting", "busy"} /\ dirty \subseteq Cores \X Owners
  /\ posted \in Seq(Cmd)

----------------------------------------------------------------------------
(* The CP on its own, driven by a host that commits one of the lines Cls   *)
(* per doorbell and never overruns the ring.  MaxPosted bounds the run.    *)

PostCl(c) ==
  /\ Len(posted) + Len(c) <= MaxPosted
  /\ tail - head < RingSlots
  /\ ring' = [ring EXCEPT ![tail % RingSlots] = c]
  /\ tail' = tail + 1
  /\ posted' = posted \o c
  /\ UNCHANGED <<head, seqnum, engVars, launch, archVars, gpu, dirty>>

CpNext == Tick \/ VortexRise \/ VortexDone \/ \E c \in Cls : PostCl(c)

CpFairness == WF_cpVars(Tick) /\ WF_cpVars(VortexRise) /\ WF_cpVars(VortexDone)

CpSpec == CpInit /\ [][CpNext]_cpVars /\ CpFairness

\* A running kernel is never reconfigured, and no command retires while it
\* runs: the launch FSM sees busy rise and fall before the engine moves on
\* (Hooks::vortex_busy).
KernelUndisturbed ==
  [][gpu # "off" => UNCHANGED <<dcr, mem, seqnum, dirty>> \/ VortexDone]_cpVars

\* The two FSMs move in step: a launch is under way only while the engine waits
\* for it, the sub-FSM is idle only once the GPU is, and a command is in hand
\* whenever the engine is not idle.
FsmInv ==
  /\ eng # "Idle" => cur \in Cmd
  /\ eng \in {"DrawStep", "DrawLaunchWait"} => cur.op = "DRAW"
  /\ launch # "PulseStart"
  /\ launch = "Idle" => gpu = "off"
  /\ launch = "WaitDrain" => gpu # "starting"
  /\ launch # "Idle" => eng \in {"WaitDone", "DrawLaunchWait"}

\* What the host sees of the CP: of the commands it has posted, the first seqnum
\* are retired, the next one is in the engine unless that is idle, and the rest
\* have not begun.
Begun == IF eng = "Idle" THEN seqnum ELSE seqnum + 1
Pending == SubSeq(posted, Begun + 1, Len(posted))
Running == IF eng = "Idle" THEN NoCmd ELSE cur

Stream == INSTANCE CommandStream WITH
  Launching <- {c \in Cmd : c.op \in LaunchOps \cup {"DRAW"}},
  None <- NoCmd,
  pending <- Pending,
  running <- Running,
  kernel <- gpu # "off",
  retired <- seqnum

\* The CP implements the command stream: the commands are executed in the order
\* they were posted in, one at a time and exactly once, whatever the packing of
\* the lines and the wrap of the ring, and kernels run inside the command that
\* launched them (tick_engine, unpack_cl).
IsCommandStream == Stream!Spec
=============================================================================

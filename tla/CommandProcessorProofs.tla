----------------------- MODULE CommandProcessorProofs -----------------------
(***************************************************************************)
(* Proofs about CommandProcessor, for every set of registers, commands and *)
(* descriptors and every ring size.                                        *)
(***************************************************************************)
EXTENDS CommandProcessor, TLAPS, SequenceTheorems

CpInv == CpTypeOK /\ FsmInv

\* The state a tick is taken in, and what every launch step preserves.
LEMMA TickLaunchStep ==
  ASSUME NEW l \in LaunchStates, launch \in LaunchStates,
         gpu \in {"off", "starting", "busy"}, TickLaunch(l)
  PROVE  launch' \in LaunchStates /\ gpu' \in {"off", "starting", "busy"}
BY DEF TickLaunch, LaunchIdle, LaunchStart, LaunchWaitBusy, LaunchWaitDrain, LaunchStates

\* unpack_cl returns a prefix of the line: it stops somewhere.
LEMMA UnpackPrefix ==
  ASSUME NEW S, NEW c \in Seq(S)
  PROVE  UnpackCl(c) \in Seq(S)
<1> DEFINE Stop(n) == Unpackable(c, n) /\ ~Unpackable(c, n + 1)
<1>1. Unpackable(c, 0) /\ ~Unpackable(c, 6)
  BY DEF Unpackable, ClOffset, MaxCmdsPerCl, ClBytes
<1>2. \E n \in 0 .. MaxCmdsPerCl : Stop(n)
  <2>1. Stop(0) \/ Stop(1) \/ Stop(2) \/ Stop(3) \/ Stop(4) \/ Stop(5)
    BY <1>1
  <2> QED BY <2>1 DEF MaxCmdsPerCl
<1> DEFINE m == CHOOSE n \in 0 .. MaxCmdsPerCl : Stop(n)
<1>3. m \in 0 .. MaxCmdsPerCl /\ Stop(m)
  BY <1>2
<1>4. ASSUME NEW n \in 0 .. MaxCmdsPerCl, Stop(n)
      PROVE  SubSeq(c, 1, n) \in Seq(S)
  <2>1. n \in Nat /\ n <= Len(c)
    BY <1>4 DEF Unpackable, MaxCmdsPerCl
  <2> QED BY <2>1
<1> HIDE DEF m
<1>5. SubSeq(c, 1, m) \in Seq(S)
  BY <1>3, <1>4
<1> QED BY <1>5 DEF UnpackCl, m

\* A count capped at a limit stays within the sequence.
LEMMA AtMostLen ==
  ASSUME NEW S, NEW s \in Seq(S), NEW m \in Nat
  PROVE  /\ AtMost(Len(s), m) \in Nat /\ AtMost(Len(s), m) <= Len(s)
         /\ SubSeq(s, 1, AtMost(Len(s), m)) \in Seq(S)
         /\ \A k \in 1 .. Len(s) : s[k] \in S
<1>1. Len(s) \in Nat
  OBVIOUS
<1>2. AtMost(Len(s), m) \in Nat /\ AtMost(Len(s), m) <= Len(s)
  BY <1>1 DEF AtMost
<1> QED BY <1>2

\* Register values stay register values when a descriptor is replayed.
LEMMA ApplyQmdType ==
  ASSUME NEW a \in Addrs, dcr \in [Regs -> Vals]
  PROVE  ApplyQmd(a) \in [Regs -> Vals]
<1> DEFINE q == QmdAt[Translate(a, FALSE)]
           n == AtMost(Len(q), MaxQmdDcrs)
           Pair == [dcr : Regs, value : Vals]
<1>1. q \in Seq(Pair)
  BY CpAssumption DEF Translate
<1> HIDE DEF q, Pair
<1>2. n \in Nat /\ n <= Len(q) /\ \A k \in 1 .. Len(q) : q[k] \in Pair
  BY <1>1, AtMostLen DEF MaxQmdDcrs
<1> HIDE DEF n
<1>3. ASSUME NEW r \in Regs, LastWrite(q, n, r) # {}
      PROVE  q[CHOOSE i \in LastWrite(q, n, r) : TRUE].value \in Vals
  <2> DEFINE k == CHOOSE i \in LastWrite(q, n, r) : TRUE
  <2>1. k \in LastWrite(q, n, r)
    BY <1>3
  <2> HIDE DEF k
  <2>2. k \in 1 .. n
    BY <2>1 DEF LastWrite
  <2>3. Len(q) \in Nat
    BY <1>1
  <2>4. q[k] \in Pair
    BY <1>2, <2>2, <2>3
  <2>5. q[k].value \in Vals
    BY <2>4 DEF Pair
  <2> QED BY <2>5 DEF k
<1>4. ReplayPairs(q, n) \in [Regs -> Vals]
  BY <1>3 DEF ReplayPairs
<1> QED BY <1>4 DEF ApplyQmd, q, n

\* A draw bundle is a sequence of commands.
LEMMA DrawStepsType ==
  ASSUME NEW c \in Cmd, c.op = "DRAW"
  PROVE  DrawSteps(c) \in Seq(Cmd)
<1>1. c.arg0 \in Addrs
  BY CpAssumption DEF CmdOK
<1> DEFINE d == DrawAt[Translate(c.arg0, FALSE)]
<1>2. d \in Seq(Cmd)
  BY <1>1, CpAssumption DEF Translate
<1> HIDE DEF d
<1>3. SubSeq(d, 1, AtMost(Len(d), MaxDrawSteps)) \in Seq(Cmd)
  BY <1>2, AtMostLen DEF MaxDrawSteps
<1> QED BY <1>3 DEF DrawSteps, d
\* What a step of the launch sub-FSM leaves behind, when it is taken from a
\* state of rest or right after the engine has kicked it.
LEMMA LaunchStep ==
  ASSUME CpInv, NEW l \in {launch, "PulseStart"}, TickLaunch(l)
  PROVE  /\ launch' \in LaunchStates \ {"PulseStart"}
         /\ gpu' \in {"off", "starting", "busy"}
         /\ launch' = "Idle" => gpu' = "off"
         /\ launch' = "WaitDrain" => gpu' # "starting"
         /\ l = "Idle" => launch' = "Idle" /\ gpu' = gpu
BY DEF CpInv, CpTypeOK, FsmInv, TickLaunch, LaunchIdle, LaunchStart, LaunchWaitBusy,
       LaunchWaitDrain, LaunchStates

\* The command in hand is well formed whenever the engine is not idle.
LEMMA CurOK ==
  ASSUME CpInv, eng # "Idle"
  PROVE  cur \in Cmd /\ CmdOK(cur)
BY CpAssumption DEF CpInv, FsmInv

\* Fetching or resuming a line: the engine gets a command of the line or drops it.
LEMMA LoadStep ==
  ASSUME CpInv, NEW c \in Seq(Cmd), NEW s \in Nat, eng = "Idle",
         cl' = c, slot' = s, LoadNextCmd(c, s), TickLaunch(launch),
         UNCHANGED <<hostVars, seqnum, drawStep, archVars, dirty>>
  PROVE  CpInv'
<1>1. launch = "Idle"
  BY DEF CpInv, CpTypeOK, FsmInv, LaunchStates
<1>2. launch' = "Idle" /\ gpu' = gpu /\ gpu = "off"
  BY <1>1, LaunchStep DEF CpInv, CpTypeOK, FsmInv
<1>3. CASE s >= Len(c)
  <2>1. head' = head + 1 /\ clLoaded' = FALSE /\ UNCHANGED <<cur, eng>>
    BY <1>3 DEF LoadNextCmd
  <2>2. CpTypeOK'
    <3>1. head' \in Nat
      BY <2>1 DEF CpInv, CpTypeOK
    <3>2a. clLoaded' \in BOOLEAN
      BY <2>1, Zenon
    <3>2. cur' \in Cmd \cup {NoCmd} /\ eng' \in EngStates
      BY <2>1 DEF CpInv, CpTypeOK
    <3> QED BY <1>2, <3>1, <3>2, <3>2a DEF CpInv, CpTypeOK, hostVars, archVars, LaunchStates
  <2>3. FsmInv'
    BY <1>2, <2>1 DEF FsmInv
  <2> QED BY <2>2, <2>3 DEF CpInv
<1>4. CASE ~(s >= Len(c))
  <2>1. cur' = c[s + 1] /\ eng' = "Decode" /\ clLoaded' = TRUE /\ head' = head
    BY <1>4 DEF LoadNextCmd
  <2>2. cur' \in Cmd
    BY <1>4, <2>1
  <2>3. CpTypeOK'
    BY <1>2, <2>1, <2>2 DEF CpInv, CpTypeOK, hostVars, archVars, LaunchStates, EngStates
  <2> QED BY <1>2, <2>1, <2>2, <2>3 DEF CpInv, FsmInv
<1> QED BY <1>3, <1>4

\* A step in which the engine keeps its command and only moves: what is left to
\* show is that it writes values of the right kind.
LEMMA MoveStep ==
  ASSUME CpInv, eng # "Idle", NEW e \in EngStates, NEW l \in {launch, "PulseStart"},
         Move(e, l),
         drawStep' \in Nat, dcr' \in [Regs -> Vals],
         lastRsp' \in [value : Vals, no : Nat], mem' \in [Addrs -> Data],
         dirty' \subseteq Cores \X Owners,
         e \in {"DrawStep", "DrawLaunchWait"} => cur.op = "DRAW",
         l # "Idle" => e \in {"WaitDone", "DrawLaunchWait"}
  PROVE  CpInv'
<1>1. TickLaunch(l) /\ eng' = e
      /\ UNCHANGED <<hostVars, head, seqnum, clLoaded, cl, slot, cur>>
  BY DEF Move
<1>2. /\ launch' \in LaunchStates \ {"PulseStart"}
      /\ gpu' \in {"off", "starting", "busy"}
      /\ launch' = "Idle" => gpu' = "off"
      /\ launch' = "WaitDrain" => gpu' # "starting"
      /\ l = "Idle" => launch' = "Idle"
  BY <1>1, LaunchStep
<1>3. CpTypeOK'
  BY <1>1, <1>2 DEF CpInv, CpTypeOK, hostVars
<1>4. FsmInv'
  BY <1>1, <1>2, CurOK DEF FsmInv
<1> QED BY <1>3, <1>4 DEF CpInv

\* The inline commands write values of the right kind.
LEMMA InlineType ==
  ASSUME CpInv, NEW c \in Cmd, InlineEffect(c)
  PROVE  /\ dcr' \in [Regs -> Vals]
         /\ lastRsp' \in [value : Vals, no : Nat]
         /\ dirty' \subseteq Cores \X Owners
<1>1. CmdOK(c)
  BY CpAssumption
<1>2. dcr \in [Regs -> Vals] /\ lastRsp \in [value : Vals, no : Nat]
      /\ dirty \subseteq Cores \X Owners /\ seqnum + 1 \in Nat
  BY DEF CpInv, CpTypeOK
<1>3. dcr' \in [Regs -> Vals]
  BY <1>1, <1>2 DEF InlineEffect, CmdOK
<1>4. lastRsp' \in [value : Vals, no : Nat]
  BY <1>1, <1>2 DEF InlineEffect, CmdOK
<1>5. dirty' \subseteq Cores \X Owners
  BY <1>2 DEF InlineEffect
<1> QED BY <1>3, <1>4, <1>5

\* Every tick, and every step of the GPU, keeps the types and the FSMs in step.
LEMMA DeviceStep ==
  ASSUME CpInv, Tick \/ VortexRise \/ VortexDone
  PROVE  CpInv'
<1> USE DEF EngStates
<1>0. /\ drawStep \in Nat /\ dcr \in [Regs -> Vals] /\ slot \in Nat
      /\ lastRsp \in [value : Vals, no : Nat] /\ mem \in [Addrs -> Data]
      /\ dirty \subseteq Cores \X Owners /\ cl \in Seq(Cmd)
  BY DEF CpInv, CpTypeOK
<1>a. eng \notin {"WaitDone", "DrawLaunchWait"} => launch = "Idle"
  BY DEF CpInv, CpTypeOK, FsmInv, LaunchStates
<1>1. CASE EngFetch
  <2>1. head \in Nat /\ ring[head % RingSlots] \in Seq(Cmd)
    BY CpAssumption DEF CpInv, CpTypeOK
  <2>2. UnpackCl(ring[head % RingSlots]) \in Seq(Cmd)
    BY <2>1, UnpackPrefix
  <2>3. 0 \in Nat
    OBVIOUS
  <2> QED BY <1>1, <2>2, <2>3, LoadStep DEF EngFetch
<1>2. CASE EngNext
  <2>1. cl' = cl /\ slot' = slot
    BY <1>2 DEF EngNext
  <2> QED BY <1>0, <1>2, <2>1, LoadStep DEF EngNext
<1>3. CASE EngDecode
  <2> DEFINE e == IF cur.op \in NoResource THEN "Retire" ELSE "Bid"
  <2>1. e \in EngStates \ {"Idle", "DrawStep", "DrawLaunchWait", "WaitDone"}
    OBVIOUS
  <2>2. Move(e, launch) /\ UNCHANGED <<drawStep, archVars, dirty>> /\ eng = "Decode"
    BY <1>3 DEF EngDecode
  <2> HIDE DEF e
  <2> QED BY <1>0, <1>a, <2>1, <2>2, MoveStep DEF archVars
<1>4. CASE BidLaunch
  <2>1. CmdOK(cur) /\ cur.op \in LaunchOps
    BY <1>4, CurOK DEF BidLaunch
  <2>2. dcr' \in [Regs -> Vals]
    BY <1>0, <1>4, <2>1, ApplyQmdType DEF BidLaunch, CmdOK, LaunchOps
  <2> QED BY <1>0, <1>4, <2>2, MoveStep DEF BidLaunch
<1>5. CASE BidDraw
  BY <1>0, <1>a, <1>5, MoveStep DEF BidDraw, archVars
<1>6. CASE BidInline
  <2>1. cur \in Cmd
    BY <1>6, CurOK DEF BidInline
  <2> QED BY <1>0, <1>a, <1>6, <2>1, InlineType, MoveStep DEF BidInline
<1>7. CASE BidEventSig
  <2>1. CmdOK(cur) /\ cur.op = "EVENT_SIG"
    BY <1>7, CurOK DEF BidEventSig
  <2>2. mem' \in [Addrs -> Data]
    BY <1>0, <1>7, <2>1 DEF BidEventSig, CmdOK
  <2> QED BY <1>0, <1>a, <1>7, <2>2, MoveStep DEF BidEventSig
<1>8. CASE BidEventWait
  BY <1>0, <1>a, <1>8, MoveStep DEF BidEventWait, archVars
<1>9. CASE BidMem
  <2>1. CmdOK(cur) /\ cur.op \in MemOps
    BY <1>9, CurOK DEF BidMem
  <2>2. cur.arg0 \in Addrs /\ cur.arg1 \in Addrs
        /\ Translate(cur.arg0, cur.physical) \in Addrs
        /\ Translate(cur.arg1, cur.physical) \in Addrs
    BY <2>1, CpAssumption DEF CmdOK, Translate
  <2>3. mem' \in [Addrs -> Data]
    BY <1>0, <1>9, <2>2 DEF BidMem
  <2> QED BY <1>0, <1>a, <1>9, <2>3, MoveStep DEF BidMem
<1>10. CASE EngWaitDone
  <2> DEFINE e == IF launch # "Idle" THEN "WaitDone" ELSE "Retire"
  <2>1. e \in EngStates \ {"DrawStep", "DrawLaunchWait"} /\ (launch # "Idle" => e = "WaitDone")
    OBVIOUS
  <2>2. Move(e, launch) /\ UNCHANGED <<drawStep, archVars, dirty>> /\ eng = "WaitDone"
    BY <1>10 DEF EngWaitDone
  <2> HIDE DEF e
  <2> QED BY <1>0, <2>1, <2>2, MoveStep DEF archVars
<1>11. CASE DrawEnd
  BY <1>0, <1>a, <1>11, MoveStep DEF DrawEnd, archVars
<1>12. CASE DrawInline
  <2>1. eng = "DrawStep" /\ cur \in Cmd /\ cur.op = "DRAW"
    BY <1>12 DEF DrawInline, CpInv, FsmInv
  <2> DEFINE c == DrawSteps(cur)[drawStep + 1]
  <2>2. c \in Cmd
    BY <1>0, <1>12, <2>1, DrawStepsType DEF DrawInline
  <2>3. InlineEffect(c)
    BY <1>12 DEF DrawInline
  <2>4. drawStep' = drawStep + 1 /\ Move("DrawStep", launch) /\ mem' = mem
    BY <1>12 DEF DrawInline
  <2> HIDE DEF c
  <2> QED BY <1>0, <1>a, <2>1, <2>2, <2>3, <2>4, InlineType, MoveStep
<1>13. CASE DrawLaunch
  <2>1. eng = "DrawStep" /\ cur \in Cmd /\ cur.op = "DRAW"
    BY <1>13 DEF DrawLaunch, CpInv, FsmInv
  <2> DEFINE c == DrawSteps(cur)[drawStep + 1]
  <2>2. c \in Cmd
    BY <1>0, <1>13, <2>1, DrawStepsType DEF DrawLaunch
  <2>3. c.op \in LaunchOps /\ dcr' = IF c.op = "LAUNCH_QMD" THEN ApplyQmd(c.arg0) ELSE dcr
    BY <1>13 DEF DrawLaunch
  <2>4. Move("DrawLaunchWait", "PulseStart") /\ UNCHANGED <<drawStep, lastRsp, mem, dirty>>
    BY <1>13 DEF DrawLaunch
  <2> HIDE DEF c
  <2>5. dcr' \in [Regs -> Vals]
    BY <1>0, <2>2, <2>3, ApplyQmdType, CpAssumption DEF CmdOK, LaunchOps
  <2> QED BY <1>0, <2>1, <2>4, <2>5, MoveStep
<1>14. CASE EngDrawLaunchWait
  <2> DEFINE e == IF launch # "Idle" THEN "DrawLaunchWait" ELSE "DrawStep"
  <2>1. e \in EngStates /\ (launch # "Idle" => e = "DrawLaunchWait")
    OBVIOUS
  <2>2. Move(e, launch) /\ UNCHANGED <<archVars, dirty>> /\ eng = "DrawLaunchWait"
    BY <1>14 DEF EngDrawLaunchWait
  <2>3. drawStep' \in Nat
    BY <1>0, <1>14 DEF EngDrawLaunchWait
  <2>4. cur.op = "DRAW"
    BY <2>2 DEF CpInv, FsmInv
  <2> HIDE DEF e
  <2> QED BY <1>0, <2>1, <2>2, <2>3, <2>4, MoveStep DEF archVars
<1>15. CASE EngRetire
  <2>1. launch = "Idle" /\ launch' = "Idle" /\ gpu' = gpu
    BY <1>15, <1>a, LaunchStep DEF EngRetire
  <2>2. CpTypeOK'
    BY <1>15, <2>1 DEF EngRetire, CpInv, CpTypeOK, hostVars, archVars
  <2>3. FsmInv'
    BY <1>15, <2>1 DEF EngRetire, CpInv, FsmInv
  <2> QED BY <2>2, <2>3 DEF CpInv
<1>16. CASE VortexRise
  <2>1. CpTypeOK'
    BY <1>16 DEF VortexRise, CpInv, CpTypeOK, hostVars, engVars, archVars
  <2>2. FsmInv'
    BY <1>16 DEF VortexRise, CpInv, FsmInv, engVars
  <2> QED BY <2>1, <2>2 DEF CpInv
<1>17. CASE VortexDone
  <2>1. eng # "Idle"
    BY <1>17, <1>a DEF VortexDone, CpInv, FsmInv
  <2>2. cur.own \in Owners
    BY <2>1, CurOK DEF CmdOK
  <2>3. dirty' \subseteq Cores \X Owners
    BY <1>0, <1>17, <2>2 DEF VortexDone
  <2>4. CpTypeOK'
    BY <1>17, <2>3 DEF VortexDone, CpInv, CpTypeOK, hostVars, engVars, archVars
  <2>5. FsmInv'
    BY <1>17 DEF VortexDone, CpInv, FsmInv, engVars
  <2> QED BY <2>4, <2>5 DEF CpInv
<1> QED
  BY <1>1, <1>2, <1>3, <1>4, <1>5, <1>6, <1>7, <1>8, <1>9, <1>10, <1>11, <1>12,
     <1>13, <1>14, <1>15, <1>16, <1>17 DEF Tick

\* The initial state after cp_init.
LEMMA CpInitInv == CpInit => CpInv
<1> SUFFICES ASSUME CpInit PROVE CpInv
  OBVIOUS
<1>1. CpTypeOK
  <2>1. clLoaded \in BOOLEAN
    BY Zenon DEF CpInit
  <2>2. ring \in [0 .. RingSlots - 1 -> Seq(Cmd)] /\ cl \in Seq(Cmd) /\ posted \in Seq(Cmd)
    BY DEF CpInit
  <2>3. mem \in [Addrs -> Data]
    BY CpAssumption DEF CpInit
  <2> QED BY <2>1, <2>2, <2>3 DEF CpInit, CpTypeOK, EngStates, LaunchStates
<1>2. FsmInv
  BY DEF CpInit, FsmInv
<1> QED BY <1>1, <1>2 DEF CpInv

\* Posting a line leaves the CP's own state alone.
LEMMA PostStep ==
  ASSUME CpInv, NEW c \in Cls, PostCl(c)
  PROVE  CpInv'
<1>1. c \in Seq(Cmd)
  BY CpAssumption
<1>2. CpTypeOK'
  <2>1. tail' \in Nat /\ posted' \in Seq(Cmd)
    BY <1>1 DEF PostCl, CpInv, CpTypeOK
  <2>2. ring' \in [0 .. RingSlots - 1 -> Seq(Cmd)]
    BY <1>1 DEF PostCl, CpInv, CpTypeOK
  <2> QED BY <2>1, <2>2 DEF PostCl, CpInv, CpTypeOK, engVars, archVars
<1>3. FsmInv'
  BY DEF PostCl, CpInv, FsmInv, engVars
<1> QED BY <1>2, <1>3 DEF CpInv

\* The inductive invariant of the CP on its own.
THEOREM CpInvariant == CpSpec => []CpInv
<1>1. CpInv /\ [CpNext]_cpVars => CpInv'
  <2> SUFFICES ASSUME CpInv, [CpNext]_cpVars PROVE CpInv'
    OBVIOUS
  <2>1. CASE UNCHANGED cpVars
    BY <2>1 DEF CpInv, CpTypeOK, FsmInv, cpVars, engVars, archVars
  <2>2. CASE CpNext
    BY <2>2, DeviceStep, PostStep DEF CpNext
  <2> QED BY <2>1, <2>2
<1> QED BY <1>1, CpInitInv, PTL DEF CpSpec

\* The registers, the memory cells, the FSMs and the ring of the CP always hold
\* values of their kind (cmd_processor.h), whatever the host posts.
THEOREM CpTypeCorrect == CpSpec => []CpTypeOK
<1>1. CpInv => CpTypeOK
  BY DEF CpInv
<1> QED BY <1>1, CpInvariant, PTL

\* The engine and the launch sub-FSM of tick() stay in step.
THEOREM CpFsmCorrect == CpSpec => []FsmInv
<1>1. CpInv => FsmInv
  BY DEF CpInv
<1> QED BY <1>1, CpInvariant, PTL

\* No kernel is reconfigured, and no command retires, while the GPU is running:
\* WaitDone and DrawLaunchWait hold the engine until busy has risen and fallen.
THEOREM CpKernelUndisturbed == CpSpec => KernelUndisturbed
<1> DEFINE Quiet == gpu # "off" => UNCHANGED <<dcr, mem, seqnum, dirty>> \/ VortexDone
<1>1. CpInv /\ [CpNext]_cpVars => [Quiet]_cpVars
  <2> SUFFICES ASSUME CpInv, CpNext, gpu # "off", ~VortexDone
               PROVE  UNCHANGED <<dcr, mem, seqnum, dirty>>
    OBVIOUS
  <2>1. eng \in {"WaitDone", "DrawLaunchWait"}
    BY DEF CpInv, FsmInv
  <2>2. CASE Tick
    BY <2>1, <2>2 DEF Tick, EngFetch, EngNext, EngDecode, BidLaunch, BidDraw, BidInline,
       BidEventSig, BidEventWait, BidMem, EngWaitDone, DrawEnd, DrawInline, DrawLaunch,
       EngDrawLaunchWait, EngRetire, Move, archVars
  <2>3. CASE VortexRise
    BY <2>3 DEF VortexRise, archVars
  <2>4. CASE \E c \in Cls : PostCl(c)
    BY <2>4 DEF PostCl, archVars
  <2> QED BY <2>2, <2>3, <2>4 DEF CpNext
<1> QED BY <1>1, CpInvariant, PTL DEF CpSpec, KernelUndisturbed
----------------------------------------------------------------------------
(* The refinement of CommandStream.  `at` says how many of the posted      *)
(* commands precede each line of the ring.                                 *)

\* Division with remainder, and two ring slots less than a ring apart.
LEMMA DivMod ==
  ASSUME NEW N \in Nat, N > 0, NEW i \in Nat
  PROVE  /\ i = (i \div N) * N + (i % N)
         /\ i \div N \in Int /\ i % N \in 0 .. N - 1
<1>1. i = (i \div N) * N + (i % N)
  BY Z3
<1>2. i \div N \in Int
  BY SMT
<1>3. i % N \in 0 .. N - 1
  BY SMT
<1> QED BY <1>1, <1>2, <1>3

\* Lines less than a ring apart lie in different slots.
LEMMA ModDistinct ==
  ASSUME NEW N \in Nat, N > 0, NEW i \in Nat, NEW j \in Nat, i < j, j - i < N
  PROVE  i % N # j % N
<1> SUFFICES ASSUME i % N = j % N PROVE FALSE
  OBVIOUS
<1>1. PICK a \in Int, b \in Int, r \in 0 .. N - 1 : i = a * N + r /\ j = b * N + r
  <2>1. i = (i \div N) * N + (i % N) /\ i \div N \in Int /\ i % N \in 0 .. N - 1
    BY DivMod
  <2>2. j = (j \div N) * N + (j % N) /\ j \div N \in Int
    BY DivMod
  <2> QED BY <2>1, <2>2
<1>2. j - i = (b - a) * N
  BY <1>1
<1> DEFINE k == b - a
<1>3. k \in Int
  OBVIOUS
<1> HIDE DEF k
<1>4. k >= 1 => k * N >= N
  BY <1>3
<1>5. k <= 0 => k * N <= 0
  BY <1>3
<1>6. k * N \in Int /\ j - i = k * N
  BY <1>2, <1>3 DEF k
<1> QED BY <1>3, <1>4, <1>5, <1>6

\* Only fetching, consuming and retiring move the CP along the ring.
LEMMA TickShape ==
  ASSUME CpInv, Tick
  PROVE  \/ EngFetch \/ EngNext \/ EngRetire
         \/ /\ eng # "Idle" /\ eng' # "Idle"
            /\ UNCHANGED <<hostVars, head, seqnum, clLoaded, cl, slot, cur>>
BY DEF Tick, EngDecode, BidLaunch, BidDraw, BidInline, BidEventSig, BidEventWait, BidMem,
       EngWaitDone, DrawEnd, DrawInline, DrawLaunch, EngDrawLaunchWait, Move

\* The host packs no line the CP would cut short (unpack_cl stops at the line's
\* end, at its sixth command and at a zero header).
WellPacked == \A c \in Cls : Unpackable(c, Len(c))

\* The commands of a line start no later in a shorter prefix of it.
LEMMA OffsetMonotone ==
  ASSUME NEW c, NEW m \in Nat, NEW l \in Nat, m <= l
  PROVE  ClOffset(c, m) \in Nat /\ ClOffset(c, l) \in Nat /\ ClOffset(c, m) <= ClOffset(c, l)
<1> DEFINE sz(i, k) == IF i <= k THEN CmdBytes(c[i].op) ELSE 0
           f == [i \in 1 .. 5 |-> sz(i, m)]
           g == [i \in 1 .. 5 |-> sz(i, l)]
<1>1. \A x : CmdBytes(x) \in Nat
  BY DEF CmdBytes
<1>2. \A i \in 1 .. 5 : f[i] \in Nat /\ g[i] \in Nat /\ f[i] <= g[i]
  BY <1>1
<1>3. /\ ClOffset(c, m) = f[1] + f[2] + f[3] + f[4] + f[5]
      /\ ClOffset(c, l) = g[1] + g[2] + g[3] + g[4] + g[5]
  BY DEF ClOffset
<1> HIDE DEF f, g
<1> QED BY <1>2, <1>3

\* unpack_cl takes the whole of such a line.
LEMMA UnpackWhole ==
  ASSUME NEW c \in Seq(Cmd), Unpackable(c, Len(c))
  PROVE  UnpackCl(c) = c
<1>1. PICK l \in Nat : l = Len(c)
  OBVIOUS
<1>2. Unpackable(c, l) /\ l <= 5
  BY <1>1 DEF Unpackable, MaxCmdsPerCl
<1>3. l \in 0 .. 5
  BY <1>2
<1>4. ~Unpackable(c, l + 1)
  BY <1>1 DEF Unpackable
<1>5. \A n \in 0 .. 5 : Unpackable(c, n) => n <= l
  BY <1>1 DEF Unpackable
<1>6. ASSUME NEW n \in 0 .. 5, n < l PROVE Unpackable(c, n + 1)
  <2>1. PICK m \in Nat : m = n + 1 /\ m <= l
    BY <1>6
  <2>2. ClOffset(c, m) \in Nat /\ ClOffset(c, l) \in Nat /\ ClOffset(c, m) <= ClOffset(c, l)
    BY <2>1, OffsetMonotone
  <2>3. ClOffset(c, l) <= 64 /\ \A i \in 1 .. l : c[i].op # "PAD"
    BY <1>2 DEF Unpackable, ClBytes
  <2>4. ClOffset(c, m) <= 64
    BY <2>2, <2>3
  <2>5. \A i \in 1 .. m : c[i].op # "PAD"
    BY <2>1, <2>3
  <2>6. Unpackable(c, m)
    BY <1>1, <1>2, <2>1, <2>4, <2>5 DEF Unpackable, ClBytes, MaxCmdsPerCl
  <2> QED BY <2>1, <2>6
<1>7. \A n \in 0 .. 5 : Unpackable(c, n) /\ ~Unpackable(c, n + 1) => n = l
  BY <1>5, <1>6
<1>8. (CHOOSE n \in 0 .. MaxCmdsPerCl : Unpackable(c, n) /\ ~Unpackable(c, n + 1)) = l
  BY <1>2, <1>3, <1>4, <1>7 DEF MaxCmdsPerCl
<1>9. SubSeq(c, 1, Len(c)) = c
  BY SubSeqFull
<1> QED BY <1>1, <1>8, <1>9 DEF UnpackCl

LineAt(at, i, c) ==
  /\ c \in Cls
  /\ at[i + 1] = at[i] + Len(c) /\ at[i + 1] <= Len(posted)
  /\ \A j \in 1 .. Len(c) : posted[at[i] + j] = c[j]

\* The lines from head to tail hold the posted commands that are not retired,
\* and those retired of the line in hand.
Lines(at) ==
  /\ at \in [Nat -> Nat] /\ at[tail] = Len(posted)
  /\ head <= tail /\ tail - head <= RingSlots
  /\ \A i \in head .. tail - 1 : LineAt(at, i, ring[i % RingSlots])

\* Where the engine stands in the line at head.
InHand(at) ==
  /\ clLoaded => /\ head < tail /\ cl = ring[head % RingSlots]
                 /\ slot <= Len(cl) /\ seqnum = at[head] + slot
  /\ ~clLoaded => seqnum = at[head] /\ eng = "Idle"
  /\ eng # "Idle" => slot < Len(cl) /\ cur = cl[slot + 1]

StreamInv == \E at : Lines(at) /\ InHand(at)

LEMMA CpNumbers ==
  ASSUME CpInv
  PROVE  /\ RingSlots \in Nat /\ RingSlots > 0
         /\ head \in Nat /\ tail \in Nat /\ seqnum \in Nat /\ slot \in Nat
         /\ posted \in Seq(Cmd) /\ Len(posted) \in Nat /\ cl \in Seq(Cmd)
         /\ Len(cl) \in Nat /\ ring \in [0 .. RingSlots - 1 -> Seq(Cmd)]
         /\ clLoaded \in BOOLEAN
BY CpAssumption DEF CpInv, CpTypeOK

LEMMA StreamInit == CpInit => StreamInv
<1> SUFFICES ASSUME CpInit PROVE StreamInv
  OBVIOUS
<1> DEFINE at == [i \in Nat |-> 0]
<1>0. RingSlots \in Nat /\ RingSlots > 0
  BY CpAssumption
<1>1. Lines(at)
  BY <1>0 DEF CpInit, Lines
<1>2. InHand(at)
  BY DEF CpInit, InHand
<1> QED BY <1>1, <1>2 DEF StreamInv

\* A step that keeps the ring, the counters and the command in hand.
LEMMA QuietLines ==
  ASSUME StreamInv, UNCHANGED <<hostVars, head, seqnum, clLoaded, cl, slot, cur>>,
         (eng' = "Idle") <=> (eng = "Idle")
  PROVE  StreamInv'
<1>1. PICK at : Lines(at) /\ InHand(at)
  BY DEF StreamInv
<1>2. Lines(at)'
  BY <1>1 DEF Lines, LineAt, hostVars
<1>3. InHand(at)'
  BY <1>1 DEF InHand, hostVars
<1> QED BY <1>2, <1>3 DEF StreamInv

\* The line at head, when there is one.
LEMMA HeadLine ==
  ASSUME CpInv, NEW at, Lines(at), head < tail
  PROVE  /\ LineAt(at, head, ring[head % RingSlots])
         /\ ring[head % RingSlots] \in Cls /\ Len(ring[head % RingSlots]) \in Nat
         /\ ring[head % RingSlots] \in Seq(Cmd)
         /\ at[head] \in Nat /\ at[head + 1] \in Nat
<1>0. head \in Nat /\ tail \in Nat
  BY CpNumbers
<1>1. head \in head .. tail - 1
  BY <1>0
<1>2. LineAt(at, head, ring[head % RingSlots])
  BY <1>1 DEF Lines
<1>3. ring[head % RingSlots] \in Seq(Cmd)
  BY <1>2, CpAssumption DEF LineAt
<1>4. at[head] \in Nat /\ at[head + 1] \in Nat
  <2>1. at \in [Nat -> Nat]
    BY DEF Lines
  <2>2. head + 1 \in Nat
    BY <1>0
  <2> QED BY <1>0, <2>1, <2>2
<1>5. ring[head % RingSlots] \in Cls
  BY <1>2 DEF LineAt
<1> QED BY <1>2, <1>3, <1>4, <1>5

\* Dropping the line at head.
LEMMA DropLine ==
  ASSUME CpInv, NEW at, Lines(at), head < tail, head' = head + 1, UNCHANGED hostVars
  PROVE  Lines(at)'
<1>0. head \in Nat /\ tail \in Nat /\ RingSlots \in Nat
  BY CpNumbers
<1>1. UNCHANGED <<ring, tail, posted>>
  BY DEF hostVars
<1>2. head' .. tail' - 1 \subseteq head .. tail - 1
  BY <1>0, <1>1
<1>3. \A i \in head' .. tail' - 1 : LineAt(at, i, ring[i % RingSlots])'
  <2> SUFFICES ASSUME NEW i \in head' .. tail' - 1 PROVE LineAt(at, i, ring[i % RingSlots])'
    OBVIOUS
  <2>1. LineAt(at, i, ring[i % RingSlots])
    BY <1>2 DEF Lines
  <2> QED BY <1>1, <2>1 DEF LineAt
<1>4. head' <= tail' /\ tail' - head' <= RingSlots
  BY <1>0, <1>1 DEF Lines
<1> QED BY <1>1, <1>3, <1>4 DEF Lines

LEMMA SameLines ==
  ASSUME NEW at, Lines(at), head' = head, UNCHANGED hostVars
  PROVE  Lines(at)'
BY DEF Lines, LineAt, hostVars

\* unpack_cl and the first command of a fetched line.
LEMMA FetchLines ==
  ASSUME WellPacked, CpInv, StreamInv, EngFetch
  PROVE  StreamInv'
<1>0. head \in Nat /\ tail \in Nat /\ seqnum \in Nat
  BY CpNumbers
<1>1. PICK at : Lines(at) /\ InHand(at)
  BY DEF StreamInv
<1> DEFINE c == ring[head % RingSlots]
<1>2. /\ eng = "Idle" /\ ~clLoaded /\ head < tail /\ slot' = 0 /\ UNCHANGED <<hostVars, seqnum>>
      /\ cl' = UnpackCl(c) /\ LoadNextCmd(cl', 0)
  BY DEF EngFetch
<1>3. LineAt(at, head, c) /\ c \in Cls /\ c \in Seq(Cmd) /\ Len(c) \in Nat /\ at[head] \in Nat
  BY <1>1, <1>2, HeadLine
<1>4. cl' = c
  BY <1>2, <1>3, UnpackWhole DEF WellPacked
<1>5. seqnum = at[head]
  BY <1>1, <1>2 DEF InHand
<1>6. CASE 0 >= Len(c)
  <2>1. head' = head + 1 /\ clLoaded' = FALSE /\ eng' = eng
    BY <1>2, <1>3, <1>4, <1>6 DEF LoadNextCmd
  <2>2. Lines(at)'
    BY <1>1, <1>2, <2>1, DropLine
  <2>3. at[head + 1] = at[head]
    BY <1>3, <1>6 DEF LineAt
  <2>4. InHand(at)'
    BY <1>2, <1>5, <2>1, <2>3 DEF InHand
  <2> QED BY <2>2, <2>4 DEF StreamInv
<1>7. CASE 0 < Len(c)
  <2>1. cur' = c[1] /\ eng' = "Decode" /\ clLoaded' = TRUE /\ head' = head
    BY <1>2, <1>3, <1>4, <1>7 DEF LoadNextCmd
  <2>2. Lines(at)'
    BY <1>1, <1>2, <2>1, SameLines
  <2>3. ring' = ring /\ tail' = tail
    BY <1>2 DEF hostVars
  <2>4. InHand(at)'
    BY <1>0, <1>2, <1>3, <1>4, <1>5, <1>7, <2>1, <2>3 DEF InHand
  <2> QED BY <2>2, <2>4 DEF StreamInv
<1> QED BY <1>3, <1>6, <1>7
\* The next command of the loaded line, or the end of the line.
LEMMA NextLines ==
  ASSUME CpInv, StreamInv, EngNext
  PROVE  StreamInv'
<1>0. /\ head \in Nat /\ tail \in Nat /\ seqnum \in Nat /\ slot \in Nat
      /\ cl \in Seq(Cmd) /\ Len(cl) \in Nat
  BY CpNumbers
<1>1. PICK at : Lines(at) /\ InHand(at)
  BY DEF StreamInv
<1>2. eng = "Idle" /\ clLoaded /\ LoadNextCmd(cl, slot) /\ UNCHANGED <<hostVars, seqnum, cl, slot>>
  BY DEF EngNext
<1>3. head < tail /\ cl = ring[head % RingSlots] /\ slot <= Len(cl) /\ seqnum = at[head] + slot
  BY <1>1, <1>2 DEF InHand
<1>4. LineAt(at, head, cl) /\ at[head] \in Nat
  BY <1>1, <1>3, HeadLine
<1>5. CASE slot >= Len(cl)
  <2>1. head' = head + 1 /\ clLoaded' = FALSE /\ eng' = eng
    BY <1>0, <1>2, <1>5 DEF LoadNextCmd
  <2>2. Lines(at)'
    BY <1>1, <1>2, <1>3, <2>1, DropLine
  <2>3. at[head + 1] = at[head] + slot
    BY <1>0, <1>3, <1>4, <1>5 DEF LineAt
  <2>4. InHand(at)'
    BY <1>2, <1>3, <2>1, <2>3 DEF InHand
  <2> QED BY <2>2, <2>4 DEF StreamInv
<1>6. CASE slot < Len(cl)
  <2>1. cur' = cl[slot + 1] /\ eng' = "Decode" /\ clLoaded' = TRUE /\ head' = head
    BY <1>0, <1>2, <1>6 DEF LoadNextCmd
  <2>2. Lines(at)'
    BY <1>1, <1>2, <2>1, SameLines
  <2>3. ring' = ring /\ tail' = tail
    BY <1>2 DEF hostVars
  <2>4. InHand(at)'
    BY <1>2, <1>3, <1>6, <2>1, <2>3 DEF InHand
  <2> QED BY <2>2, <2>4 DEF StreamInv
<1> QED BY <1>0, <1>5, <1>6

LEMMA RetireLines ==
  ASSUME CpInv, StreamInv, EngRetire
  PROVE  StreamInv'
<1>0. seqnum \in Nat /\ slot \in Nat /\ Len(cl) \in Nat /\ clLoaded \in BOOLEAN
      /\ head \in Nat /\ tail \in Nat
  BY CpNumbers
<1>1. PICK at : Lines(at) /\ InHand(at)
  BY DEF StreamInv
<1>2. /\ eng = "Retire" /\ seqnum' = seqnum + 1 /\ slot' = slot + 1 /\ eng' = "Idle"
      /\ UNCHANGED <<hostVars, head, clLoaded, cl, cur>>
  BY DEF EngRetire
<1>3. /\ clLoaded /\ head < tail /\ cl = ring[head % RingSlots] /\ slot < Len(cl)
      /\ seqnum = at[head] + slot
  BY <1>1, <1>2 DEF InHand
<1>4. at[head] \in Nat
  BY <1>1, <1>3, HeadLine
<1>5. Lines(at)'
  BY <1>1, <1>2, SameLines
<1>6. seqnum' = at[head] + slot' /\ slot' <= Len(cl)
  BY <1>0, <1>2, <1>3, <1>4
<1>7. ring' = ring /\ tail' = tail
  BY <1>2 DEF hostVars
<1>8. InHand(at)'
  BY <1>2, <1>3, <1>6, <1>7 DEF InHand
<1> QED BY <1>5, <1>8 DEF StreamInv

\* A line posted behind the others.
LEMMA PostLines ==
  ASSUME CpInv, StreamInv, NEW c \in Cls, PostCl(c)
  PROVE  StreamInv'
<1>0. /\ RingSlots \in Nat /\ RingSlots > 0 /\ head \in Nat /\ tail \in Nat
      /\ posted \in Seq(Cmd) /\ Len(posted) \in Nat
      /\ ring \in [0 .. RingSlots - 1 -> Seq(Cmd)] /\ clLoaded \in BOOLEAN
  BY CpNumbers
<1>1. PICK at : Lines(at) /\ InHand(at)
  BY DEF StreamInv
<1>2. /\ tail - head < RingSlots /\ ring' = [ring EXCEPT ![tail % RingSlots] = c]
      /\ tail' = tail + 1 /\ posted' = posted \o c
      /\ UNCHANGED <<head, seqnum, clLoaded, cl, slot, cur, eng>>
  BY DEF PostCl, engVars
<1>3. c \in Seq(Cmd) /\ Len(c) \in Nat
  BY CpAssumption
<1>4. /\ Len(posted') = Len(posted) + Len(c)
      /\ \A j \in 1 .. Len(posted) : posted'[j] = posted[j]
      /\ \A j \in 1 .. Len(c) : posted'[Len(posted) + j] = c[j]
  BY <1>0, <1>2, <1>3, ConcatProperties
<1>5. at \in [Nat -> Nat] /\ at[tail] = Len(posted) /\ head <= tail
  BY <1>1 DEF Lines
<1>6. PICK to \in [Nat -> Nat] : /\ to[tail + 1] = Len(posted) + Len(c)
                                 /\ \A i \in Nat : i <= tail => to[i] = at[i]
  <2> DEFINE v == Len(posted) + Len(c)
             f == [at EXCEPT ![tail + 1] = v]
  <2>0. v \in Nat /\ tail + 1 \in Nat /\ \A i \in Nat : i <= tail => i # tail + 1
    BY <1>0, <1>3
  <2> HIDE DEF v
  <2>1. /\ f \in [Nat -> Nat] /\ f[tail + 1] = v
        /\ \A i \in Nat : i <= tail => f[i] = at[i]
    BY <1>5, <2>0
  <2> HIDE DEF f
  <2> QED BY <2>1 DEF v
<1>7. tail % RingSlots \in 0 .. RingSlots - 1
  BY <1>0, DivMod
<1>8. ASSUME NEW i \in head .. tail - 1
      PROVE  /\ i \in Nat /\ i < tail /\ ring'[i % RingSlots] = ring[i % RingSlots]
             /\ LineAt(at, i, ring[i % RingSlots]) /\ ring[i % RingSlots] \in Seq(Cmd)
  <2>1. i \in Nat /\ i < tail /\ tail - i < RingSlots
    BY <1>0, <1>2, <1>8
  <2>2. i % RingSlots # tail % RingSlots /\ i % RingSlots \in 0 .. RingSlots - 1
    BY <1>0, <2>1, DivMod, ModDistinct
  <2>3. ring'[i % RingSlots] = ring[i % RingSlots] /\ ring[i % RingSlots] \in Seq(Cmd)
    BY <1>0, <1>2, <1>7, <2>2
  <2>4. LineAt(at, i, ring[i % RingSlots])
    BY <1>1, <1>8 DEF Lines
  <2> QED BY <2>1, <2>3, <2>4
<1>9. ASSUME NEW i \in head .. tail - 1
      PROVE  LineAt(to, i, ring[i % RingSlots])'
  <2> DEFINE l == ring[i % RingSlots]
  <2>1. i \in Nat /\ i + 1 \in Nat /\ i + 1 <= tail /\ i <= tail
    BY <1>0, <1>8
  <2>2. LineAt(at, i, l) /\ l \in Seq(Cmd) /\ Len(l) \in Nat /\ ring'[i % RingSlots] = l
    BY <1>8
  <2>3. PICK a \in Nat, b \in Nat : a = at[i] /\ b = at[i + 1] /\ to[i] = a /\ to[i + 1] = b
    BY <1>5, <1>6, <2>1
  <2> HIDE DEF l
  <2>4. l \in Cls /\ b = a + Len(l) /\ b <= Len(posted)
    BY <2>2, <2>3 DEF LineAt
  <2>5. \A j \in 1 .. Len(l) : posted'[a + j] = l[j]
    <3> SUFFICES ASSUME NEW j \in 1 .. Len(l) PROVE posted'[a + j] = l[j]
      OBVIOUS
    <3>0. Len(posted) \in Nat /\ Len(l) \in Nat /\ a + Len(l) <= Len(posted)
      BY <1>0, <2>2, <2>4
    <3>1. a + j \in 1 .. Len(posted)
      BY <3>0
    <3>2. posted[a + j] = l[j]
      BY <2>2, <2>3 DEF LineAt
    <3> QED BY <1>4, <3>1, <3>2
  <2>6. b <= Len(posted')
    <3>1. Len(posted) \in Nat /\ Len(c) \in Nat /\ Len(posted') = Len(posted) + Len(c)
      BY <1>0, <1>3, <1>4
    <3>2. b <= Len(posted)
      BY <2>4
    <3> QED BY <3>1, <3>2
  <2> QED BY <2>2, <2>3, <2>4, <2>5, <2>6 DEF LineAt
<1>10. PICK n \in Nat : n = tail
  BY <1>0
<1>11. LineAt(to, n, ring[n % RingSlots])'
  <2>1. ring'[n % RingSlots] = c
    BY <1>0, <1>2, <1>7, <1>10
  <2>2. to[n] = Len(posted) /\ to[n + 1] = Len(posted) + Len(c)
    BY <1>5, <1>6, <1>10
  <2>3. to[n + 1] = Len(posted') /\ to[n + 1] <= Len(posted')
    BY <1>0, <1>3, <1>4, <2>2
  <2> QED BY <1>4, <2>1, <2>2, <2>3 DEF LineAt
<1>12. Lines(to)'
  <2>1. to[tail'] = Len(posted')
    BY <1>2, <1>4, <1>6
  <2>2. head' <= tail' /\ tail' - head' <= RingSlots
    BY <1>0, <1>2, <1>5
  <2>3. \A i \in head' .. tail' - 1 : LineAt(to, i, ring[i % RingSlots])'
    <3> SUFFICES ASSUME NEW i \in head' .. tail' - 1 PROVE LineAt(to, i, ring[i % RingSlots])'
      OBVIOUS
    <3>1. i \in head .. tail - 1 \/ i = n
      BY <1>0, <1>2, <1>10
    <3> QED BY <1>9, <1>11, <3>1
  <2> QED BY <2>1, <2>2, <2>3 DEF Lines
<1>13. InHand(to)'
  <2>1. to[head] = at[head]
    BY <1>0, <1>5, <1>6
  <2>2. clLoaded => ring'[head % RingSlots] = ring[head % RingSlots]
    <3> SUFFICES ASSUME clLoaded PROVE ring'[head % RingSlots] = ring[head % RingSlots]
      OBVIOUS
    <3>1. head \in head .. tail - 1
      BY <1>0, <1>1 DEF InHand
    <3> QED BY <1>8, <3>1
  <2>3. clLoaded => head < tail'
    BY <1>0, <1>1, <1>2 DEF InHand
  <2> QED BY <1>1, <1>2, <2>1, <2>2, <2>3 DEF InHand
<1> QED BY <1>12, <1>13 DEF StreamInv

LEMMA StreamInvariant == ASSUME WellPacked PROVE CpSpec => []StreamInv
<1>1. CpInv /\ StreamInv /\ [CpNext]_cpVars => StreamInv'
  <2> SUFFICES ASSUME CpInv, StreamInv, [CpNext]_cpVars PROVE StreamInv'
    OBVIOUS
  <2>1. CASE UNCHANGED cpVars
    BY <2>1, QuietLines DEF cpVars, engVars, hostVars
  <2>2. CASE Tick
    BY <2>2, TickShape, FetchLines, NextLines, RetireLines, QuietLines
  <2>3. CASE VortexRise \/ VortexDone
    BY <2>3, QuietLines DEF VortexRise, VortexDone, engVars, hostVars
  <2>4. CASE \E c \in Cls : PostCl(c)
    BY <2>4, PostLines
  <2> QED BY <2>1, <2>2, <2>3, <2>4 DEF CpNext
<1> QED BY <1>1, StreamInit, CpInvariant, PTL DEF CpSpec
\* What is left of a sequence after its first n elements, and of one it is a
\* prefix of.
LEMMA TakeOne ==
  ASSUME NEW S, NEW s \in Seq(S), NEW n \in Nat, n < Len(s)
  PROVE  LET p == SubSeq(s, n + 1, Len(s))
         IN  p # << >> /\ Head(p) = s[n + 1] /\ Tail(p) = SubSeq(s, n + 2, Len(s))
<1> DEFINE m == n + 1
<1>1. m \in 1 .. Len(s) /\ Len(s) \in m .. Len(s) /\ Len(s) \in Nat /\ m + 1 = n + 2
  OBVIOUS
<1> HIDE DEF m
<1>2. Head(SubSeq(s, m, Len(s))) = s[m] /\ Tail(SubSeq(s, m, Len(s))) = SubSeq(s, m + 1, Len(s))
  BY <1>1, HeadTailOfSubSeq
<1>3. SubSeq(s, m, Len(s)) # << >>
  BY <1>1
<1> QED BY <1>1, <1>2, <1>3 DEF m

LEMMA KeepPrefix ==
  ASSUME NEW S, NEW s \in Seq(S), NEW t \in Seq(S), NEW n \in 0 .. Len(s)
  PROVE  LET p == SubSeq(s, n + 1, Len(s))
             q == SubSeq(s \o t, n + 1, Len(s \o t))
         IN  Len(p) <= Len(q) /\ SubSeq(q, 1, Len(p)) = p
<1> DEFINE p == SubSeq(s, n + 1, Len(s))
           u == s \o t
           q == SubSeq(u, n + 1, Len(u))
           r == SubSeq(q, 1, Len(p))
<1>1. /\ u \in Seq(S) /\ Len(u) = Len(s) + Len(t) /\ Len(t) \in Nat /\ Len(s) \in Nat
      /\ \A i \in 1 .. Len(s) : u[i] = s[i]
  OBVIOUS
<1> HIDE DEF u
<1>2. p \in Seq(S) /\ Len(p) = Len(s) - n /\ \A i \in 1 .. Len(p) : p[i] = s[n + i]
  OBVIOUS
<1>3. q \in Seq(S) /\ Len(q) = Len(u) - n /\ \A i \in 1 .. Len(q) : q[i] = u[n + i]
  BY <1>1
<1> HIDE DEF p, q
<1>4. Len(p) \in Nat /\ Len(q) \in Nat /\ Len(p) <= Len(q)
  BY <1>1, <1>2, <1>3
<1>5. r \in Seq(S) /\ Len(r) = Len(p) /\ \A i \in 1 .. Len(p) : r[i] = q[i]
  BY <1>3, <1>4
<1> HIDE DEF r
<1>6. \A i \in 1 .. Len(p) : r[i] = p[i]
  <2> SUFFICES ASSUME NEW i \in 1 .. Len(p) PROVE r[i] = p[i]
    OBVIOUS
  <2>1. i \in 1 .. Len(q) /\ n + i \in 1 .. Len(s)
    BY <1>1, <1>2, <1>4
  <2> QED BY <1>1, <1>2, <1>3, <1>5, <2>1
<1>7. r = p
  BY <1>2, <1>5, <1>6, SeqEqual
<1> QED BY <1>4, <1>7 DEF p, q, r, u

\* Where the engine stands in the stream.
InStream ==
  /\ seqnum \in Nat /\ posted \in Seq(Cmd) /\ Len(posted) \in Nat
  /\ seqnum <= Len(posted)
  /\ eng # "Idle" => seqnum < Len(posted) /\ cur = posted[seqnum + 1]

LEMMA Position == CpInv /\ StreamInv => InStream
<1> SUFFICES ASSUME CpInv, StreamInv PROVE InStream
  OBVIOUS
<1>0. /\ head \in Nat /\ tail \in Nat /\ seqnum \in Nat /\ slot \in Nat
      /\ posted \in Seq(Cmd) /\ Len(posted) \in Nat /\ clLoaded \in BOOLEAN
  BY CpNumbers
<1>1. PICK at : Lines(at) /\ InHand(at)
  BY DEF StreamInv
<1> DEFINE c == ring[head % RingSlots]
<1>2. CASE head < tail
  <2>1. LineAt(at, head, c) /\ Len(c) \in Nat /\ at[head] \in Nat /\ at[head + 1] \in Nat
    BY <1>1, <1>2, HeadLine
  <2>2. /\ at[head + 1] = at[head] + Len(c) /\ at[head + 1] <= Len(posted)
        /\ \A j \in 1 .. Len(c) : posted[at[head] + j] = c[j]
    BY <2>1 DEF LineAt
  <2>3. PICK a \in Nat, n \in Nat :
          a = at[head] /\ n = Len(c) /\ a + n <= Len(posted)
    BY <2>1, <2>2
  <2>4. seqnum <= Len(posted)
    <3>1. clLoaded => seqnum = a + slot /\ slot <= n
      BY <1>1, <2>3 DEF InHand
    <3>2. ~clLoaded => seqnum = a
      BY <1>1, <2>3 DEF InHand
    <3> QED BY <1>0, <2>3, <3>1, <3>2
  <2>5. ASSUME eng # "Idle" PROVE seqnum < Len(posted) /\ cur = posted[seqnum + 1]
    <3>1. seqnum = a + slot /\ slot < n /\ cur = c[slot + 1]
      BY <1>0, <1>1, <2>3, <2>5 DEF InHand
    <3>2a. a \in Nat /\ n \in Nat /\ slot \in Nat
      BY <1>0, <2>3
    <3>2. slot + 1 \in 1 .. n /\ a + (slot + 1) = seqnum + 1
      BY <3>1, <3>2a
    <3>3. posted[a + (slot + 1)] = c[slot + 1]
      BY <2>2, <2>3, <3>2
    <3>4. seqnum < Len(posted)
      BY <1>0, <2>3, <3>1
    <3> QED BY <3>1, <3>2, <3>3, <3>4
  <2> QED BY <1>0, <2>4, <2>5 DEF InStream
<1>3. CASE ~(head < tail)
  <2>1. head = tail
    BY <1>0, <1>1, <1>3 DEF Lines
  <2>2. ~clLoaded /\ seqnum = at[head] /\ eng = "Idle"
    BY <1>0, <1>1, <1>3 DEF InHand
  <2> QED BY <1>0, <1>1, <2>1, <2>2 DEF Lines, InStream
<1> QED BY <1>2, <1>3
\* The first command of a line, or the next one of the line in hand: the stream
\* begins it.
LEMMA BeginStream ==
  ASSUME InStream, InStream', eng = "Idle", eng' # "Idle",
         UNCHANGED <<posted, seqnum, gpu>>
  PROVE  Stream!Begin
<1>1. seqnum \in Nat /\ posted \in Seq(Cmd)
  BY DEF InStream
<1>3. seqnum < Len(posted) /\ cur' = posted[seqnum + 1]
  BY DEF InStream
<1>4. Begun = seqnum /\ Begun' = seqnum + 1
  BY DEF Begun
<1>5. Pending = SubSeq(posted, seqnum + 1, Len(posted))
  BY <1>4 DEF Pending
<1>6. Pending' = SubSeq(posted, seqnum + 2, Len(posted))
  <2>1. (seqnum + 1) + 1 = seqnum + 2
    BY <1>1
  <2> QED BY <1>4, <2>1 DEF Pending
<1>7. Pending # << >> /\ Head(Pending) = posted[seqnum + 1] /\ Tail(Pending) = Pending'
  BY <1>1, <1>3, <1>5, <1>6, TakeOne
<1>8. Running = NoCmd /\ Running' = cur'
  BY DEF Running
<1> QED BY <1>3, <1>7, <1>8 DEF Stream!Begin

\* A command that retires is the one that was running, and leaves the stream.
LEMMA RetireStream ==
  ASSUME CpInv, InStream, EngRetire
  PROVE  Stream!Retire
<1>1. /\ eng = "Retire" /\ eng' = "Idle" /\ seqnum' = seqnum + 1
      /\ posted' = posted /\ TickLaunch(launch)
  BY DEF EngRetire, hostVars
<1>2. launch = "Idle" /\ gpu = "off"
  BY <1>1 DEF CpInv, FsmInv
<1>3. gpu' = gpu
  BY <1>1, <1>2, LaunchStep
<1>4. Running # NoCmd /\ Running' = NoCmd
  BY <1>1, CurOK, CpAssumption DEF Running
<1>5. Begun' = Begun
  BY <1>1 DEF Begun
<1>6. Pending' = Pending
  BY <1>1, <1>5 DEF Pending
<1> QED BY <1>1, <1>2, <1>3, <1>4, <1>6 DEF Stream!Retire

\* A line of commands joins the stream behind those that wait.
LEMMA PostStream ==
  ASSUME InStream, NEW c \in Cls, PostCl(c)
  PROVE  Stream!Post
<1>1. /\ posted' = posted \o c
      /\ seqnum' = seqnum /\ eng' = eng /\ cur' = cur /\ gpu' = gpu
  BY DEF PostCl, engVars
<1>2. posted \in Seq(Cmd) /\ c \in Seq(Cmd)
  BY CpAssumption DEF InStream
<1>3. Begun \in 0 .. Len(posted) /\ Begun' = Begun
  BY <1>1 DEF InStream, Begun
<1>4. PICK b \in 0 .. Len(posted) : b = Begun /\ b = Begun'
  BY <1>3
<1>5. Pending = SubSeq(posted, b + 1, Len(posted))
  BY <1>4 DEF Pending
<1>6. Pending' = SubSeq(posted \o c, b + 1, Len(posted \o c))
  BY <1>1, <1>4 DEF Pending
<1>7. Len(Pending) <= Len(Pending') /\ SubSeq(Pending', 1, Len(Pending)) = Pending
  BY <1>2, <1>4, <1>5, <1>6, KeepPrefix
<1>8. Running' = Running
  BY <1>1 DEF Running
<1> QED BY <1>1, <1>7, <1>8 DEF Stream!Post

\* The engine keeps its command: what the host sees changes only when a kernel
\* starts, and then the command in hand is one that may launch.
LEMMA MoveStream ==
  ASSUME CpInv, Tick, eng # "Idle", eng' # "Idle",
         UNCHANGED <<hostVars, seqnum, cur>>
  PROVE  Stream!KernelStart \/ UNCHANGED Stream!vars
<1>1. Pending' = Pending /\ Running' = Running
  BY DEF Pending, Running, Begun, hostVars
<1>2. (gpu' # "off") = (gpu # "off") => UNCHANGED Stream!vars
  BY <1>1 DEF Stream!vars
<1>3. CASE BidLaunch \/ DrawLaunch
  <2>1. /\ TickLaunch("PulseStart") /\ cur.op \in LaunchOps \cup {"DRAW"}
        /\ eng \notin {"WaitDone", "DrawLaunchWait"}
    BY <1>3 DEF BidLaunch, DrawLaunch, Move, CpInv, FsmInv
  <2>2. gpu = "off" /\ gpu' = "starting"
    BY <2>1 DEF CpInv, FsmInv, TickLaunch, LaunchIdle, LaunchStart, LaunchWaitBusy,
       LaunchWaitDrain
  <2>3. Running \in {c \in Cmd : c.op \in LaunchOps \cup {"DRAW"}}
    BY <2>1, CurOK DEF Running
  <2> QED BY <1>1, <2>2, <2>3 DEF Stream!KernelStart
<1>4. CASE ~(BidLaunch \/ DrawLaunch)
  <2>1. TickLaunch(launch)
    BY <1>4 DEF Tick, EngFetch, EngNext, EngDecode, BidDraw, BidInline, BidEventSig,
       BidEventWait, BidMem, EngWaitDone, DrawEnd, DrawInline, EngDrawLaunchWait,
       EngRetire, Move
  <2>2. gpu' = gpu
    BY <2>1 DEF CpInv, FsmInv, TickLaunch, LaunchIdle, LaunchStart, LaunchWaitBusy,
       LaunchWaitDrain
  <2> QED BY <1>2, <2>2
<1> QED BY <1>3, <1>4
\* A line fetched or resumed: it is empty or used up and the stream stutters, or
\* its next command begins.
LEMMA LoadStream ==
  ASSUME CpInv, InStream, InStream', EngFetch \/ EngNext
  PROVE  Stream!Begin \/ UNCHANGED Stream!vars
<1>1. eng = "Idle" /\ TickLaunch(launch) /\ UNCHANGED <<posted, seqnum>>
  BY DEF EngFetch, EngNext, hostVars
<1>2. launch = "Idle"
  BY <1>1 DEF CpInv, FsmInv
<1>3. gpu' = gpu
  BY <1>1, <1>2, LaunchStep
<1>4. CASE eng' # "Idle"
  BY <1>1, <1>3, <1>4, BeginStream
<1>5. CASE eng' = "Idle"
  BY <1>1, <1>3, <1>5 DEF Pending, Running, Begun, Stream!vars
<1> QED BY <1>4, <1>5

\* The GPU alone: a kernel ends, or its busy wire rises.
LEMMA VortexStream ==
  ASSUME VortexRise \/ VortexDone
  PROVE  Stream!KernelEnd \/ UNCHANGED Stream!vars
<1>1. UNCHANGED <<posted, seqnum, eng, cur>>
  BY DEF VortexRise, VortexDone, hostVars, engVars
<1>2. Pending' = Pending /\ Running' = Running
  BY <1>1 DEF Pending, Running, Begun
<1>3. CASE VortexRise
  BY <1>1, <1>2, <1>3 DEF VortexRise, Stream!vars
<1>4. CASE VortexDone
  BY <1>1, <1>2, <1>4 DEF VortexDone, Stream!KernelEnd
<1> QED BY <1>3, <1>4

\* The CP, fed well-packed lines, implements the command stream: whatever the
\* size of the ring, the packing of the lines and the moment of the doorbells, it
\* takes the posted commands in order, one at a time, exactly once, and counts each
\* one after its kernels have ended (tick_engine, tick_launch, unpack_cl).
THEOREM CpImplementsStream == ASSUME WellPacked PROVE CpSpec => IsCommandStream
<1>1. CpInit => Stream!Init
  BY DEF CpInit, Stream!Init, Pending, Running, Begun
<1>2. CpInv /\ InStream /\ InStream' /\ [CpNext]_cpVars => [Stream!Next]_(Stream!vars)
  <2> SUFFICES ASSUME CpInv, InStream, InStream', [CpNext]_cpVars
               PROVE  Stream!Next \/ UNCHANGED Stream!vars
    OBVIOUS
  <2>1. CASE UNCHANGED cpVars
    BY <2>1 DEF cpVars, engVars, Stream!vars, Pending, Running, Begun
  <2>2. CASE Tick
    <3>1. CASE EngFetch \/ EngNext
      BY <3>1, LoadStream DEF Stream!Next
    <3>2. CASE EngRetire
      BY <3>2, RetireStream DEF Stream!Next
    <3>3. CASE /\ eng # "Idle" /\ eng' # "Idle"
               /\ UNCHANGED <<hostVars, head, seqnum, clLoaded, cl, slot, cur>>
      BY <2>2, <3>3, MoveStream DEF Stream!Next
    <3> QED BY <2>2, <3>1, <3>2, <3>3, TickShape
  <2>3. CASE VortexRise \/ VortexDone
    BY <2>3, VortexStream DEF Stream!Next
  <2>4. CASE \E c \in Cls : PostCl(c)
    BY <2>4, PostStream DEF Stream!Next
  <2> QED BY <2>1, <2>2, <2>3, <2>4 DEF CpNext
<1> QED BY <1>1, <1>2, Position, CpInvariant, StreamInvariant, PTL
        DEF CpSpec, IsCommandStream, Stream!Spec
============================================================================

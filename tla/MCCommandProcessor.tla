------------------------- MODULE MCCommandProcessor -------------------------
(***************************************************************************)
(* Small values for CommandProcessor: every opcode, lines that fill a CL   *)
(* to its last bytes or to its fifth command, a draw bundle with two       *)
(* launches, and the reference semantics of a command executed in one      *)
(* piece.  Workers w1 and w2 of CpSubmit use cells 0 to 3 and "host", which *)
(* posts whole lines, the virtual cell 4, which is physical cell 5.        *)
(***************************************************************************)
EXTENDS CommandProcessor

LOCAL INSTANCE SequencesExt

Two == {"w1", "w2"}

Command(o, t, a0, a1, a2, p) ==
  [op |-> o, arg0 |-> a0, arg1 |-> a1, arg2 |-> a2, physical |-> p, own |-> t]
C(o, t, a0, a1, a2) == Command(o, t, a0, a1, a2, FALSE)

DcrWr(t, r, v)   == C("DCR_WRITE", t, r, v, 0)
DcrRd(t)         == C("DCR_READ", t, 10, 0, 0)
Sig(a, v)        == C("EVENT_SIG", "host", a, v, 0)
Wait(a, v, w)    == C("EVENT_WAIT", "host", a, v, w)
Launch(t)        == C("LAUNCH", t, 0, 0, 0)
LaunchQmd(t, a)  == C("LAUNCH_QMD", t, a, 0, 0)
Flush(t, n)      == C("CACHE_FLUSH", t, n, 0, 0)
Draw(t, a)       == C("DRAW", t, a, 0, 0)
Nop              == Command("NOP", "host", 0, 0, 0, TRUE)
Fence            == C("FENCE", "host", 0, 0, 0)

Pc       == 10
Grid     == 11
MCRegs   == {Pc, Grid}
MCVals   == 0 .. 2
MCAddrs  == 0 .. 5
MCData   == 0 .. 2
MCCores  == 0 .. 1
MCOwners == Two \cup {"host"}

MCPageTable == [a \in MCAddrs |-> IF a = 4 THEN 5 ELSE a]

\* The descriptors the workers stage in cells 2 and 3, and the host in cell 4,
\* which names a register twice.
Qmd(v) == << [dcr |-> Pc, value |-> v], [dcr |-> Grid, value |-> v] >>
MCQmdAt == [a \in MCAddrs |->
              CASE a \in {2, 3} -> Qmd(a - 1)
                [] a = 5 -> Qmd(1) \o << [dcr |-> Pc, value |-> 2] >>
                [] OTHER -> << >>]

MCDrawAt == [a \in MCAddrs |->
               CASE a = 2 -> << LaunchQmd("w1", 2), Flush("w1", 2) >>
                 [] a = 3 -> << LaunchQmd("w2", 3), Flush("w2", 2) >>
                 [] a = 5 -> << DcrWr("host", Grid, 2), Launch("host"), Flush("host", 2),
                                LaunchQmd("host", 4), Fence >>
                 [] OTHER -> << >>]

MCCls ==
  { << DcrWr("host", Pc, 1), DcrRd("host"), DcrWr("host", Grid, 2) >>,         \* 60 bytes
    << Nop, Launch("host"), Flush("host", 2), LaunchQmd("host", 4), Flush("host", 1) >>,
    << Draw("host", 4), Draw("host", 0) >>,
    << Sig(0, 2), C("MEM_WRITE", "host", 4, 0, 1) >>,
    << Wait(0, 1, 1), Command("MEM_COPY", "host", 1, 4, 1, TRUE), Fence >>,    \* 64 bytes
    << C("MEM_READ", "host", 1, 4, 1), C("MEM_WRITE", "host", 5, 0, 0) >>,
    << C("UNKNOWN", "host", 0, 0, 0), Sig(1, 1), Wait(1, 1, 0) >> }

LineCmds == UNION {Range(c) : c \in MCCls} \cup UNION {Range(MCDrawAt[a]) : a \in MCAddrs}

MCNoCmd == C("none", "host", 0, 0, 0)

----------------------------------------------------------------------------
(* Reference semantics: what a command does to the registers and to memory *)
(* when it is executed in one piece.                                       *)

ReplayDcr(d, writes) ==
  FoldLeft(LAMBDA acc, w : [acc EXCEPT ![w.dcr] = w.value], d, writes)

ReplayBasic(s, c) ==
  CASE c.op = "DCR_WRITE" -> [s EXCEPT !.dcr[c.arg0] = c.arg1]
    [] c.op = "DCR_READ" -> [s EXCEPT !.rsp = s.dcr[c.arg0]]
    [] c.op = "LAUNCH_QMD" -> [s EXCEPT !.dcr = ReplayDcr(@, QmdAt[PageTable[c.arg0]])]
    [] OTHER -> s

ReplayCmd(s, c) ==
  CASE c.op = "DRAW" -> FoldLeft(ReplayBasic, s, DrawAt[PageTable[c.arg0]])
    [] c.op = "EVENT_SIG" -> [s EXCEPT !.mem[c.arg0] = c.arg1]
    [] c.op = "MEM_WRITE" /\ c.arg2 # 0 -> [s EXCEPT !.mem[Translate(c.arg0, c.physical)] = s.mem[c.arg1]]
    [] c.op = "MEM_READ" /\ c.arg2 # 0  -> [s EXCEPT !.mem[c.arg0] = s.mem[Translate(c.arg1, c.physical)]]
    [] c.op = "MEM_COPY" /\ c.arg2 # 0  ->
         [s EXCEPT !.mem[Translate(c.arg0, c.physical)] = s.mem[Translate(c.arg1, c.physical)]]
    [] OTHER -> ReplayBasic(s, c)

InitialArch == [dcr |-> [r \in Regs |-> 0], rsp |-> 0, mem |-> [a \in Addrs |-> 0]]

\* Whatever the packing of the lines, the wrap of the ring and the ticks of the
\* two FSMs, whenever the engine is between commands the registers, the latched
\* response and memory are what executing the first seqnum posted commands one
\* after the other gives: nothing is skipped, repeated or reordered.
StateIsReplay ==
  eng = "Idle" =>
    [dcr |-> dcr, rsp |-> lastRsp.value, mem |-> mem]
      = FoldLeft(ReplayCmd, InitialArch, SubSeq(posted, 1, seqnum))

\* The CP is stuck behind an EVENT_WAIT whose cell does not satisfy it.
StalledAtWait == eng = "Bid" /\ cur.op = "EVENT_WAIT" /\ ~EventWaitSatisfied(cur)
=============================================================================

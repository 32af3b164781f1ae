--------------------------- MODULE SimtCoreProofs ---------------------------
(***************************************************************************)
(* Proofs about SimtCore, for any cores, warps, threads, barriers and      *)
(* kernels that spawn no warps of their own: a stalled warp has exactly    *)
(* one party that resumes it, and the dispatchers, which here start and    *)
(* lose warps as the kernel runs, keep everything proved of CtaDispatch.   *)
(***************************************************************************)
EXTENDS SimtCore, CtaDispatchProofs, SequenceTheorems

-----------------------------------------------------------------------------
(* The kernels: every rank executes the EXIT at the end, a loop goes back  *)
(* to an instruction of the code, barriers are those the core has.         *)

Opcodes == {"NOP", "EXIT", "WSPAWN", "SPLIT", "JOIN", "PRED", "SYNC", "ARRIVE", "WAIT",
            "TMC", "TX", "DXA"}

Instr == [op : Opcodes, bar : 0 .. NumBarriers - 1, glob : BOOLEAN, n : Nat, to : Nat,
          who : SUBSET Nat]

Regular(a) ==
    /\ a.code \in Seq(Instr) /\ a.code # <<>>
    /\ a.code[Len(a.code)].op = "EXIT"
    /\ Ranks(a.kernel) \subseteq a.code[Len(a.code)].who
    /\ \A p \in DOMAIN a.code :
          /\ a.code[p].op # "WSPAWN"
          /\ a.code[p].op = "PRED" => a.code[p].to \in DOMAIN a.code

RegularApps == \A a \in Apps : Regular(a)

-----------------------------------------------------------------------------
(* One warp, by itself: w among the active warps act and the stalled ones  *)
(* sn of its core, f fetched, q in the SFU, r a result on its way, B the   *)
(* barriers it waits at, pc its PC, o what each of the len instructions    *)
(* is to it.                                                               *)

(* Only the last instruction in the SFU can be one that stalls the warp. *)
InSfu(q, o) == q # <<>> /\ StallsFetch(o[q[Len(q)]])

Stream(f, q, pc, o, len) ==
    /\ q \in Seq(1 .. len) /\ f \in 0 .. len /\ pc \in 1 .. len + 1
    /\ f # 0 => pc = f
    /\ pc = len + 1 => q # <<>> /\ q[Len(q)] = len
    /\ \A j \in 1 .. Len(q) - 1 : ~StallsFetch(o[q[j]])

NoOne(f, q, r, B, o) == f = 0 /\ ~InSfu(q, o) /\ r = FALSE /\ B = {}

Someone(f, q, r, B, o) ==
    \/ f # 0 /\ ~InSfu(q, o) /\ r = FALSE /\ B = {}
    \/ f = 0 /\ InSfu(q, o) /\ r = FALSE /\ B = {}
    \/ f = 0 /\ ~InSfu(q, o) /\ r = TRUE /\ B = {}
    \/ f = 0 /\ ~InSfu(q, o) /\ r = FALSE /\ \E b : B = {b}

Fine(w, act, sn, f, q, r, B, pc, o, len) ==
    /\ w \notin act => f = 0 /\ q = <<>> /\ r = FALSE /\ B = {}
    /\ w \in act => /\ Stream(f, q, pc, o, len)
                    /\ w \notin sn => NoOne(f, q, r, B, o)
                    /\ w \in sn => Someone(f, q, r, B, o)

LEMMA FineFrame ==
    ASSUME NEW w, NEW act, NEW sn, NEW f, NEW q, NEW r, NEW B, NEW pc, NEW o, NEW len,
           Fine(w, act, sn, f, q, r, B, pc, o, len),
           NEW act2, NEW sn2, w \in act <=> w \in act2, w \in sn <=> w \in sn2
    PROVE  Fine(w, act2, sn2, f, q, r, B, pc, o, len)
BY DEF Fine

LEMMA TailOfOne ==
    ASSUME NEW S, NEW q \in Seq(S), Len(q) = 1
    PROVE  Tail(q) = <<>>
<1>1. Tail(q) \in Seq(S) /\ Len(Tail(q)) = 0
  <2>1. q # <<>>
    OBVIOUS
  <2> QED BY <2>1, HeadTailProperties
<1> QED BY <1>1, EmptySeq

(* The head of the SFU stalls its warp: it is the only entry, and nobody   *)
(* else resumes the warp.                                                  *)
InSfuOnly(w, act, sn, f, q, r, B, pc, o, len) ==
    /\ w \in act /\ w \in sn /\ f = 0 /\ r = FALSE /\ B = {} /\ Tail(q) = <<>>
    /\ Head(q) \in 1 .. len
    /\ o[Head(q)] # "EXIT" => pc \in 1 .. len /\ Head(q) + 1 \in 1 .. len

LEMMA Served ==
    ASSUME NEW w, NEW act, NEW sn, NEW f, NEW q, NEW r, NEW B, NEW pc, NEW o, NEW len \in Nat \ {0},
           Fine(w, act, sn, f, q, r, B, pc, o, len), o[len] = "EXIT",
           q # <<>>, StallsFetch(o[Head(q)])
    PROVE  InSfuOnly(w, act, sn, f, q, r, B, pc, o, len)
<1>1. w \in act
  BY DEF Fine
<1>2. Stream(f, q, pc, o, len)
  BY <1>1 DEF Fine
<1>3. q \in Seq(1 .. len) /\ Len(q) \in Nat /\ Len(q) >= 1 /\ Head(q) = q[1] /\ q[1] \in 1 .. len
  BY <1>2 DEF Stream
<1>4. Len(q) = 1
  <2>1. PICK n \in Nat : n = Len(q) /\ n >= 1
    BY <1>3
  <2>2. ~(1 \in 1 .. n - 1)
    BY <1>2, <1>3, <2>1 DEF Stream
  <2> QED BY <2>1, <2>2
<1>5. Tail(q) = <<>>
  BY <1>3, <1>4, TailOfOne
<1>6. InSfu(q, o)
  BY <1>3, <1>4 DEF InSfu
<1>7. w \in sn /\ f = 0 /\ r = FALSE /\ B = {}
  BY <1>1, <1>6 DEF Fine, NoOne, Someone
<1>8. o[Head(q)] # "EXIT" => pc \in 1 .. len /\ Head(q) + 1 \in 1 .. len
  <2> SUFFICES ASSUME o[q[1]] # "EXIT" PROVE pc \in 1 .. len /\ q[1] + 1 \in 1 .. len
    BY <1>3
  <2>1. q[1] # len
    OBVIOUS
  <2>2. pc \in 1 .. len + 1 /\ pc # len + 1
    BY <1>2, <1>4, <2>1 DEF Stream
  <2> QED BY <1>3, <2>1, <2>2
<1> QED BY <1>1, <1>3, <1>5, <1>7, <1>8 DEF InSfuOnly

(* Where the warp may stand once the SFU is done with it. *)
LEMMA Parked ==
    ASSUME NEW w, NEW act, NEW sn, NEW pc, NEW o, NEW len \in Nat, pc \in 1 .. len, w \in act
    PROVE  /\ w \in sn => Fine(w, act, sn, 0, <<>>, TRUE, {}, pc, o, len)
           /\ w \in sn => \A b : Fine(w, act, sn, 0, <<>>, FALSE, {b}, pc, o, len)
           /\ w \notin sn => Fine(w, act, sn, 0, <<>>, FALSE, {}, pc, o, len)
<1>1. Stream(0, <<>>, pc, o, len)
  BY DEF Stream
<1>2. ~InSfu(<<>>, o)
  BY DEF InSfu
<1> QED BY <1>1, <1>2 DEF Fine, NoOne, Someone

LEMMA Gone ==
    ASSUME NEW w, NEW act, NEW sn, NEW pc, NEW o, NEW len, w \notin act
    PROVE  Fine(w, act, sn, 0, <<>>, FALSE, {}, pc, o, len)
BY DEF Fine

(* An instruction that stalls nobody leaves the SFU. *)
LEMMA Passed ==
    ASSUME NEW w, NEW act, NEW sn, NEW f, NEW q, NEW r, NEW B, NEW pc, NEW o, NEW len \in Nat \ {0},
           Fine(w, act, sn, f, q, r, B, pc, o, len), o[len] = "EXIT",
           q # <<>>, ~StallsFetch(o[Head(q)])
    PROVE  Fine(w, act, sn, f, Tail(q), r, B, pc, o, len)
<1>1. w \in act
  BY DEF Fine
<1>2. Stream(f, q, pc, o, len)
  BY <1>1 DEF Fine
<1>3. q \in Seq(1 .. len) /\ Len(q) \in Nat /\ Len(q) >= 1 /\ Head(q) = q[1]
  BY <1>2 DEF Stream
<1>4. PICK t : t = Tail(q)
  OBVIOUS
<1>5. /\ t \in Seq(1 .. len) /\ Len(t) = Len(q) - 1
      /\ \A j \in 1 .. Len(q) - 1 : t[j] = q[j + 1]
  BY <1>3, <1>4
<1>6. t # <<>> => Len(t) \in 1 .. Len(q) - 1 /\ t[Len(t)] = q[Len(q)]
  <2> SUFFICES ASSUME t # <<>> PROVE Len(t) \in 1 .. Len(q) - 1 /\ t[Len(t)] = q[Len(q)]
    OBVIOUS
  <2>1. Len(t) > 0
    BY <1>5
  <2>2. Len(t) \in 1 .. Len(q) - 1 /\ Len(t) + 1 = Len(q)
    BY <1>3, <1>5, <2>1
  <2> QED BY <1>5, <2>2
<1>7. t = <<>> => q[Len(q)] = q[1]
  <2>1. PICK n \in Nat : n = Len(q)
    BY <1>3
  <2>2. t = <<>> => n - 1 = 0
    BY <1>5, <2>1
  <2>3. t = <<>> => n = 1
    BY <2>2
  <2> QED BY <2>1, <2>3
<1>8. InSfu(t, o) <=> InSfu(q, o)
  BY <1>3, <1>6, <1>7 DEF InSfu
<1>9. Stream(f, t, pc, o, len)
  <2>1. f \in 0 .. len /\ pc \in 1 .. len + 1 /\ (f # 0 => pc = f)
    BY <1>2 DEF Stream
  <2>2. pc = len + 1 => t # <<>> /\ t[Len(t)] = len
    <3> SUFFICES ASSUME pc = len + 1 PROVE t # <<>> /\ t[Len(t)] = len
      OBVIOUS
    <3>1. q[Len(q)] = len
      BY <1>2 DEF Stream
    <3>2. StallsFetch("EXIT")
      BY DEF StallsFetch
    <3>3. t # <<>>
      BY <1>3, <1>7, <3>1, <3>2
    <3> QED BY <1>6, <3>1, <3>3
  <2>3. ASSUME NEW j \in 1 .. Len(t) - 1 PROVE ~StallsFetch(o[t[j]])
    <3>1. j \in 1 .. Len(q) - 1 /\ j + 1 \in 1 .. Len(q) - 1
      BY <1>3, <1>5
    <3>2. t[j] = q[j + 1]
      BY <1>5, <3>1
    <3> QED BY <1>2, <3>1, <3>2 DEF Stream
  <2> QED BY <1>5, <2>1, <2>2, <2>3 DEF Stream
<1> QED BY <1>1, <1>4, <1>8, <1>9 DEF Fine, NoOne, Someone

(* The barrier completes: nobody else resumes the warp. *)
LEMMA Woken ==
    ASSUME NEW w, NEW act, NEW sn, NEW f, NEW q, NEW r, NEW B, NEW pc, NEW o, NEW len,
           Fine(w, act, sn, f, q, r, B, pc, o, len), NEW b \in B, NEW sn2, w \notin sn2
    PROVE  Fine(w, act, sn2, f, q, r, B \ {b}, pc, o, len)
<1>1. w \in act
  BY DEF Fine
<1>2. w \in sn
  BY <1>1 DEF Fine, NoOne
<1>3. f = 0 /\ ~InSfu(q, o) /\ r = FALSE /\ \E x : B = {x}
  BY <1>1, <1>2 DEF Fine, Someone
<1>4. B \ {b} = {}
  BY <1>3
<1> QED BY <1>1, <1>3, <1>4 DEF Fine, NoOne

LEMMA DecodedFine ==
    ASSUME NEW w, NEW act, NEW sn, NEW f, NEW q, NEW r, NEW B, NEW pc, NEW o, NEW len \in Nat \ {0},
           Fine(w, act, sn, f, q, r, B, pc, o, len), o[len] = "EXIT", f # 0,
           NEW sn2, w \in sn2 <=> w \in sn /\ StallsFetch(o[f])
    PROVE  /\ w \in act /\ f \in 1 .. len /\ pc = f
           /\ Fine(w, act, sn2, 0, IF o[f] = "NOP" THEN q ELSE Append(q, f), r, B, pc + 1, o, len)
<1>1. w \in act
  BY DEF Fine
<1>2. Stream(f, q, pc, o, len) /\ f \in 1 .. len /\ pc = f
  BY <1>1 DEF Fine, Stream
<1>3. w \in sn /\ ~InSfu(q, o) /\ r = FALSE /\ B = {}
  BY <1>1 DEF Fine, NoOne, Someone
<1>4. q \in Seq(1 .. len) /\ Len(q) \in Nat
  BY <1>2 DEF Stream
<1>5. \A j \in 1 .. Len(q) : ~StallsFetch(o[q[j]])
  <2>1. ASSUME NEW j \in 1 .. Len(q) PROVE ~StallsFetch(o[q[j]])
    <3>1. CASE j = Len(q)
      <4>1. q # <<>>
        BY <1>4
      <4> QED BY <1>3, <3>1, <4>1 DEF InSfu
    <3>2. CASE j # Len(q)
      <4>1. j \in 1 .. Len(q) - 1
        BY <1>4, <3>2
      <4> QED BY <1>2, <4>1 DEF Stream
    <3> QED BY <3>1, <3>2
  <2> QED BY <2>1
<1>6. CASE o[f] = "NOP"
  <2>1. ~StallsFetch(o[f]) /\ f # len
    BY <1>6 DEF StallsFetch
  <2>2. pc + 1 \in 1 .. len
    BY <1>2, <2>1
  <2>3. Stream(0, q, pc + 1, o, len)
    BY <1>2, <2>2 DEF Stream
  <2> QED BY <1>1, <1>2, <1>3, <1>6, <2>1, <2>3 DEF Fine, NoOne
<1>7. CASE o[f] # "NOP"
  <2>1. PICK t : t = Append(q, f)
    OBVIOUS
  <2>2. /\ t \in Seq(1 .. len) /\ Len(t) = Len(q) + 1 /\ t # <<>> /\ t[Len(t)] = f
        /\ \A j \in 1 .. Len(q) : t[j] = q[j]
    BY <1>2, <1>4, <2>1
  <2>3. InSfu(t, o) <=> StallsFetch(o[f])
    BY <2>2 DEF InSfu
  <2>4. \A j \in 1 .. Len(t) - 1 : ~StallsFetch(o[t[j]])
    <3>1. Len(t) - 1 = Len(q)
      BY <1>4, <2>2
    <3>2. \A j \in 1 .. Len(q) : t[j] = q[j]
      BY <2>2
    <3> QED BY <1>5, <3>1, <3>2
  <2>5. pc + 1 \in 1 .. len + 1 /\ (pc + 1 = len + 1 => f = len)
    BY <1>2
  <2>6. Stream(0, t, pc + 1, o, len)
    BY <2>2, <2>4, <2>5 DEF Stream
  <2> QED BY <1>1, <1>2, <1>3, <1>7, <2>1, <2>3, <2>6 DEF Fine, NoOne, Someone
<1> QED BY <1>6, <1>7

LEMMA CommittedFine ==
    ASSUME NEW w, NEW act, NEW sn, NEW f, NEW q, NEW r, NEW B, NEW pc, NEW o, NEW len,
           Fine(w, act, sn, f, q, r, B, pc, o, len), r = TRUE, NEW sn2, w \notin sn2
    PROVE  Fine(w, act, sn2, f, q, FALSE, B, pc, o, len)
BY DEF Fine, NoOne, Someone

(* A warp that is not stalled has a next instruction to fetch. *)
LEMMA PickedFine ==
    ASSUME NEW w, NEW act, NEW sn, NEW f, NEW q, NEW r, NEW B, NEW pc, NEW o, NEW len \in Nat \ {0},
           Fine(w, act, sn, f, q, r, B, pc, o, len), o[len] = "EXIT", w \in act, w \notin sn,
           NEW sn2, w \in sn2
    PROVE  Fine(w, act, sn2, pc, q, r, B, pc, o, len)
<1>1. Stream(f, q, pc, o, len) /\ NoOne(f, q, r, B, o)
  BY DEF Fine
<1>2. pc # len + 1
  BY <1>1 DEF Stream, NoOne, InSfu, StallsFetch
<1>3. Stream(pc, q, pc, o, len) /\ pc # 0
  BY <1>1, <1>2 DEF Stream
<1> QED BY <1>1, <1>3 DEF Fine, NoOne, Someone
-----------------------------------------------------------------------------
(* A core: the same of all its warps, given the tables the core keeps.     *)

WaitsAt(bars, w) == {b \in BarIds : w \in bars[b].wait_mask}

CoreFine(act, sn, fe, sf, rs, bars, th, o, len) ==
    \A w \in Warps :
        Fine(w, act, sn, fe[w], sf[w], rs[w], WaitsAt(bars, w), th[w].pc, o[w], len)

(* What each instruction is to each warp of core c (Ins). *)
OpsOn(c) ==
    [w \in Warps |-> [p \in DOMAIN code |->
        IF disp[c].wid_to_slot[w] = NoSlot \/ warp[c][w].cta_rank \in code[p].who
        THEN code[p].op ELSE "NOP"]]

FineCore(c) ==
    CoreFine(active[c], stalled_next[c], fetched[c], sfu[c], wb[c], barriers[c], thr[c],
             OpsOn(c), Len(code))

FineInv == \A c \in Cores : FineCore(c)

(* Types, as far as they are needed. *)
SpType == UNION {[D -> Nat] : D \in SUBSET Nat}

Entry(len) == [orig_tmask : SUBSET Lanes, else_PC : 1 .. len, fallthrough : BOOLEAN]

ThreadRec(len) ==
    [pc : Nat, tmask : SUBSET Lanes, ipdom : Seq(Entry(len)), sp : SpType, phase : Nat, turns : Nat]

BarRec == [wait_mask : SUBSET Warps, arrival_mask : SUBSET Warps, count : Nat,
           events : Int, phase : Nat]

ThrInv == thr \in [Cores -> [Warps -> ThreadRec(Len(code))]]

StallInv ==
    /\ stalled \in [Cores -> SUBSET Warps] /\ stalled_next \in [Cores -> SUBSET Warps]
    /\ \A c \in Cores : stalled_next[c] \subseteq stalled[c]

PipeInv ==
    /\ fetched \in [Cores -> [Warps -> Nat]]
    /\ sfu \in [Cores -> [Warps -> Seq(Nat)]]
    /\ wb \in [Cores -> [Warps -> BOOLEAN]]

BarInv == barriers \in [Cores -> [BarIds -> BarRec]]

SpawnInv == \A c \in Cores : ~wspawn[c].valid

(* The code is that of the launch; before the first there is none. *)
Launched == \E a \in Apps : code = a.code /\ kmu.kernel = a.kernel

CodeInv == Launched \/ (code = <<>> /\ Idle /\ Quiet)

RankInv ==
    \A c \in Cores : \A w \in active[c] :
        warp[c][w].cta_rank \in Ranks(kmu.kernel) /\ warp[c][w].cta_size \in Nat \ {0}

SimtInv ==
    /\ DispatchInv /\ ThrInv /\ StallInv /\ PipeInv /\ BarInv /\ SpawnInv
    /\ CodeInv /\ RankInv /\ FineInv

-----------------------------------------------------------------------------
LEMMA CodeFacts ==
    ASSUME RegularApps, Launched
    PROVE  /\ code \in Seq(Instr) /\ Len(code) \in Nat \ {0} /\ DOMAIN code = 1 .. Len(code)
           /\ code[Len(code)].op = "EXIT" /\ Ranks(kmu.kernel) \subseteq code[Len(code)].who
           /\ \A p \in 1 .. Len(code) :
                 /\ code[p] \in Instr /\ code[p].op # "WSPAWN"
                 /\ code[p].op = "PRED" => code[p].to \in 1 .. Len(code)
<1>1. PICK a \in Apps : code = a.code /\ kmu.kernel = a.kernel
  BY DEF Launched
<1>2. Regular(a)
  BY DEF RegularApps
<1>3. code \in Seq(Instr) /\ code # <<>>
  BY <1>1, <1>2 DEF Regular
<1>4. Len(code) \in Nat \ {0} /\ DOMAIN code = 1 .. Len(code)
  BY <1>3, EmptySeq, LenProperties
<1>5. \A p \in 1 .. Len(code) : code[p] \in Instr
  BY <1>3, ElementOfSeq
<1> QED BY <1>1, <1>2, <1>3, <1>4, <1>5 DEF Regular

(* OpsOn is what Ins says. *)
LEMMA OpsAre ==
    ASSUME RegularApps, Launched, NEW c \in Cores, NEW w \in Warps, NEW p \in 1 .. Len(code)
    PROVE  /\ Ins(c, w, p) \in Instr /\ Ins(c, w, p).op = OpsOn(c)[w][p]
           /\ Ins(c, w, p).op # "WSPAWN"
           /\ Ins(c, w, p).op = "PRED" => Ins(c, w, p).to \in 1 .. Len(code)
<1>1. /\ DOMAIN code = 1 .. Len(code) /\ code[p] \in Instr /\ code[p].op # "WSPAWN"
      /\ code[p].op = "PRED" => code[p].to \in 1 .. Len(code)
  BY CodeFacts
<1>2. PICK i \in Instr : i = code[p]
  BY <1>1
<1>3. [i EXCEPT !.op = "NOP"] \in Instr /\ [i EXCEPT !.op = "NOP"].op = "NOP"
  <2>1. "NOP" \in Opcodes
    BY DEF Opcodes
  <2> QED BY <2>1 DEF Instr
<1>4. CASE disp[c].wid_to_slot[w] = NoSlot \/ warp[c][w].cta_rank \in code[p].who
  BY <1>1, <1>2, <1>4 DEF Ins, OpsOn
<1>5. CASE ~(disp[c].wid_to_slot[w] = NoSlot \/ warp[c][w].cta_rank \in code[p].who)
  BY <1>1, <1>2, <1>3, <1>5 DEF Ins, OpsOn
<1> QED BY <1>4, <1>5

(* Every active warp exits at the last instruction. *)
LEMMA LastExits ==
    ASSUME RegularApps, Launched, RankInv, NEW c \in Cores, NEW w \in Warps, w \in active[c]
    PROVE  OpsOn(c)[w][Len(code)] = "EXIT"
<1>1. /\ DOMAIN code = 1 .. Len(code) /\ Len(code) \in DOMAIN code
      /\ code[Len(code)].op = "EXIT" /\ Ranks(kmu.kernel) \subseteq code[Len(code)].who
  BY CodeFacts
<1>2. warp[c][w].cta_rank \in code[Len(code)].who
  BY <1>1 DEF RankInv
<1> QED BY <1>1, <1>2 DEF OpsOn

LEMMA OpsSame ==
    ASSUME NEW c, code' = code, warp'[c] = warp[c], disp'[c].wid_to_slot = disp[c].wid_to_slot
    PROVE  OpsOn(c)' = OpsOn(c)
BY DEF OpsOn

(* Only one warp moves, and nobody is woken. *)
LEMMA OneWarpMoves ==
    ASSUME NEW act, NEW sn, NEW fe, NEW sf, NEW rs, NEW bars, NEW th, NEW o, NEW len,
           CoreFine(act, sn, fe, sf, rs, bars, th, o, len), NEW w,
           NEW act2, NEW sn2, NEW fe2, NEW sf2, NEW rs2, NEW bars2, NEW th2, NEW o2,
           Fine(w, act2, sn2, fe2[w], sf2[w], rs2[w], WaitsAt(bars2, w), th2[w].pc, o2[w], len),
           \A v \in Warps \ {w} :
              /\ v \in act2 <=> v \in act
              /\ v \in sn2 <=> v \in sn
              /\ fe2[v] = fe[v] /\ sf2[v] = sf[v] /\ rs2[v] = rs[v]
              /\ WaitsAt(bars2, v) = WaitsAt(bars, v) /\ th2[v].pc = th[v].pc /\ o2[v] = o[v]
    PROVE  CoreFine(act2, sn2, fe2, sf2, rs2, bars2, th2, o2, len)
<1> SUFFICES ASSUME NEW v \in Warps, v # w
             PROVE  Fine(v, act2, sn2, fe2[v], sf2[v], rs2[v], WaitsAt(bars2, v), th2[v].pc, o2[v], len)
  BY DEF CoreFine
<1>1. Fine(v, act, sn, fe[v], sf[v], rs[v], WaitsAt(bars, v), th[v].pc, o[v], len)
  BY DEF CoreFine
<1>2. Fine(v, act2, sn2, fe[v], sf[v], rs[v], WaitsAt(bars, v), th[v].pc, o[v], len)
  BY <1>1, FineFrame
<1> QED BY <1>2

(* A barrier of the core completes. *)
LEMMA BarrierWakes ==
    ASSUME NEW act, NEW sn, NEW fe, NEW sf, NEW rs, NEW bars, NEW th, NEW o, NEW len,
           CoreFine(act, sn, fe, sf, rs, bars, th, o, len), NEW id \in BarIds,
           NEW bars2, bars2[id].wait_mask = {},
           \A b \in BarIds \ {id} : bars2[b].wait_mask = bars[b].wait_mask
    PROVE  CoreFine(act, sn \ bars[id].wait_mask, fe, sf, rs, bars2, th, o, len)
<1> SUFFICES ASSUME NEW v \in Warps
             PROVE  Fine(v, act, sn \ bars[id].wait_mask, fe[v], sf[v], rs[v], WaitsAt(bars2, v),
                         th[v].pc, o[v], len)
  BY DEF CoreFine
<1>1. PICK B, sn2 : B = WaitsAt(bars, v) /\ sn2 = sn \ bars[id].wait_mask
  OBVIOUS
<1>2. Fine(v, act, sn, fe[v], sf[v], rs[v], B, th[v].pc, o[v], len)
  BY <1>1 DEF CoreFine
<1>3. WaitsAt(bars2, v) = B \ {id}
  BY <1>1 DEF WaitsAt
<1>4. CASE v \in bars[id].wait_mask
  <2>1. id \in B /\ v \notin sn2
    BY <1>1, <1>4 DEF WaitsAt
  <2>2. Fine(v, act, sn2, fe[v], sf[v], rs[v], B \ {id}, th[v].pc, o[v], len)
    BY <1>2, <2>1, Woken
  <2> QED BY <1>1, <1>3, <2>2
<1>5. CASE v \notin bars[id].wait_mask
  <2>1. B \ {id} = B /\ (v \in sn2 <=> v \in sn)
    BY <1>1, <1>5 DEF WaitsAt
  <2>2. Fine(v, act, sn2, fe[v], sf[v], rs[v], B, th[v].pc, o[v], len)
    BY <1>2, <2>1, FineFrame
  <2> QED BY <1>1, <1>3, <2>1, <2>2
<1> QED BY <1>4, <1>5
-----------------------------------------------------------------------------
(* Frames.                                                                 *)

LEMMA ActiveLaunched ==
    ASSUME CodeInv, NEW c \in Cores, active[c] # {}
    PROVE  Launched
BY DEF CodeInv, Idle

LEMMA FineWarp ==
    ASSUME FineInv, NEW c \in Cores, NEW w \in Warps
    PROVE  Fine(w, active[c], stalled_next[c], fetched[c][w], sfu[c][w], wb[c][w],
                WaitsAt(barriers[c], w), thr[c][w].pc, OpsOn(c)[w], Len(code))
BY DEF FineInv, FineCore, CoreFine

(* The other cores are untouched. *)
LEMMA OtherCores ==
    ASSUME FineInv, NEW c \in Cores, code' = code, FineCore(c)',
           \A d \in Cores \ {c} :
              /\ active'[d] = active[d] /\ stalled_next'[d] = stalled_next[d]
              /\ fetched'[d] = fetched[d] /\ sfu'[d] = sfu[d] /\ wb'[d] = wb[d]
              /\ barriers'[d] = barriers[d] /\ thr'[d] = thr[d]
              /\ warp'[d] = warp[d] /\ disp'[d] = disp[d]
    PROVE  FineInv'
<1> SUFFICES ASSUME NEW d \in Cores, d # c PROVE FineCore(d)'
  BY DEF FineInv
<1>1. OpsOn(d)' = OpsOn(d)
  BY OpsSame
<1>2. FineCore(d)
  BY DEF FineInv
<1> QED BY <1>1, <1>2 DEF FineCore

(* The dispatchers are untouched. *)
LEMMA DispatchFrame ==
    ASSUME DispatchInv, RankInv, Launched, UNCHANGED <<dispatchVars, code>>
    PROVE  /\ DispatchInv' /\ RankInv' /\ CodeInv'
           /\ \A d : OpsOn(d)' = OpsOn(d)
<1>1. /\ kmu' = kmu /\ disp' = disp /\ active' = active /\ warp' = warp /\ launches' = launches
      /\ code' = code
  BY DEF dispatchVars
<1>2. DispatchInv'
  BY NextInv
<1>3. RankInv'
  BY <1>1 DEF RankInv
<1>4. CodeInv'
  BY <1>1 DEF CodeInv, Launched
<1>5. \A d : OpsOn(d)' = OpsOn(d)
  BY <1>1, OpsSame
<1> QED BY <1>2, <1>3, <1>4, <1>5

(* The oldest instruction of a warp in the SFU. *)
LEMMA SfuHead ==
    ASSUME RegularApps, SimtInv, NEW c \in Cores, NEW w \in Warps, sfu[c][w] # <<>>
    PROVE  /\ Launched /\ w \in active[c] /\ sfu[c][w] \in Seq(1 .. Len(code))
           /\ Len(code) \in Nat \ {0} /\ OpsOn(c)[w][Len(code)] = "EXIT"
           /\ Head(sfu[c][w]) \in 1 .. Len(code)
           /\ I(c, w) \in Instr /\ I(c, w).op = OpsOn(c)[w][Head(sfu[c][w])]
           /\ I(c, w).op # "WSPAWN"
           /\ I(c, w).op = "PRED" => I(c, w).to \in 1 .. Len(code)
<1>1. Fine(w, active[c], stalled_next[c], fetched[c][w], sfu[c][w], wb[c][w],
           WaitsAt(barriers[c], w), thr[c][w].pc, OpsOn(c)[w], Len(code))
  BY FineWarp DEF SimtInv
<1>2. w \in active[c] /\ sfu[c][w] \in Seq(1 .. Len(code))
  BY <1>1 DEF Fine, Stream
<1>3. Launched
  BY <1>2, ActiveLaunched DEF SimtInv
<1>4. Len(code) \in Nat \ {0} /\ OpsOn(c)[w][Len(code)] = "EXIT"
  BY <1>2, <1>3, CodeFacts, LastExits DEF SimtInv
<1>5. Head(sfu[c][w]) \in 1 .. Len(code)
  BY <1>2, HeadTailProperties
<1> QED BY <1>2, <1>3, <1>4, <1>5, OpsAre DEF I

(* A step of core c that leaves the dispatchers alone: what is to be shown *)
(* of it is that its new tables have their types and are fine.             *)
CoreStep(c, sn2, fe2, sf2, rs2, bars2, th2) ==
    /\ UNCHANGED <<dispatchVars, code, stalled, wspawn>>
    /\ sn2 \subseteq stalled_next[c] /\ fe2 \in [Warps -> Nat] /\ sf2 \in [Warps -> Seq(Nat)]
    /\ rs2 \in [Warps -> BOOLEAN] /\ bars2 \in [BarIds -> BarRec]
    /\ th2 \in [Warps -> ThreadRec(Len(code))]
    /\ stalled_next' = [stalled_next EXCEPT ![c] = sn2]
    /\ fetched' = [fetched EXCEPT ![c] = fe2] /\ sfu' = [sfu EXCEPT ![c] = sf2]
    /\ wb' = [wb EXCEPT ![c] = rs2] /\ barriers' = [barriers EXCEPT ![c] = bars2]
    /\ thr' = [thr EXCEPT ![c] = th2]
    /\ CoreFine(active[c], sn2, fe2, sf2, rs2, bars2, th2, OpsOn(c), Len(code))

LEMMA CoreMoves ==
    ASSUME SimtInv, Launched, NEW c \in Cores,
           NEW sn2, NEW fe2, NEW sf2, NEW rs2, NEW bars2, NEW th2,
           CoreStep(c, sn2, fe2, sf2, rs2, bars2, th2)
    PROVE  SimtInv'
<1> USE DEF CoreStep
<1>0. /\ DispatchInv /\ ThrInv /\ StallInv /\ PipeInv /\ BarInv /\ SpawnInv
      /\ CodeInv /\ RankInv /\ FineInv
  BY DEF SimtInv
<1>1. /\ code' = code /\ stalled' = stalled /\ wspawn' = wspawn /\ active' = active
      /\ warp' = warp /\ disp' = disp
  BY DEF dispatchVars
<1>2. DispatchInv' /\ RankInv' /\ CodeInv' /\ OpsOn(c)' = OpsOn(c)
  BY <1>0, DispatchFrame
<1>3. ThrInv'
  BY <1>0, <1>1 DEF ThrInv
<1>4. StallInv'
  BY <1>0, <1>1 DEF StallInv
<1>5. PipeInv'
  BY <1>0 DEF PipeInv
<1>6. BarInv' /\ SpawnInv'
  BY <1>0, <1>1 DEF BarInv, SpawnInv
<1>7. /\ active'[c] = active[c] /\ stalled_next'[c] = sn2 /\ fetched'[c] = fe2 /\ sfu'[c] = sf2
      /\ wb'[c] = rs2 /\ barriers'[c] = bars2 /\ thr'[c] = th2
  BY <1>0, <1>1 DEF PipeInv, StallInv, ThrInv, BarInv
<1>8. FineCore(c)'
  BY <1>1, <1>2, <1>7 DEF FineCore
<1>9. \A d \in Cores \ {c} :
          /\ active'[d] = active[d] /\ stalled_next'[d] = stalled_next[d]
          /\ fetched'[d] = fetched[d] /\ sfu'[d] = sfu[d] /\ wb'[d] = wb[d]
          /\ barriers'[d] = barriers[d] /\ thr'[d] = thr[d]
          /\ warp'[d] = warp[d] /\ disp'[d] = disp[d]
  BY <1>0, <1>1 DEF PipeInv, StallInv, ThrInv, BarInv
<1>10. FineInv'
  BY <1>0, <1>1, <1>8, <1>9, OtherCores
<1> QED BY <1>2, <1>3, <1>4, <1>5, <1>6, <1>10 DEF SimtInv

(* The tables of core c have their types. *)
LEMMA CoreTypes ==
    ASSUME SimtInv, NEW c \in Cores
    PROVE  /\ active[c] \subseteq Warps /\ stalled_next[c] \subseteq Warps
           /\ fetched[c] \in [Warps -> Nat] /\ sfu[c] \in [Warps -> Seq(Nat)]
           /\ wb[c] \in [Warps -> BOOLEAN] /\ barriers[c] \in [BarIds -> BarRec]
           /\ thr[c] \in [Warps -> ThreadRec(Len(code))]
           /\ stalled_next = [stalled_next EXCEPT ![c] = stalled_next[c]]
           /\ fetched = [fetched EXCEPT ![c] = fetched[c]] /\ sfu = [sfu EXCEPT ![c] = sfu[c]]
           /\ wb = [wb EXCEPT ![c] = wb[c]] /\ barriers = [barriers EXCEPT ![c] = barriers[c]]
           /\ thr = [thr EXCEPT ![c] = thr[c]]
BY DEF SimtInv, DispatchInv, ThrInv, StallInv, PipeInv, BarInv

-----------------------------------------------------------------------------
(* Decode and commit.                                                      *)

LEMMA DecodeInv ==
    ASSUME RegularApps, SimtInv, NEW c \in Cores, NEW w \in Warps, Decode(c, w)
    PROVE  SimtInv'
<1>0. CodeInv /\ RankInv /\ FineInv
  BY DEF SimtInv
<1>1. PICK act, sn, fe, sf, rs, bars, th, o, len, f :
        /\ act = active[c] /\ sn = stalled_next[c] /\ fe = fetched[c] /\ sf = sfu[c] /\ rs = wb[c]
        /\ bars = barriers[c] /\ th = thr[c] /\ o = OpsOn(c) /\ len = Len(code) /\ f = fe[w]
  OBVIOUS
<1>2. CoreFine(act, sn, fe, sf, rs, bars, th, o, len) /\ f # 0
  BY <1>0, <1>1 DEF FineInv, FineCore, Decode
<1>3. Fine(w, act, sn, f, sf[w], rs[w], WaitsAt(bars, w), th[w].pc, o[w], len)
  BY <1>1, <1>2 DEF CoreFine
<1>4. w \in act /\ f \in 0 .. len
  BY <1>2, <1>3 DEF Fine, Stream
<1>5. Launched
  BY <1>0, <1>1, <1>4, ActiveLaunched
<1>6. len \in Nat \ {0} /\ o[w][len] = "EXIT" /\ f \in 1 .. len
  BY <1>0, <1>1, <1>2, <1>4, <1>5, CodeFacts, LastExits
<1>7. Ins(c, w, f).op = o[w][f]
  BY <1>1, <1>5, <1>6, OpsAre
<1>8. PICK q2, sn2, t : /\ q2 = IF o[w][f] = "NOP" THEN sf[w] ELSE Append(sf[w], f)
                        /\ sn2 = IF StallsFetch(o[w][f]) THEN sn ELSE sn \ {w}
                        /\ t = [th[w] EXCEPT !.pc = @ + 1]
  OBVIOUS
<1>9. PICK fe2, sf2, th2 :
        fe2 = [fe EXCEPT ![w] = 0] /\ sf2 = [sf EXCEPT ![w] = q2] /\ th2 = [th EXCEPT ![w] = t]
  OBVIOUS
<1>10. /\ fe \in [Warps -> Nat] /\ sf \in [Warps -> Seq(Nat)] /\ th \in [Warps -> ThreadRec(len)]
       /\ rs \in [Warps -> BOOLEAN] /\ bars \in [BarIds -> BarRec]
       /\ wb = [wb EXCEPT ![c] = rs] /\ barriers = [barriers EXCEPT ![c] = bars]
  BY <1>1, CoreTypes
<1>11. q2 \in Seq(Nat) /\ sn2 \subseteq sn
  BY <1>6, <1>8, <1>10
<1>12. t \in ThreadRec(len) /\ t.pc = th[w].pc + 1
  <2>1. th[w] \in ThreadRec(len)
    BY <1>10
  <2> QED BY <1>8, <2>1 DEF ThreadRec
<1>13. fe2 \in [Warps -> Nat] /\ sf2 \in [Warps -> Seq(Nat)] /\ th2 \in [Warps -> ThreadRec(len)]
  BY <1>9, <1>10, <1>11, <1>12
<1>14. /\ UNCHANGED <<dispatchVars, code, stalled, wspawn>>
       /\ sfu' = [sfu EXCEPT ![c] = sf2] /\ stalled_next' = [stalled_next EXCEPT ![c] = sn2]
       /\ fetched' = [fetched EXCEPT ![c] = fe2] /\ thr' = [thr EXCEPT ![c] = th2]
       /\ wb' = [wb EXCEPT ![c] = rs] /\ barriers' = [barriers EXCEPT ![c] = bars]
  <2>1. /\ UNCHANGED <<dispatchVars, code, stalled, wspawn>> /\ wb' = wb /\ barriers' = barriers
        /\ sfu' = [sfu EXCEPT ![c][w] = IF o[w][f] = "NOP" THEN @ ELSE Append(@, f)]
        /\ stalled_next' = [stalled_next EXCEPT ![c] = IF StallsFetch(o[w][f]) THEN @ ELSE @ \ {w}]
        /\ thr' = [thr EXCEPT ![c][w].pc = @ + 1]
        /\ fetched' = [fetched EXCEPT ![c][w] = 0]
    BY <1>1, <1>7 DEF Decode, barVars
  <2>2. sfu' = [sfu EXCEPT ![c] = sf2] /\ fetched' = [fetched EXCEPT ![c] = fe2]
    BY <1>1, <1>8, <1>9, <2>1 DEF SimtInv, PipeInv
  <2>3. stalled_next' = [stalled_next EXCEPT ![c] = sn2] /\ thr' = [thr EXCEPT ![c] = th2]
    BY <1>1, <1>8, <1>9, <2>1 DEF SimtInv, StallInv, ThrInv
  <2> QED BY <1>10, <2>1, <2>2, <2>3
<1>15. Fine(w, act, sn2, fe2[w], sf2[w], rs[w], WaitsAt(bars, w), th2[w].pc, o[w], len)
  <2>1. w \in sn2 <=> w \in sn /\ StallsFetch(o[w][f])
    BY <1>8
  <2>2. Fine(w, act, sn2, 0, q2, rs[w], WaitsAt(bars, w), t.pc, o[w], len)
    <3>1. PICK q, r, B, pc, ow : /\ q = sf[w] /\ r = rs[w] /\ B = WaitsAt(bars, w)
                                 /\ pc = th[w].pc /\ ow = o[w]
      OBVIOUS
    <3>2. /\ Fine(w, act, sn, f, q, r, B, pc, ow, len) /\ ow[len] = "EXIT"
          /\ w \in sn2 <=> w \in sn /\ StallsFetch(ow[f])
      BY <1>3, <1>6, <2>1, <3>1
    <3>3. Fine(w, act, sn2, 0, IF ow[f] = "NOP" THEN q ELSE Append(q, f), r, B, pc + 1, ow, len)
      BY <1>2, <1>6, <3>2, DecodedFine
    <3> QED BY <1>8, <1>12, <3>1, <3>3
  <2>3. fe2[w] = 0 /\ sf2[w] = q2 /\ th2[w] = t
    BY <1>9, <1>10
  <2> QED BY <2>2, <2>3
<1>16. \A v \in Warps \ {w} : /\ v \in sn2 <=> v \in sn
                              /\ fe2[v] = fe[v] /\ sf2[v] = sf[v] /\ th2[v].pc = th[v].pc
  BY <1>8, <1>9, <1>10
<1>17. CoreFine(act, sn2, fe2, sf2, rs, bars, th2, o, len)
  BY <1>2, <1>15, <1>16, OneWarpMoves
<1>18. CoreStep(c, sn2, fe2, sf2, rs, bars, th2)
  BY <1>1, <1>10, <1>11, <1>13, <1>14, <1>17 DEF CoreStep
<1> QED BY <1>5, <1>18, CoreMoves

LEMMA CommitInv ==
    ASSUME RegularApps, SimtInv, NEW c \in Cores, NEW w \in Warps, Commit(c, w)
    PROVE  SimtInv'
<1>0. CodeInv /\ RankInv /\ FineInv
  BY DEF SimtInv
<1>1. PICK act, sn, fe, sf, rs, bars, th, o, len :
        /\ act = active[c] /\ sn = stalled_next[c] /\ fe = fetched[c] /\ sf = sfu[c] /\ rs = wb[c]
        /\ bars = barriers[c] /\ th = thr[c] /\ o = OpsOn(c) /\ len = Len(code)
  OBVIOUS
<1>2. /\ fe \in [Warps -> Nat] /\ sf \in [Warps -> Seq(Nat)] /\ th \in [Warps -> ThreadRec(len)]
      /\ rs \in [Warps -> BOOLEAN] /\ bars \in [BarIds -> BarRec] /\ sfu = [sfu EXCEPT ![c] = sf]
      /\ fetched = [fetched EXCEPT ![c] = fe] /\ thr = [thr EXCEPT ![c] = th]
      /\ barriers = [barriers EXCEPT ![c] = bars]
  BY <1>1, CoreTypes
<1>3. CoreFine(act, sn, fe, sf, rs, bars, th, o, len) /\ rs[w] = TRUE
  BY <1>0, <1>1, <1>2 DEF FineInv, FineCore, Commit
<1>4. Fine(w, act, sn, fe[w], sf[w], rs[w], WaitsAt(bars, w), th[w].pc, o[w], len)
  BY <1>3 DEF CoreFine
<1>5. Launched
  BY <1>0, <1>1, <1>3, <1>4, ActiveLaunched DEF Fine
<1>6. PICK rs2, sn2 : rs2 = [rs EXCEPT ![w] = FALSE] /\ sn2 = sn \ {w}
  OBVIOUS
<1>7. rs2 \in [Warps -> BOOLEAN] /\ sn2 \subseteq sn /\ rs2[w] = FALSE /\ w \notin sn2
  BY <1>2, <1>6
<1>8. /\ UNCHANGED <<dispatchVars, code, stalled, wspawn>>
      /\ sfu' = [sfu EXCEPT ![c] = sf] /\ stalled_next' = [stalled_next EXCEPT ![c] = sn2]
      /\ fetched' = [fetched EXCEPT ![c] = fe] /\ thr' = [thr EXCEPT ![c] = th]
      /\ wb' = [wb EXCEPT ![c] = rs2] /\ barriers' = [barriers EXCEPT ![c] = bars]
  <2>1. /\ UNCHANGED <<dispatchVars, code, stalled, wspawn, sfu, fetched, thr, barriers>>
        /\ wb' = [wb EXCEPT ![c][w] = FALSE]
        /\ stalled_next' = [stalled_next EXCEPT ![c] = @ \ {w}]
    BY DEF Commit, barVars
  <2>2. wb' = [wb EXCEPT ![c] = rs2] /\ stalled_next' = [stalled_next EXCEPT ![c] = sn2]
    BY <1>1, <1>6, <2>1 DEF SimtInv, PipeInv, StallInv
  <2> QED BY <1>2, <2>1, <2>2
<1>9. Fine(w, act, sn2, fe[w], sf[w], rs2[w], WaitsAt(bars, w), th[w].pc, o[w], len)
  <2>1. Fine(w, act, sn2, fe[w], sf[w], FALSE, WaitsAt(bars, w), th[w].pc, o[w], len)
    BY <1>3, <1>4, <1>7, CommittedFine
  <2> QED BY <1>7, <2>1
<1>10. \A v \in Warps \ {w} : (v \in sn2 <=> v \in sn) /\ rs2[v] = rs[v]
  BY <1>2, <1>6
<1>11. CoreFine(act, sn2, fe, sf, rs2, bars, th, o, len)
  BY <1>3, <1>9, <1>10, OneWarpMoves
<1>12. CoreStep(c, sn2, fe, sf, rs2, bars, th)
  BY <1>1, <1>2, <1>7, <1>8, <1>11 DEF CoreStep
<1> QED BY <1>5, <1>12, CoreMoves
-----------------------------------------------------------------------------
(* The SFU.                                                                *)

LEMMA ServedHead ==
    ASSUME RegularApps, SimtInv, NEW c \in Cores, NEW w \in Warps, sfu[c][w] # <<>>,
           StallsFetch(I(c, w).op)
    PROVE  /\ w \in active[c] /\ w \in stalled_next[c] /\ fetched[c][w] = 0 /\ wb[c][w] = FALSE
           /\ WaitsAt(barriers[c], w) = {} /\ Tail(sfu[c][w]) = <<>>
           /\ I(c, w).op # "EXIT" => /\ thr[c][w].pc \in 1 .. Len(code)
                                     /\ Head(sfu[c][w]) + 1 \in 1 .. Len(code)
<1>1. PICK act, sn, f, q, r, B, pc, o, len :
        /\ act = active[c] /\ sn = stalled_next[c] /\ f = fetched[c][w] /\ q = sfu[c][w]
        /\ r = wb[c][w] /\ B = WaitsAt(barriers[c], w) /\ pc = thr[c][w].pc /\ o = OpsOn(c)[w]
        /\ len = Len(code)
  OBVIOUS
<1>2. Fine(w, act, sn, f, q, r, B, pc, o, len)
  BY <1>1, FineWarp DEF SimtInv
<1>3. len \in Nat \ {0} /\ o[len] = "EXIT" /\ q # <<>> /\ I(c, w).op = o[Head(q)]
  BY <1>1, SfuHead
<1>4. StallsFetch(o[Head(q)])
  BY <1>3
<1>5. InSfuOnly(w, act, sn, f, q, r, B, pc, o, len)
  BY <1>2, <1>3, <1>4, Served
<1> QED BY <1>1, <1>3, <1>5 DEF InSfuOnly

(* What is left of the warp in the pipeline afterwards. *)
LeftSfu(c, w, sf2, rs2, release) ==
    /\ sf2 \in [Warps -> Seq(Nat)] /\ rs2 \in [Warps -> BOOLEAN]
    /\ sfu' = [sfu EXCEPT ![c] = sf2] /\ wb' = [wb EXCEPT ![c] = rs2]
    /\ sf2[w] = <<>> /\ rs2[w] = release
    /\ \A v \in Warps \ {w} : sf2[v] = sfu[c][v] /\ rs2[v] = wb[c][v]

LEMMA ServedLeaves ==
    ASSUME RegularApps, SimtInv, NEW c \in Cores, NEW w \in Warps, sfu[c][w] # <<>>,
           StallsFetch(I(c, w).op), NEW release \in BOOLEAN, Leaves(c, w, release)
    PROVE  \E sf2, rs2 : LeftSfu(c, w, sf2, rs2, release)
<1>1. PICK sf, rs : sf = sfu[c] /\ rs = wb[c]
  OBVIOUS
<1>2. sf \in [Warps -> Seq(Nat)] /\ rs \in [Warps -> BOOLEAN]
  BY <1>1, CoreTypes
<1>3. Tail(sf[w]) = <<>> /\ rs[w] = FALSE
  BY <1>1, ServedHead
<1>4. PICK sf2, rs2 : sf2 = [sf EXCEPT ![w] = <<>>] /\ rs2 = [rs EXCEPT ![w] = release]
  OBVIOUS
<1>5. sfu' = [sfu EXCEPT ![c][w] = Tail(@)] /\ wb' = [wb EXCEPT ![c][w] = @ \/ release]
  BY DEF Leaves
<1>6. sfu' = [sfu EXCEPT ![c] = sf2]
  BY <1>1, <1>3, <1>4, <1>5 DEF SimtInv, PipeInv
<1>7. wb' = [wb EXCEPT ![c] = rs2]
  BY <1>1, <1>3, <1>4, <1>5 DEF SimtInv, PipeInv
<1>8. <<>> \in Seq(Nat)
  OBVIOUS
<1>9. sf2 \in [Warps -> Seq(Nat)] /\ rs2 \in [Warps -> BOOLEAN]
  BY <1>2, <1>4, <1>8
<1>10. /\ sf2[w] = <<>> /\ rs2[w] = release
       /\ \A v \in Warps \ {w} : sf2[v] = sfu[c][v] /\ rs2[v] = wb[c][v]
  BY <1>1, <1>2, <1>4
<1>11. LeftSfu(c, w, sf2, rs2, release)
  BY <1>6, <1>7, <1>9, <1>10 DEF LeftSfu
<1> QED BY <1>11

(* The warp goes on: its result is on the way. *)
LEMMA ServedMoves ==
    ASSUME RegularApps, SimtInv, NEW c \in Cores, NEW w \in Warps, sfu[c][w] # <<>>,
           StallsFetch(I(c, w).op), Leaves(c, w, TRUE),
           UNCHANGED <<dispatchVars, code, stalled, wspawn, stalled_next, fetched, barriers>>,
           NEW t \in ThreadRec(Len(code)), t.pc \in 1 .. Len(code),
           thr' = [thr EXCEPT ![c][w] = t]
    PROVE  SimtInv'
<1>1. PICK act, sn, fe, sf, rs, bars, th, o, len :
        /\ act = active[c] /\ sn = stalled_next[c] /\ fe = fetched[c] /\ sf = sfu[c] /\ rs = wb[c]
        /\ bars = barriers[c] /\ th = thr[c] /\ o = OpsOn(c) /\ len = Len(code)
  OBVIOUS
<1>2. /\ fe \in [Warps -> Nat] /\ th \in [Warps -> ThreadRec(len)] /\ bars \in [BarIds -> BarRec]
      /\ stalled_next = [stalled_next EXCEPT ![c] = sn]
      /\ fetched = [fetched EXCEPT ![c] = fe] /\ barriers = [barriers EXCEPT ![c] = bars]
  BY <1>1, CoreTypes
<1>3. CoreFine(act, sn, fe, sf, rs, bars, th, o, len)
  BY <1>1 DEF SimtInv, FineInv, FineCore
<1>4. Launched /\ len \in Nat
  BY <1>1, SfuHead
<1>5. w \in act /\ w \in sn /\ fe[w] = 0 /\ WaitsAt(bars, w) = {}
  BY <1>1, ServedHead
<1>20. PICK sf2, rs2 : LeftSfu(c, w, sf2, rs2, TRUE)
  BY ServedLeaves
<1>6. /\ sf2 \in [Warps -> Seq(Nat)] /\ rs2 \in [Warps -> BOOLEAN]
      /\ sfu' = [sfu EXCEPT ![c] = sf2] /\ wb' = [wb EXCEPT ![c] = rs2]
      /\ sf2[w] = <<>> /\ rs2[w] = TRUE
      /\ \A v \in Warps \ {w} : sf2[v] = sfu[c][v] /\ rs2[v] = wb[c][v]
  BY <1>20 DEF LeftSfu
<1>7. PICK th2 : th2 = [th EXCEPT ![w] = t]
  OBVIOUS
<1>8. /\ th2 \in [Warps -> ThreadRec(len)] /\ th2[w] = t
      /\ \A v \in Warps \ {w} : th2[v] = th[v]
  BY <1>1, <1>2, <1>7
<1>9. thr' = [thr EXCEPT ![c] = th2]
  BY <1>1, <1>7 DEF SimtInv, ThrInv
<1>10. Fine(w, act, sn, fe[w], sf2[w], rs2[w], WaitsAt(bars, w), th2[w].pc, o[w], len)
  <2>1. t.pc \in 1 .. len
    BY <1>1
  <2>2. Fine(w, act, sn, 0, <<>>, TRUE, {}, t.pc, o[w], len)
    BY <1>4, <1>5, <2>1, Parked
  <2> QED BY <1>5, <1>6, <1>8, <2>2
<1>11. CoreFine(act, sn, fe, sf2, rs2, bars, th2, o, len)
  <2>1. \A v \in Warps \ {w} : sf2[v] = sf[v] /\ rs2[v] = rs[v] /\ th2[v].pc = th[v].pc
    BY <1>1, <1>6, <1>8
  <2> QED BY <1>3, <1>10, <2>1, OneWarpMoves
<1>12. /\ stalled_next' = [stalled_next EXCEPT ![c] = sn] /\ fetched' = [fetched EXCEPT ![c] = fe]
       /\ barriers' = [barriers EXCEPT ![c] = bars]
  BY <1>2
<1>13. CoreStep(c, sn, fe, sf2, rs2, bars, th2)
  BY <1>1, <1>2, <1>6, <1>8, <1>9, <1>11, <1>12 DEF CoreStep
<1> QED BY <1>4, <1>13, CoreMoves
(* A step of core c that starts or ends one of its warps: act2 are the     *)
(* active warps afterwards, st2 the stalled ones the pick will see, o2     *)
(* what the instructions are to the warps.                                 *)
WarpStepOn(c, act2, st2, sn2, fe2, sf2, rs2, bars2, th2, o2) ==
    /\ DispatchInv' /\ RankInv' /\ CodeInv' /\ UNCHANGED <<code, wspawn>>
    /\ active'[c] = act2 /\ OpsOn(c)' = o2
    /\ \A d \in Cores \ {c} : active'[d] = active[d] /\ warp'[d] = warp[d] /\ disp'[d] = disp[d]
    /\ sn2 \subseteq st2 /\ st2 \subseteq Warps
    /\ fe2 \in [Warps -> Nat] /\ sf2 \in [Warps -> Seq(Nat)]
    /\ rs2 \in [Warps -> BOOLEAN] /\ bars2 \in [BarIds -> BarRec]
    /\ th2 \in [Warps -> ThreadRec(Len(code))]
    /\ stalled' = [stalled EXCEPT ![c] = st2]
    /\ stalled_next' = [stalled_next EXCEPT ![c] = sn2]
    /\ fetched' = [fetched EXCEPT ![c] = fe2] /\ sfu' = [sfu EXCEPT ![c] = sf2]
    /\ wb' = [wb EXCEPT ![c] = rs2] /\ barriers' = [barriers EXCEPT ![c] = bars2]
    /\ thr' = [thr EXCEPT ![c] = th2]
    /\ CoreFine(act2, sn2, fe2, sf2, rs2, bars2, th2, o2, Len(code))

LEMMA WarpMoves ==
    ASSUME SimtInv, NEW c \in Cores, NEW act2, NEW st2,
           NEW sn2, NEW fe2, NEW sf2, NEW rs2, NEW bars2, NEW th2, NEW o2,
           WarpStepOn(c, act2, st2, sn2, fe2, sf2, rs2, bars2, th2, o2)
    PROVE  SimtInv'
<1> USE DEF WarpStepOn
<1>0. ThrInv /\ StallInv /\ PipeInv /\ BarInv /\ SpawnInv /\ FineInv
  BY DEF SimtInv
<1>1. code' = code /\ wspawn' = wspawn /\ Len(code)' = Len(code)
  OBVIOUS
<1>2. ThrInv'
  BY <1>0, <1>1 DEF ThrInv
<1>3. StallInv'
  BY <1>0 DEF StallInv
<1>4. PipeInv'
  BY <1>0 DEF PipeInv
<1>5. BarInv' /\ SpawnInv'
  BY <1>0, <1>1 DEF BarInv, SpawnInv
<1>6. /\ stalled_next'[c] = sn2 /\ fetched'[c] = fe2 /\ sfu'[c] = sf2
      /\ wb'[c] = rs2 /\ barriers'[c] = bars2 /\ thr'[c] = th2
  BY <1>0 DEF PipeInv, StallInv, ThrInv, BarInv
<1>7. FineCore(c)'
  BY <1>1, <1>6 DEF FineCore
<1>8. \A d \in Cores \ {c} :
          /\ active'[d] = active[d] /\ stalled_next'[d] = stalled_next[d]
          /\ fetched'[d] = fetched[d] /\ sfu'[d] = sfu[d] /\ wb'[d] = wb[d]
          /\ barriers'[d] = barriers[d] /\ thr'[d] = thr[d]
          /\ warp'[d] = warp[d] /\ disp'[d] = disp[d]
  BY <1>0 DEF PipeInv, StallInv, ThrInv, BarInv
<1>9. FineInv'
  BY <1>0, <1>1, <1>7, <1>8, OtherCores
<1> QED BY <1>2, <1>3, <1>4, <1>5, <1>9 DEF SimtInv
LEMMA OpsOfWarp ==
    ASSUME NEW c, NEW v \in Warps, code' = code, warp'[c][v] = warp[c][v],
           disp'[c].wid_to_slot[v] = disp[c].wid_to_slot[v]
    PROVE  OpsOn(c)'[v] = OpsOn(c)[v]
BY DEF OpsOn

(* What the exit of a warp does to the dispatchers. *)
LEMMA RetireParts ==
    ASSUME SimtInv, Launched, NEW c \in Cores, NEW w \in Warps, RetireWarp(c, w), code' = code
    PROVE  /\ DispatchInv' /\ RankInv' /\ CodeInv' /\ active'[c] = active[c] \ {w}
           /\ \A v \in Warps \ {w} : OpsOn(c)'[v] = OpsOn(c)[v]
           /\ \A d \in Cores \ {c} :
                 active'[d] = active[d] /\ warp'[d] = warp[d] /\ disp'[d] = disp[d]
<1>0. DispatchInv /\ RankInv
  BY DEF SimtInv
<1>1. DispatchInv'
  BY <1>0, RetireInv
<1>2. /\ disp \in [Cores -> DispatcherType] /\ active \in [Cores -> SUBSET Warps]
      /\ Sound(disp[c], active[c]) /\ w \in active[c]
  BY <1>0 DEF DispatchInv, OnCore, RetireWarp
<1>3. /\ active' = [active EXCEPT ![c] = @ \ {w}] /\ disp' = [disp EXCEPT ![c] = WarpDone(@, w)]
      /\ kmu' = kmu /\ warp' = warp
  BY DEF RetireWarp
<1>4. /\ active'[c] = active[c] \ {w} /\ disp'[c] = WarpDone(disp[c], w)
      /\ \A d \in Cores \ {c} : active'[d] = active[d] /\ warp'[d] = warp[d] /\ disp'[d] = disp[d]
  BY <1>2, <1>3
<1>5. RankInv'
  <2>1. \A d \in Cores : active'[d] \subseteq active[d]
    BY <1>4
  <2> QED BY <1>0, <1>3, <2>1 DEF RankInv
<1>6. CodeInv'
  BY <1>3 DEF CodeInv, Launched
<1>7. ASSUME NEW v \in Warps \ {w} PROVE OpsOn(c)'[v] = OpsOn(c)[v]
  <2>1. PICK d, act : d = disp[c] /\ act = active[c]
    OBVIOUS
  <2>5. Sound(d, act) /\ w \in act
    BY <1>2, <2>1
  <2>2. WarpDone(d, w).wid_to_slot = [d.wid_to_slot EXCEPT ![w] = NoSlot]
    BY <2>5, WarpDoneParts
  <2>3. d.wid_to_slot \in [Warps -> Slots \cup {NoSlot}]
    BY <1>2, <2>1, DispatcherParts
  <2>4. disp'[c].wid_to_slot[v] = disp[c].wid_to_slot[v]
    BY <1>4, <2>1, <2>2, <2>3
  <2> QED BY <1>3, <2>4, OpsOfWarp
<1> QED BY <1>1, <1>4, <1>5, <1>6, <1>7

(* The warp exits. *)
LEMMA RetiredMoves ==
    ASSUME RegularApps, SimtInv, NEW c \in Cores, NEW w \in Warps, sfu[c][w] # <<>>,
           StallsFetch(I(c, w).op), Leaves(c, w, FALSE), RetireWarp(c, w),
           UNCHANGED <<code, stalled, wspawn, stalled_next, fetched, barriers>>,
           NEW t \in ThreadRec(Len(code)), thr' = [thr EXCEPT ![c][w] = t]
    PROVE  SimtInv'
<1>1. PICK act, st, sn, fe, sf, rs, bars, th, o, len, o2 :
        /\ act = active[c] /\ st = stalled[c] /\ sn = stalled_next[c] /\ fe = fetched[c]
        /\ sf = sfu[c] /\ rs = wb[c] /\ bars = barriers[c] /\ th = thr[c] /\ o = OpsOn(c)
        /\ len = Len(code) /\ o2 = OpsOn(c)'
  OBVIOUS
<1>2. /\ fe \in [Warps -> Nat] /\ th \in [Warps -> ThreadRec(len)] /\ bars \in [BarIds -> BarRec]
      /\ stalled_next = [stalled_next EXCEPT ![c] = sn]
      /\ fetched = [fetched EXCEPT ![c] = fe] /\ barriers = [barriers EXCEPT ![c] = bars]
  BY <1>1, CoreTypes
<1>3. CoreFine(act, sn, fe, sf, rs, bars, th, o, len)
  BY <1>1 DEF SimtInv, FineInv, FineCore
<1>4. Launched
  BY SfuHead
<1>5. fe[w] = 0 /\ WaitsAt(bars, w) = {}
  BY <1>1, ServedHead
<1>6. PICK sf2, rs2 : LeftSfu(c, w, sf2, rs2, FALSE)
  BY ServedLeaves
<1>7. /\ sf2 \in [Warps -> Seq(Nat)] /\ rs2 \in [Warps -> BOOLEAN]
      /\ sfu' = [sfu EXCEPT ![c] = sf2] /\ wb' = [wb EXCEPT ![c] = rs2]
      /\ sf2[w] = <<>> /\ rs2[w] = FALSE
      /\ \A v \in Warps \ {w} : sf2[v] = sfu[c][v] /\ rs2[v] = wb[c][v]
  BY <1>6 DEF LeftSfu
<1>8. PICK th2, act2 : th2 = [th EXCEPT ![w] = t] /\ act2 = act \ {w}
  OBVIOUS
<1>9. /\ th2 \in [Warps -> ThreadRec(len)] /\ \A v \in Warps \ {w} : th2[v] = th[v]
  BY <1>1, <1>2, <1>8
<1>10. thr' = [thr EXCEPT ![c] = th2]
  BY <1>1, <1>8 DEF SimtInv, ThrInv
<1>11. code' = code
  OBVIOUS
<1>12. /\ DispatchInv' /\ RankInv' /\ CodeInv' /\ active'[c] = active[c] \ {w}
       /\ \A v \in Warps \ {w} : OpsOn(c)'[v] = OpsOn(c)[v]
       /\ \A d \in Cores \ {c} :
             active'[d] = active[d] /\ warp'[d] = warp[d] /\ disp'[d] = disp[d]
  BY <1>4, <1>11, RetireParts
<1>13. Fine(w, act2, sn, fe[w], sf2[w], rs2[w], WaitsAt(bars, w), th2[w].pc, o2[w], len)
  <2>1. w \notin act2
    BY <1>8
  <2>2. Fine(w, act2, sn, 0, <<>>, FALSE, {}, th2[w].pc, o2[w], len)
    BY <2>1, Gone
  <2> QED BY <1>5, <1>7, <2>2
<1>14. CoreFine(act2, sn, fe, sf2, rs2, bars, th2, o2, len)
  <2>1. \A v \in Warps \ {w} : /\ v \in act2 <=> v \in act
                               /\ sf2[v] = sf[v] /\ rs2[v] = rs[v] /\ th2[v].pc = th[v].pc
                               /\ o2[v] = o[v]
    BY <1>1, <1>7, <1>8, <1>9, <1>12
  <2> QED BY <1>3, <1>13, <2>1, OneWarpMoves
<1>15. /\ stalled_next' = [stalled_next EXCEPT ![c] = sn] /\ fetched' = [fetched EXCEPT ![c] = fe]
       /\ barriers' = [barriers EXCEPT ![c] = bars] /\ stalled' = [stalled EXCEPT ![c] = st]
       /\ sn \subseteq st /\ st \subseteq Warps
  BY <1>1, <1>2 DEF SimtInv, StallInv
<1>16. active'[c] = act2 /\ UNCHANGED <<code, wspawn>>
  BY <1>1, <1>8, <1>12
<1>17. WarpStepOn(c, act2, st, sn, fe, sf2, rs2, bars, th2, o2)
  BY <1>1, <1>2, <1>7, <1>9, <1>10, <1>12, <1>14, <1>15, <1>16 DEF WarpStepOn
<1> QED BY <1>17, WarpMoves

(* The mask is set, the warp goes on with it or exits. *)
LEMMA MaskSet ==
    ASSUME RegularApps, SimtInv, NEW c \in Cores, NEW w \in Warps, sfu[c][w] # <<>>,
           StallsFetch(I(c, w).op), NEW mask, SetTmask(c, w, mask),
           UNCHANGED <<code, turn, stalled, stalled_next, fetched, wspawn, barVars, history>>,
           NEW t \in ThreadRec(Len(code)), mask # {} => t.pc \in 1 .. Len(code),
           thr' = [thr EXCEPT ![c][w] = t]
    PROVE  SimtInv'
<1>1. UNCHANGED <<code, stalled, wspawn, stalled_next, fetched, barriers>>
  BY DEF barVars
<1>2. CASE mask = {}
  <2>1. RetireWarp(c, w) /\ Leaves(c, w, FALSE)
    BY <1>2 DEF SetTmask, Leaves
  <2> QED BY <1>1, <2>1, RetiredMoves
<1>3. CASE mask # {}
  <2>1. UNCHANGED dispatchVars /\ Leaves(c, w, TRUE)
    BY <1>3 DEF SetTmask, Leaves
  <2>2. UNCHANGED <<dispatchVars, code, stalled, wspawn, stalled_next, fetched, barriers>>
    BY <1>1, <2>1
  <2> QED BY <1>3, <2>1, <2>2, ServedMoves
<1> QED BY <1>2, <1>3
LEMMA ThreadOf ==
    ASSUME SimtInv, NEW c \in Cores, NEW w \in Warps
    PROVE  /\ thr[c][w] \in ThreadRec(Len(code)) /\ warp[c][w] \in WarpType
           /\ thr \in [Cores -> [Warps -> ThreadRec(Len(code))]]
BY DEF SimtInv, ThrInv, DispatchInv

LEMMA TmcInv ==
    ASSUME RegularApps, SimtInv, NEW c \in Cores, NEW w \in Warps, Tmc(c, w)
    PROVE  SimtInv'
<1>1. PICK mask, t : mask = TmcMask(I(c, w)) /\ t = [thr[c][w] EXCEPT !.tmask = mask]
  OBVIOUS
<1>2. t \in ThreadRec(Len(code)) /\ t.pc = thr[c][w].pc
  <2>1. mask \subseteq Lanes
    BY <1>1 DEF TmcMask
  <2> QED BY <1>1, <2>1, ThreadOf DEF ThreadRec
<1>3. thr' = [thr EXCEPT ![c][w] = t]
  BY <1>1, ThreadOf DEF Tmc
<1>4. sfu[c][w] # <<>> /\ StallsFetch(I(c, w).op)
  BY DEF Tmc, AtSfu, I, StallsFetch
<1>5. /\ SetTmask(c, w, mask)
      /\ UNCHANGED <<code, turn, stalled, stalled_next, fetched, wspawn, barVars, history>>
  BY <1>1 DEF Tmc
<1>6. mask # {} => t.pc \in 1 .. Len(code)
  <2>1. I(c, w).op = "EXIT" => mask = {}
    BY <1>1 DEF TmcMask
  <2> QED BY <1>2, <1>4, <2>1, ServedHead
<1> QED BY <1>2, <1>3, <1>4, <1>5, <1>6, MaskSet

LEMMA SpKept ==
    ASSUME NEW sp \in SpType, NEW p, NEW n \in Nat
    PROVE  [sp EXCEPT ![p] = n] \in SpType
<1>1. PICK D \in SUBSET Nat : sp \in [D -> Nat]
  BY DEF SpType
<1>2. [sp EXCEPT ![p] = n] \in [D -> Nat]
  BY <1>1
<1> QED BY <1>1, <1>2 DEF SpType

LEMMA SplitInv ==
    ASSUME RegularApps, SimtInv, NEW c \in Cores, NEW w \in Warps, Split(c, w)
    PROVE  SimtInv'
<1>1. PICK t, len, p : t = thr[c][w] /\ len = Len(code) /\ p = Head(sfu[c][w])
  OBVIOUS
<1>2. t \in ThreadRec(len)
  BY <1>1, ThreadOf
<1>3. sfu[c][w] # <<>> /\ StallsFetch(I(c, w).op) /\ I(c, w).op # "EXIT"
  BY DEF Split, AtSfu, I, StallsFetch
<1>4. t.pc \in 1 .. len /\ p + 1 \in 1 .. len
  BY <1>1, <1>3, ServedHead
<1>5. /\ t.tmask \in SUBSET Lanes /\ t.ipdom \in Seq(Entry(len)) /\ t.sp \in SpType
      /\ t.phase \in Nat /\ t.turns \in Nat /\ t.pc \in Nat
  BY <1>2 DEF ThreadRec
<1>6. PICK sp : sp = [t.sp EXCEPT ![p] = Len(t.ipdom)]
  OBVIOUS
<1>7. sp \in SpType
  <2>1. PICK n, s : n = Len(t.ipdom) /\ s = t.sp
    OBVIOUS
  <2>2. n \in Nat /\ s \in SpType
    BY <1>5, <2>1, LenProperties
  <2>3. [s EXCEPT ![p] = n] \in SpType
    BY <2>2, SpKept
  <2> QED BY <1>6, <2>1, <2>3
<1>8. UNCHANGED <<code, turn, stalled, stalled_next, fetched, wspawn, barVars, history>>
  BY DEF Split
<1>9. PICK then \in SUBSET t.tmask :
        IF then # {} /\ t.tmask \ then # {}
        THEN /\ thr' = [thr EXCEPT ![c][w].sp[p] = Len(t.ipdom),
                                   ![c][w].ipdom = Append(@, [orig_tmask |-> t.tmask, else_PC |-> p + 1,
                                                              fallthrough |-> FALSE]),
                                   ![c][w].tmask = SmallerSide(then, t.tmask \ then)]
             /\ SetTmask(c, w, SmallerSide(then, t.tmask \ then))
        ELSE /\ thr' = [thr EXCEPT ![c][w].sp[p] = Len(t.ipdom)]
             /\ SetTmask(c, w, t.tmask)
  BY <1>1 DEF Split
<1>10. CASE then # {} /\ t.tmask \ then # {}
  <2>1. PICK side, entry, ip :
          /\ side = SmallerSide(then, t.tmask \ then)
          /\ entry = [orig_tmask |-> t.tmask, else_PC |-> p + 1, fallthrough |-> FALSE]
          /\ ip = Append(t.ipdom, entry)
    OBVIOUS
  <2>2. side \in SUBSET Lanes
    BY <1>5, <2>1 DEF SmallerSide
  <2>3. entry \in Entry(len)
    BY <1>4, <1>5, <2>1 DEF Entry
  <2>4. ip \in Seq(Entry(len))
    BY <1>5, <2>1, <2>3
  <2>5. PICK t2 : t2 = [t EXCEPT !.sp = sp, !.ipdom = ip, !.tmask = side]
    OBVIOUS
  <2>6. t2 \in ThreadRec(len) /\ t2.pc = t.pc
    BY <1>2, <1>7, <2>2, <2>4, <2>5 DEF ThreadRec
  <2>7. thr' = [thr EXCEPT ![c][w] = t2]
    <3>1. thr' = [thr EXCEPT ![c][w].sp[p] = Len(t.ipdom), ![c][w].ipdom = Append(@, entry),
                             ![c][w].tmask = side]
      BY <1>9, <1>10, <2>1
    <3>2. [t EXCEPT !.sp[p] = Len(t.ipdom), !.ipdom = Append(@, entry), !.tmask = side] = t2
      BY <1>2, <1>6, <2>1, <2>5 DEF ThreadRec
    <3>3. thr' = [thr EXCEPT ![c][w] = [t EXCEPT !.sp[p] = Len(t.ipdom), !.ipdom = Append(@, entry),
                                                 !.tmask = side]]
      BY <1>1, <3>1, ThreadOf
    <3> QED BY <3>2, <3>3
  <2>8. SetTmask(c, w, side)
    BY <1>9, <1>10, <2>1
  <2> QED BY <1>1, <1>3, <1>4, <1>8, <2>6, <2>7, <2>8, MaskSet
<1>11. CASE ~(then # {} /\ t.tmask \ then # {})
  <2>1. PICK t2 : t2 = [t EXCEPT !.sp = sp]
    OBVIOUS
  <2>2. t2 \in ThreadRec(len) /\ t2.pc = t.pc
    BY <1>2, <1>7, <2>1 DEF ThreadRec
  <2>3. thr' = [thr EXCEPT ![c][w] = t2]
    <3>1. thr' = [thr EXCEPT ![c][w].sp[p] = Len(t.ipdom)]
      BY <1>9, <1>11
    <3>2. [t EXCEPT !.sp[p] = Len(t.ipdom)] = t2
      BY <1>2, <1>6, <2>1 DEF ThreadRec
    <3>3. thr' = [thr EXCEPT ![c][w] = [t EXCEPT !.sp[p] = Len(t.ipdom)]]
      BY <1>1, <3>1, ThreadOf
    <3> QED BY <3>2, <3>3
  <2>4. SetTmask(c, w, t.tmask)
    BY <1>9, <1>11
  <2> QED BY <1>1, <1>3, <1>4, <1>8, <2>2, <2>3, <2>4, MaskSet
<1> QED BY <1>10, <1>11
LEMMA JoinedType ==
    ASSUME NEW len \in Nat, NEW t \in ThreadRec(len), t.pc \in 1 .. len, NEW sp, Joinable(t, sp)
    PROVE  Joined(t, sp) \in ThreadRec(len) /\ Joined(t, sp).pc \in 1 .. len
<1>1. CASE sp = Len(t.ipdom)
  BY <1>1 DEF Joined
<1>2. CASE sp # Len(t.ipdom)
  <2>1. PICK s, n, top : s = t.ipdom /\ n = Len(s) /\ top = s[n]
    OBVIOUS
  <2>2. s \in Seq(Entry(len)) /\ s # <<>> /\ t.tmask \subseteq Lanes
    BY <1>2, <2>1 DEF Joinable, ThreadRec
  <2>3. n \in Nat /\ n \in 1 .. n /\ n > 0 /\ DOMAIN s = 1 .. n
    BY <2>1, <2>2, EmptySeq, LenProperties
  <2>4. top \in Entry(len)
    BY <2>1, <2>2, <2>3, ElementOfSeq
  <2>5. top.orig_tmask \in SUBSET Lanes /\ top.else_PC \in 1 .. len /\ top.else_PC \in Nat
    BY <2>4 DEF Entry
  <2>6. CASE top.fallthrough
    <3>1. PICK ip : ip = SubSeq(s, 1, n - 1)
      OBVIOUS
    <3>2. ip \in Seq(Entry(len))
      <4>1. n - 1 \in 0 .. Len(s)
        BY <2>1, <2>3
      <4> QED BY <2>1, <2>2, <2>3, <3>1, <4>1, SubSeqProperties
    <3>3. Joined(t, sp) = [t EXCEPT !.tmask = top.orig_tmask, !.ipdom = ip]
      BY <1>2, <2>1, <2>6, <3>1 DEF Joined
    <3> QED BY <2>5, <3>2, <3>3 DEF ThreadRec
  <2>7. CASE ~top.fallthrough
    <3>1. PICK ip : ip = [s EXCEPT ![n] = [top EXCEPT !.fallthrough = TRUE]]
      OBVIOUS
    <3>2. [top EXCEPT !.fallthrough = TRUE] \in Entry(len)
      BY <2>4 DEF Entry
    <3>3. ip \in Seq(Entry(len))
      <4>1. n \in 1 .. Len(s)
        BY <2>1, <2>3
      <4>2. PICK e : e = [top EXCEPT !.fallthrough = TRUE]
        OBVIOUS
      <4>3. [s EXCEPT ![n] = e] \in Seq(Entry(len))
        BY <2>2, <3>2, <4>1, <4>2, ExceptSeq
      <4> QED BY <3>1, <4>2, <4>3
    <3>4. Joined(t, sp) = [t EXCEPT !.tmask = top.orig_tmask \ @, !.pc = top.else_PC, !.ipdom = ip]
      <4>1. Joined(t, sp) = [t EXCEPT !.tmask = top.orig_tmask \ @, !.pc = top.else_PC,
                                      !.ipdom[n].fallthrough = TRUE]
        BY <1>2, <2>1, <2>7 DEF Joined
      <4>2. [t EXCEPT !.tmask = top.orig_tmask \ @, !.pc = top.else_PC, !.ipdom[n].fallthrough = TRUE]
              = [t EXCEPT !.tmask = top.orig_tmask \ @, !.pc = top.else_PC, !.ipdom = ip]
        BY <2>1, <3>1 DEF ThreadRec
      <4> QED BY <4>1, <4>2
    <3>5. top.orig_tmask \ t.tmask \in SUBSET Lanes
      BY <2>5
    <3> QED BY <2>5, <3>3, <3>4, <3>5 DEF ThreadRec
  <2> QED BY <2>6, <2>7
<1> QED BY <1>1, <1>2

LEMMA JoinInv ==
    ASSUME RegularApps, SimtInv, NEW c \in Cores, NEW w \in Warps, Join(c, w)
    PROVE  SimtInv'
<1>1. PICK t, len, sp, t2 : /\ t = thr[c][w] /\ len = Len(code) /\ sp = thr[c][w].sp[I(c, w).to]
                            /\ t2 = Joined(t, sp)
  OBVIOUS
<1>2. sfu[c][w] # <<>> /\ StallsFetch(I(c, w).op) /\ I(c, w).op # "EXIT"
  BY DEF Join, AtSfu, I, StallsFetch
<1>3. t \in ThreadRec(len) /\ t.pc \in 1 .. len /\ len \in Nat
  BY <1>1, <1>2, ThreadOf, ServedHead, SfuHead
<1>4. Joinable(t, sp) /\ thr' = [thr EXCEPT ![c][w] = t2] /\ SetTmask(c, w, t2.tmask)
  BY <1>1 DEF Join
<1>5. t2 \in ThreadRec(len) /\ t2.pc \in 1 .. len
  BY <1>1, <1>3, <1>4, JoinedType
<1>6. UNCHANGED <<code, turn, stalled, stalled_next, fetched, wspawn, barVars, history>>
  BY DEF Join
<1> QED BY <1>1, <1>2, <1>4, <1>5, <1>6, MaskSet

LEMMA PredInv ==
    ASSUME RegularApps, SimtInv, NEW c \in Cores, NEW w \in Warps, Pred(c, w)
    PROVE  SimtInv'
<1>1. PICK t, len, to, back : /\ t = thr[c][w] /\ len = Len(code) /\ to = I(c, w).to
                              /\ back = 0 .. warp[c][w].lanes - 1
  OBVIOUS
<1>2. sfu[c][w] # <<>> /\ I(c, w).op = "PRED" /\ StallsFetch(I(c, w).op) /\ I(c, w).op # "EXIT"
  BY DEF Pred, AtSfu, I, StallsFetch
<1>3. t \in ThreadRec(len) /\ t.pc \in 1 .. len /\ to \in 1 .. len /\ len \in Nat
  BY <1>1, <1>2, ThreadOf, ServedHead, SfuHead
<1>4. back \in SUBSET Lanes
  <2>1. PICK n : n = warp[c][w].lanes
    OBVIOUS
  <2>2. n \in 0 .. NumThreads
    BY <2>1, ThreadOf DEF WarpType
  <2>3. back = 0 .. n - 1
    BY <1>1, <2>1
  <2> QED BY <2>2, <2>3, DispatchAssumption DEF Lanes
<1>5. UNCHANGED <<code, turn, stalled, stalled_next, fetched, wspawn, barVars, history>>
  BY DEF Pred
<1>6. PICK pred \in SUBSET t.tmask :
        IF pred # {}
        THEN /\ thr' = [thr EXCEPT ![c][w].tmask = pred, ![c][w].pc = to, ![c][w].turns = @ + 1]
             /\ SetTmask(c, w, pred)
        ELSE /\ thr' = [thr EXCEPT ![c][w].tmask = back]
             /\ SetTmask(c, w, back)
  BY <1>1 DEF Pred
<1>7. t.tmask \in SUBSET Lanes /\ t.turns \in Nat
  BY <1>3 DEF ThreadRec
<1>8. CASE pred # {}
  <2>1. PICK t2 : t2 = [t EXCEPT !.tmask = pred, !.pc = to, !.turns = @ + 1]
    OBVIOUS
  <2>2. t2 \in ThreadRec(len) /\ t2.pc \in 1 .. len
    <3>1. PICK n : n = t.turns + 1
      OBVIOUS
    <3>2. n \in Nat /\ pred \in SUBSET Lanes /\ to \in Nat
      BY <1>3, <1>7, <3>1
    <3>3. t2 = [t EXCEPT !.tmask = pred, !.pc = to, !.turns = n]
      BY <2>1, <3>1
    <3>4. t2 \in ThreadRec(len) /\ t2.pc = to
      BY <1>3, <3>2, <3>3 DEF ThreadRec
    <3> QED BY <1>3, <3>4
  <2>3. thr' = [thr EXCEPT ![c][w] = t2]
    <3>1. thr' = [thr EXCEPT ![c][w].tmask = pred, ![c][w].pc = to, ![c][w].turns = @ + 1]
      BY <1>6, <1>8
    <3> QED BY <1>1, <2>1, <3>1, ThreadOf
  <2>4. SetTmask(c, w, pred)
    BY <1>6, <1>8
  <2> QED BY <1>1, <1>2, <1>5, <2>2, <2>3, <2>4, MaskSet
<1>9. CASE pred = {}
  <2>1. PICK t2 : t2 = [t EXCEPT !.tmask = back]
    OBVIOUS
  <2>2. t2 \in ThreadRec(len) /\ t2.pc \in 1 .. len
    BY <1>3, <1>4, <2>1 DEF ThreadRec
  <2>3. thr' = [thr EXCEPT ![c][w] = t2]
    <3>1. thr' = [thr EXCEPT ![c][w].tmask = back]
      BY <1>6, <1>9
    <3> QED BY <1>1, <2>1, <3>1, ThreadOf
  <2>4. SetTmask(c, w, back)
    BY <1>6, <1>9
  <2> QED BY <1>1, <1>2, <1>5, <2>2, <2>3, <2>4, MaskSet
<1> QED BY <1>8, <1>9

(* A transfer is issued. *)
LEMMA IssueInv ==
    ASSUME RegularApps, SimtInv, NEW c \in Cores, NEW w \in Warps, IssueTransfer(c, w)
    PROVE  SimtInv'
<1>1. sfu[c][w] # <<>> /\ StallsFetch(I(c, w).op) /\ I(c, w).op # "EXIT"
  BY DEF IssueTransfer, AtSfu, I, StallsFetch
<1>2. thr[c][w] \in ThreadRec(Len(code)) /\ thr[c][w].pc \in 1 .. Len(code)
  BY <1>1, ThreadOf, ServedHead
<1>3. /\ UNCHANGED <<dispatchVars, code, stalled, wspawn, stalled_next, fetched, barriers>>
      /\ thr' = thr /\ Leaves(c, w, TRUE)
  BY DEF IssueTransfer
<1>4. thr' = [thr EXCEPT ![c][w] = thr[c][w]]
  BY <1>3, ThreadOf
<1> QED BY <1>1, <1>2, <1>3, <1>4, ServedMoves
-----------------------------------------------------------------------------
(* Barriers.                                                               *)

(* The barrier id completes, or not. *)
Completes(id, done, bars, sn, bars2, sn2) ==
    /\ id \in BarIds /\ done \in BOOLEAN
    /\ bars2[id].wait_mask = IF done THEN {} ELSE bars[id].wait_mask
    /\ \A b \in BarIds \ {id} : bars2[b].wait_mask = bars[b].wait_mask
    /\ sn2 = sn \ (IF done THEN bars[id].wait_mask ELSE {})

LEMMA MayComplete ==
    ASSUME NEW act, NEW sn, NEW fe, NEW sf, NEW rs, NEW bars, NEW th, NEW o, NEW len,
           CoreFine(act, sn, fe, sf, rs, bars, th, o, len),
           NEW id, NEW done, NEW bars2, NEW sn2, Completes(id, done, bars, sn, bars2, sn2)
    PROVE  CoreFine(act, sn2, fe, sf, rs, bars2, th, o, len)
<1>0. /\ id \in BarIds /\ done \in BOOLEAN
      /\ bars2[id].wait_mask = IF done THEN {} ELSE bars[id].wait_mask
      /\ \A b \in BarIds \ {id} : bars2[b].wait_mask = bars[b].wait_mask
      /\ sn2 = sn \ (IF done THEN bars[id].wait_mask ELSE {})
  BY DEF Completes
<1>1. CASE done
  <2>1. bars2[id].wait_mask = {} /\ sn2 = sn \ bars[id].wait_mask
    BY <1>0, <1>1
  <2>2. CoreFine(act, sn \ bars[id].wait_mask, fe, sf, rs, bars2, th, o, len)
    BY <1>0, <2>1, BarrierWakes
  <2> QED BY <2>1, <2>2
<1>2. CASE ~done
  <2>1. bars2[id].wait_mask = bars[id].wait_mask /\ sn2 = sn
    BY <1>0, <1>2
  <2>2. \A b \in BarIds : bars2[b].wait_mask = bars[b].wait_mask
    BY <1>0, <2>1
  <2>3. \A v : WaitsAt(bars2, v) = WaitsAt(bars, v)
    BY <2>2 DEF WaitsAt
  <2> QED BY <2>1, <2>3 DEF CoreFine
<1> QED BY <1>0, <1>1, <1>2

LEMMA ArrivedBar ==
    ASSUME NEW b \in BarRec, NEW n \in Nat \ {0}, NEW m, m = (b.count + 1) % n
    PROVE  /\ [PhaseDone(b) EXCEPT !.count = m] \in BarRec
           /\ [PhaseDone(b) EXCEPT !.count = m].wait_mask = {}
           /\ [b EXCEPT !.count = m] \in BarRec /\ [b EXCEPT !.count = m].wait_mask = b.wait_mask
<1>1. b.count \in Nat /\ b.phase \in Nat
  BY DEF BarRec
<1>2. PICK k : k = b.phase + 1
  OBVIOUS
<1>3. m \in Nat /\ k \in Nat
  <2>1. PICK j \in Nat : j = b.count
    BY <1>1
  <2> QED BY <1>1, <1>2, <2>1
<1>4. PhaseDone(b) \in BarRec /\ PhaseDone(b).wait_mask = {}
  BY <1>2, <1>3 DEF PhaseDone, BarRec
<1>5. PICK d \in BarRec : d = PhaseDone(b) /\ d.wait_mask = {}
  BY <1>4
<1> QED BY <1>3, <1>5 DEF BarRec

LEMMA BarsOf ==
    ASSUME RegularApps, SimtInv, NEW c \in Cores, NEW w \in Warps, sfu[c][w] # <<>>
    PROVE  /\ Bar(c, w) \in BarIds /\ I(c, w).n \in Nat /\ I(c, w).glob \in BOOLEAN
           /\ warp[c][w].cta_size \in Nat \ {0}
<1>1. I(c, w) \in Instr /\ w \in active[c]
  BY SfuHead
<1>2. /\ I(c, w).bar \in 0 .. NumBarriers - 1 /\ I(c, w).n \in Nat /\ I(c, w).glob \in BOOLEAN
  BY <1>1 DEF Instr
<1>3. warp[c][w].cta_id \in Slots /\ 0 \in Slots
  BY ThreadOf, WarpFacts DEF WarpType
<1>4. warp[c][w].cta_size \in Nat \ {0}
  BY <1>1 DEF SimtInv, RankInv
<1> QED BY <1>2, <1>3, <1>4 DEF Bar, BarIds

(* What an arrival does: w waits if it is synchronous, then the barrier    *)
(* may complete.                                                           *)
Arrived(c, w, sync, id, done, bars1, bars2, sn2) ==
    /\ id \in BarIds /\ done \in BOOLEAN
    /\ bars1[id].wait_mask = barriers[c][id].wait_mask \cup (IF sync THEN {w} ELSE {})
    /\ \A b \in BarIds \ {id} : bars1[b] = barriers[c][b]
    /\ bars2 \in [BarIds -> BarRec]
    /\ bars2[id].wait_mask = IF done THEN {} ELSE bars1[id].wait_mask
    /\ \A b \in BarIds \ {id} : bars2[b] = bars1[b]
    /\ sn2 = stalled_next[c] \ (IF done THEN bars1[id].wait_mask ELSE {})
    /\ barriers' = [barriers EXCEPT ![c] = bars2]
    /\ stalled_next' = [stalled_next EXCEPT ![c] = sn2]

LEMMA ArrivesAt ==
    ASSUME RegularApps, SimtInv, NEW c \in Cores, NEW w \in Warps, sfu[c][w] # <<>>,
           NEW sync \in BOOLEAN, LocalArrive(c, w, sync)
    PROVE  \E id, done, bars1, bars2, sn2 : Arrived(c, w, sync, id, done, bars1, bars2, sn2)
<1>1. PICK id, n, bars, sn : /\ id = Bar(c, w) /\ n = warp[c][w].cta_size
                             /\ bars = barriers[c] /\ sn = stalled_next[c]
  OBVIOUS
<1>2. id \in BarIds /\ n \in Nat \ {0} /\ bars \in [BarIds -> BarRec]
  BY <1>1, BarsOf, CoreTypes
<1>3. PICK b : b = [bars[id] EXCEPT !.wait_mask = IF sync THEN @ \cup {w} ELSE @]
  OBVIOUS
<1>4. b \in BarRec /\ b.wait_mask = bars[id].wait_mask \cup (IF sync THEN {w} ELSE {})
  <2>1. bars[id] \in BarRec
    BY <1>2
  <2> QED BY <1>3, <2>1 DEF BarRec
<1>5. PICK done : done = (b.count + 1 = n /\ b.events = 0)
  OBVIOUS
<1>6. PICK a, wakes : /\ a = [(IF done THEN PhaseDone(b) ELSE b) EXCEPT !.count = (b.count + 1) % n]
                      /\ wakes = IF done THEN b.wait_mask ELSE {}
  OBVIOUS
<1>7. done \in BOOLEAN
  BY <1>5
<1>8. a \in BarRec /\ a.wait_mask = IF done THEN {} ELSE b.wait_mask
  <2>1. PICK m : m = (b.count + 1) % n
    OBVIOUS
  <2>2. /\ [PhaseDone(b) EXCEPT !.count = m] \in BarRec
        /\ [PhaseDone(b) EXCEPT !.count = m].wait_mask = {}
        /\ [b EXCEPT !.count = m] \in BarRec /\ [b EXCEPT !.count = m].wait_mask = b.wait_mask
    BY <1>2, <1>4, <2>1, ArrivedBar
  <2>3. CASE done
    BY <1>6, <2>1, <2>2, <2>3
  <2>4. CASE ~done
    BY <1>6, <2>1, <2>2, <2>4
  <2> QED BY <1>7, <2>3, <2>4
<1>9. barriers' = [barriers EXCEPT ![c][id] = a] /\ stalled_next' = [stalled_next EXCEPT ![c] = @ \ wakes]
  BY <1>1, <1>3, <1>5, <1>6 DEF LocalArrive
<1>10. PICK bars1, bars2, sn2 : /\ bars1 = [bars EXCEPT ![id] = b] /\ bars2 = [bars EXCEPT ![id] = a]
                                /\ sn2 = sn \ wakes
  OBVIOUS
<1>11. /\ bars1[id] = b /\ bars2[id] = a /\ bars2 \in [BarIds -> BarRec]
       /\ \A x \in BarIds \ {id} : bars1[x] = bars[x] /\ bars2[x] = bars1[x]
  BY <1>2, <1>8, <1>10
<1>12. barriers' = [barriers EXCEPT ![c] = bars2] /\ stalled_next' = [stalled_next EXCEPT ![c] = sn2]
  BY <1>1, <1>9, <1>10 DEF SimtInv, BarInv, StallInv
<1>13. Arrived(c, w, sync, id, done, bars1, bars2, sn2)
  BY <1>1, <1>2, <1>4, <1>6, <1>7, <1>8, <1>10, <1>11, <1>12 DEF Arrived
<1> QED BY <1>13
(* The warp waits at barrier id: afterwards nobody else resumes it. *)
LEMMA WaitsHere ==
    ASSUME RegularApps, SimtInv, NEW c \in Cores, NEW w \in Warps, sfu[c][w] # <<>>,
           StallsFetch(I(c, w).op), I(c, w).op # "EXIT",
           NEW sf2, NEW rs2, LeftSfu(c, w, sf2, rs2, FALSE), NEW id \in BarIds, NEW bars1,
           bars1[id].wait_mask = barriers[c][id].wait_mask \cup {w},
           \A b \in BarIds \ {id} : bars1[b].wait_mask = barriers[c][b].wait_mask
    PROVE  CoreFine(active[c], stalled_next[c], fetched[c], sf2, rs2, bars1, thr[c], OpsOn(c), Len(code))
<1>1. PICK act, sn, fe, sf, rs, bars, th, o, len :
        /\ act = active[c] /\ sn = stalled_next[c] /\ fe = fetched[c] /\ sf = sfu[c] /\ rs = wb[c]
        /\ bars = barriers[c] /\ th = thr[c] /\ o = OpsOn(c) /\ len = Len(code)
  OBVIOUS
<1>2. CoreFine(act, sn, fe, sf, rs, bars, th, o, len)
  BY <1>1 DEF SimtInv, FineInv, FineCore
<1>3. w \in act /\ w \in sn /\ fe[w] = 0 /\ WaitsAt(bars, w) = {} /\ th[w].pc \in 1 .. len
  BY <1>1, ServedHead
<1>4. len \in Nat
  BY <1>1, SfuHead
<1>5. /\ sf2[w] = <<>> /\ rs2[w] = FALSE
      /\ \A v \in Warps \ {w} : sf2[v] = sf[v] /\ rs2[v] = rs[v]
  BY <1>1 DEF LeftSfu
<1>6. WaitsAt(bars1, w) = {id}
  <2>1. \A b \in BarIds : w \notin bars[b].wait_mask
    BY <1>3 DEF WaitsAt
  <2>2. \A b \in BarIds : w \in bars1[b].wait_mask <=> b = id
    BY <1>1, <2>1
  <2> QED BY <2>2 DEF WaitsAt
<1>7. \A v \in Warps \ {w} : WaitsAt(bars1, v) = WaitsAt(bars, v)
  <2> SUFFICES ASSUME NEW v \in Warps \ {w} PROVE WaitsAt(bars1, v) = WaitsAt(bars, v)
    OBVIOUS
  <2>1. \A b \in BarIds : v \in bars1[b].wait_mask <=> v \in bars[b].wait_mask
    BY <1>1
  <2> QED BY <2>1 DEF WaitsAt
<1>8. Fine(w, act, sn, fe[w], sf2[w], rs2[w], WaitsAt(bars1, w), th[w].pc, o[w], len)
  <2>1. PICK pc : pc = th[w].pc /\ pc \in 1 .. len
    BY <1>3
  <2>2. \A b : Fine(w, act, sn, 0, <<>>, FALSE, {b}, pc, o[w], len)
    BY <1>3, <1>4, <2>1, Parked
  <2>3. Fine(w, act, sn, 0, <<>>, FALSE, {id}, pc, o[w], len)
    BY <2>2
  <2> QED BY <1>3, <1>5, <1>6, <2>1, <2>3
<1>9. CoreFine(act, sn, fe, sf2, rs2, bars1, th, o, len)
  BY <1>2, <1>5, <1>7, <1>8, OneWarpMoves
<1> QED BY <1>1, <1>9

LEMMA PhaseDoneParts ==
    ASSUME NEW b \in BarRec
    PROVE  PhaseDone(b) \in BarRec /\ PhaseDone(b).wait_mask = {}
<1>1. PICK n : n = b.phase + 1
  OBVIOUS
<1>2. n \in Nat
  BY <1>1 DEF BarRec
<1>3. PhaseDone(b) = [b EXCEPT !.wait_mask = {}, !.phase = n]
  BY <1>1 DEF PhaseDone
<1> QED BY <1>2, <1>3 DEF BarRec

(* The barrier across cores: core c changes, and if the barrier completes  *)
(* every core that arrived resumes its waiters.                            *)
ArrivalStep(c, id, own, sf2, rs2, th2, bars1) ==
    /\ CoreArrival(c, id, own) /\ UNCHANGED <<dispatchVars, code, stalled, fetched, wspawn>>
    /\ sf2 \in [Warps -> Seq(Nat)] /\ rs2 \in [Warps -> BOOLEAN]
    /\ th2 \in [Warps -> ThreadRec(Len(code))]
    /\ sfu' = [sfu EXCEPT ![c] = sf2] /\ wb' = [wb EXCEPT ![c] = rs2]
    /\ thr' = [thr EXCEPT ![c] = th2]
    /\ bars1[id].wait_mask = own.wait_mask
    /\ \A b \in BarIds \ {id} : bars1[b].wait_mask = barriers[c][b].wait_mask
    /\ CoreFine(active[c], stalled_next[c], fetched[c], sf2, rs2, bars1, th2, OpsOn(c), Len(code))

LEMMA CoreArrivalInv ==
    ASSUME SimtInv, Launched, NEW c \in Cores, NEW id \in BarIds, NEW own \in BarRec,
           NEW sf2, NEW rs2, NEW th2, NEW bars1, ArrivalStep(c, id, own, sf2, rs2, th2, bars1)
    PROVE  SimtInv'
<1> USE DEF ArrivalStep
<1>7. PICK arrives, left : /\ arrives = CoreArrives(own, c)
                           /\ left = IF arrives THEN [own EXCEPT !.arrival_mask = {}, !.count = 0]
                                     ELSE own
  OBVIOUS
<1>8. left \in BarRec /\ left.wait_mask = own.wait_mask
  BY <1>7 DEF BarRec
<1>9. PICK here : here = IF arrives THEN gbar[id] \cup {c} ELSE gbar[id]
  OBVIOUS
<1>10. PICK woken : woken = IF arrives /\ Cardinality(here) = own.count THEN here ELSE {}
  OBVIOUS
<1>11. PICK at : at = [d \in Cores |-> IF d = c THEN left ELSE barriers[d][id]]
  OBVIOUS
<1>12. \A d \in Cores : at[d] \in BarRec /\ at[d] = IF d = c THEN left ELSE barriers[d][id]
  BY <1>8, <1>11, CoreTypes
<1>13. /\ barriers' = [d \in Cores |-> [barriers[d] EXCEPT ![id] =
                          IF d \in woken THEN PhaseDone(IF d = c THEN left ELSE barriers[d][id])
                          ELSE IF d = c THEN left ELSE barriers[d][id]]]
       /\ stalled_next' = [d \in Cores |->
                IF d \in woken THEN stalled_next[d] \ (IF d = c THEN left ELSE barriers[d][id]).wait_mask
                ELSE stalled_next[d]]
  BY <1>7, <1>9, <1>10 DEF CoreArrival
<1>14. PICK new : new = [d \in Cores |-> IF d \in woken THEN PhaseDone(at[d]) ELSE at[d]]
  OBVIOUS
<1>15. \A d \in Cores : /\ new[d] \in BarRec
                        /\ new[d].wait_mask = IF d \in woken THEN {} ELSE at[d].wait_mask
  BY <1>12, <1>14, PhaseDoneParts
<1>16. \A d \in Cores : /\ barriers'[d] = [barriers[d] EXCEPT ![id] = new[d]]
                        /\ stalled_next'[d] = stalled_next[d] \ (IF d \in woken THEN at[d].wait_mask ELSE {})
  BY <1>12, <1>13, <1>14
<1>17. \A d \in Cores : /\ barriers[d] \in [BarIds -> BarRec] /\ barriers'[d] \in [BarIds -> BarRec]
                        /\ barriers'[d][id] = new[d]
                        /\ \A x \in BarIds \ {id} : barriers'[d][x] = barriers[d][x]
  <2> SUFFICES ASSUME NEW d \in Cores
               PROVE  /\ barriers[d] \in [BarIds -> BarRec] /\ barriers'[d] \in [BarIds -> BarRec]
                      /\ barriers'[d][id] = new[d]
                      /\ \A x \in BarIds \ {id} : barriers'[d][x] = barriers[d][x]
    OBVIOUS
  <2>1. PICK bars, a : bars = barriers[d] /\ a = new[d]
    OBVIOUS
  <2>2. bars \in [BarIds -> BarRec] /\ a \in BarRec
    BY <1>15, <2>1, CoreTypes
  <2>3. /\ [bars EXCEPT ![id] = a] \in [BarIds -> BarRec] /\ [bars EXCEPT ![id] = a][id] = a
        /\ \A x \in BarIds \ {id} : [bars EXCEPT ![id] = a][x] = bars[x]
    BY <2>2
  <2>4. barriers'[d] = [bars EXCEPT ![id] = a]
    BY <1>16, <2>1
  <2> QED BY <2>1, <2>2, <2>3, <2>4
<1>0. /\ DispatchInv /\ ThrInv /\ StallInv /\ PipeInv /\ BarInv /\ SpawnInv
      /\ CodeInv /\ RankInv /\ FineInv
  BY DEF SimtInv
<1>19. /\ code' = code /\ stalled' = stalled /\ wspawn' = wspawn /\ active' = active
       /\ warp' = warp /\ disp' = disp /\ fetched' = fetched
  BY DEF dispatchVars
<1>20. DispatchInv' /\ RankInv' /\ CodeInv' /\ \A d : OpsOn(d)' = OpsOn(d)
  BY <1>0, DispatchFrame
<1>22. ThrInv' /\ PipeInv' /\ SpawnInv'
  BY <1>0, <1>19 DEF ThrInv, PipeInv, SpawnInv
<1>23. BarInv'
  <2>1. barriers' = [d \in Cores |-> barriers'[d]]
    BY <1>13
  <2> QED BY <1>17, <2>1 DEF BarInv
<1>24. StallInv'
  <2>1. stalled_next' = [d \in Cores |-> stalled_next'[d]]
    BY <1>13
  <2>2. \A d \in Cores : stalled_next'[d] \subseteq stalled_next[d]
    BY <1>16
  <2> QED BY <1>0, <1>19, <2>1, <2>2 DEF StallInv
<1>25. ASSUME NEW d \in Cores PROVE FineCore(d)'
  <2>1. PICK act, sn, fe, sf, rs, bars, th, o, len, bars2, sn2, done :
          /\ act = active[d] /\ sn = stalled_next[d] /\ fe = fetched[d] /\ sf = sfu'[d] /\ rs = wb'[d]
          /\ bars = [barriers[d] EXCEPT ![id] = at[d]] /\ th = thr'[d] /\ o = OpsOn(d) /\ len = Len(code)
          /\ bars2 = barriers'[d] /\ sn2 = stalled_next'[d] /\ done = (d \in woken)
    OBVIOUS
  <2>2. /\ bars[id] = at[d] /\ \A x \in BarIds \ {id} : bars[x] = barriers[d][x]
    BY <1>17, <2>1
  <2>3. CoreFine(act, sn, fe, sf, rs, bars, th, o, len)
    <3>1. CASE d = c
      <4>1. \A x \in BarIds : bars[x].wait_mask = bars1[x].wait_mask
        BY <1>8, <1>12, <2>2, <3>1
      <4>2. \A v : WaitsAt(bars, v) = WaitsAt(bars1, v)
        BY <4>1 DEF WaitsAt
      <4>3. sf = sf2 /\ rs = rs2 /\ th = th2
        BY <1>0, <2>1, <3>1 DEF PipeInv, ThrInv
      <4>4. CoreFine(act, sn, fe, sf, rs, bars1, th, o, len)
        BY <2>1, <3>1, <4>3
      <4> QED BY <4>2, <4>4 DEF CoreFine
    <3>2. CASE d # c
      <4>1. sf = sfu[d] /\ rs = wb[d] /\ th = thr[d]
        BY <1>0, <2>1, <3>2 DEF PipeInv, ThrInv
      <4>2. \A x \in BarIds : bars[x] = barriers[d][x]
        BY <1>12, <2>2, <3>2
      <4>3. \A v : WaitsAt(bars, v) = WaitsAt(barriers[d], v)
        BY <4>2 DEF WaitsAt
      <4>4. CoreFine(act, sn, fe, sf, rs, barriers[d], th, o, len)
        BY <1>0, <2>1, <4>1 DEF FineInv, FineCore
      <4> QED BY <4>3, <4>4 DEF CoreFine
    <3> QED BY <3>1, <3>2
  <2>4. Completes(id, done, bars, sn, bars2, sn2)
    <3>1. done \in BOOLEAN
      BY <2>1
    <3>2. bars2[id].wait_mask = IF done THEN {} ELSE bars[id].wait_mask
      BY <1>15, <1>17, <2>1, <2>2
    <3>3. \A x \in BarIds \ {id} : bars2[x].wait_mask = bars[x].wait_mask
      BY <1>17, <2>1, <2>2
    <3>4. sn2 = sn \ (IF done THEN bars[id].wait_mask ELSE {})
      BY <1>16, <2>1, <2>2
    <3> QED BY <3>1, <3>2, <3>3, <3>4 DEF Completes
  <2>5. CoreFine(act, sn2, fe, sf, rs, bars2, th, o, len)
    BY <2>3, <2>4, MayComplete
  <2> QED BY <1>19, <1>20, <2>1, <2>5 DEF FineCore
<1>26. FineInv'
  BY <1>25 DEF FineInv
<1> QED BY <1>20, <1>22, <1>23, <1>24, <1>26 DEF SimtInv

(* The entry of the core that an arrival at it leaves. *)
LEMMA GlobalEntry ==
    ASSUME RegularApps, SimtInv, NEW c \in Cores, NEW w \in Warps, sfu[c][w] # <<>>,
           NEW sync \in BOOLEAN, GlobalArrive(c, w, sync)
    PROVE  \E own \in BarRec :
              /\ own.wait_mask = barriers[c][Bar(c, w)].wait_mask \cup (IF sync THEN {w} ELSE {})
              /\ CoreArrival(c, Bar(c, w), own)
<1>1. PICK own : own = [barriers[c][Bar(c, w)] EXCEPT !.count = I(c, w).n,
                           !.arrival_mask = @ \cup {w},
                           !.wait_mask = IF sync THEN @ \cup {w} ELSE @]
  OBVIOUS
<1>2. CoreArrival(c, Bar(c, w), own)
  BY <1>1 DEF GlobalArrive
<1>3. PICK b \in BarRec, n \in Nat : b = barriers[c][Bar(c, w)] /\ n = I(c, w).n
  BY BarsOf, CoreTypes
<1>4. own \in BarRec /\ own.wait_mask = b.wait_mask \cup (IF sync THEN {w} ELSE {})
  BY <1>1, <1>3 DEF BarRec
<1> QED BY <1>2, <1>3, <1>4

LEMMA BarSyncInv ==
    ASSUME RegularApps, SimtInv, NEW c \in Cores, NEW w \in Warps, BarSync(c, w)
    PROVE  SimtInv'
<1>1. sfu[c][w] # <<>> /\ StallsFetch(I(c, w).op) /\ I(c, w).op # "EXIT"
  BY DEF BarSync, AtSfu, I, StallsFetch
<1>2. Arrive(c, w, TRUE) /\ Leaves(c, w, FALSE)
  BY DEF BarSync
<1>3. PICK sf2, rs2 : LeftSfu(c, w, sf2, rs2, FALSE)
  BY <1>1, <1>2, ServedLeaves
<1>4. CASE LocalArrive(c, w, TRUE)
  <2>4. PICK id, done, bars1, bars2, sn2 : Arrived(c, w, TRUE, id, done, bars1, bars2, sn2)
    BY <1>1, <1>4, ArrivesAt
  <2>5. /\ id \in BarIds /\ done \in BOOLEAN
        /\ bars1[id].wait_mask = barriers[c][id].wait_mask \cup {w}
        /\ \A b \in BarIds \ {id} : bars1[b].wait_mask = barriers[c][b].wait_mask
    BY <2>4 DEF Arrived
  <2>6. PICK act, sn, fe, th, o, len :
          /\ act = active[c] /\ sn = stalled_next[c] /\ fe = fetched[c]
          /\ th = thr[c] /\ o = OpsOn(c) /\ len = Len(code)
    OBVIOUS
  <2>7. CoreFine(act, sn, fe, sf2, rs2, bars1, th, o, len)
    BY <1>1, <1>3, <2>5, <2>6, WaitsHere
  <2>8. /\ bars2[id].wait_mask = IF done THEN {} ELSE bars1[id].wait_mask
        /\ \A b \in BarIds \ {id} : bars2[b].wait_mask = bars1[b].wait_mask
        /\ sn2 = sn \ (IF done THEN bars1[id].wait_mask ELSE {})
    BY <2>4, <2>6 DEF Arrived
  <2>9. CoreFine(act, sn2, fe, sf2, rs2, bars2, th, o, len)
    <3>1. Completes(id, done, bars1, sn, bars2, sn2)
      BY <2>5, <2>8 DEF Completes
    <3> QED BY <2>7, <3>1, MayComplete
  <2>10. /\ fe \in [Warps -> Nat] /\ th \in [Warps -> ThreadRec(len)]
         /\ fetched = [fetched EXCEPT ![c] = fe] /\ thr = [thr EXCEPT ![c] = th]
    BY <2>6, CoreTypes
  <2>11. UNCHANGED <<dispatchVars, code, stalled, wspawn>> /\ fetched' = fetched /\ thr' = thr
    BY DEF BarSync
  <2>12. CoreStep(c, sn2, fe, sf2, rs2, bars2, th)
    BY <1>3, <2>4, <2>6, <2>8, <2>9, <2>10, <2>11 DEF CoreStep, Arrived, LeftSfu
  <2>13. Launched
    BY <1>1, SfuHead
  <2> QED BY <2>12, <2>13, CoreMoves
<1>5. CASE GlobalArrive(c, w, TRUE)
  <2>1. PICK id \in BarIds : id = Bar(c, w)
    BY <1>1, BarsOf
  <2>2. PICK own \in BarRec : /\ own.wait_mask = barriers[c][id].wait_mask \cup {w}
                              /\ CoreArrival(c, id, own)
    BY <1>1, <1>5, <2>1, GlobalEntry
  <2>3. PICK bars1 : bars1 = [barriers[c] EXCEPT ![id] = own]
    OBVIOUS
  <2>4. /\ bars1[id] = own /\ \A b \in BarIds \ {id} : bars1[b] = barriers[c][b]
    BY <2>3, CoreTypes
  <2>5. CoreFine(active[c], stalled_next[c], fetched[c], sf2, rs2, bars1, thr[c], OpsOn(c), Len(code))
    BY <1>1, <1>3, <2>2, <2>4, WaitsHere
  <2>6. UNCHANGED <<dispatchVars, code, stalled, fetched, wspawn>> /\ thr' = thr
    BY DEF BarSync
  <2>7. thr[c] \in [Warps -> ThreadRec(Len(code))] /\ thr' = [thr EXCEPT ![c] = thr[c]]
    BY <2>6, CoreTypes
  <2>8. Launched
    BY <1>1, SfuHead
  <2>9. /\ sf2 \in [Warps -> Seq(Nat)] /\ rs2 \in [Warps -> BOOLEAN]
        /\ sfu' = [sfu EXCEPT ![c] = sf2] /\ wb' = [wb EXCEPT ![c] = rs2]
    BY <1>3 DEF LeftSfu
  <2>10. PICK th2 \in [Warps -> ThreadRec(Len(code))] :
            th2 = thr[c] /\ thr' = [thr EXCEPT ![c] = th2]
    BY <2>7
  <2>11. /\ bars1[id].wait_mask = own.wait_mask
         /\ \A b \in BarIds \ {id} : bars1[b].wait_mask = barriers[c][b].wait_mask
    BY <2>4
  <2>12. CoreFine(active[c], stalled_next[c], fetched[c], sf2, rs2, bars1, th2, OpsOn(c), Len(code))
    BY <2>5, <2>10
  <2>13. ArrivalStep(c, id, own, sf2, rs2, th2, bars1)
    BY <2>2, <2>6, <2>9, <2>10, <2>11, <2>12 DEF ArrivalStep
  <2> QED BY <2>8, <2>13, CoreArrivalInv
<1> QED BY <1>2, <1>4, <1>5 DEF Arrive

LEMMA BarWaitInv ==
    ASSUME RegularApps, SimtInv, NEW c \in Cores, NEW w \in Warps, BarWait(c, w)
    PROVE  SimtInv'
<1>1. sfu[c][w] # <<>> /\ StallsFetch(I(c, w).op) /\ I(c, w).op # "EXIT"
  BY DEF BarWait, AtSfu, I, StallsFetch
<1>2. PICK id, bars : id = Bar(c, w) /\ bars = barriers[c]
  OBVIOUS
<1>3. id \in BarIds /\ bars \in [BarIds -> BarRec]
  BY <1>1, <1>2, BarsOf, CoreTypes
<1>4. UNCHANGED <<dispatchVars, code, stalled, wspawn, stalled_next, thr, fetched>>
  BY DEF BarWait
<1>5. CASE MustWait(bars[id], thr[c][w].phase)
  <2>1. barriers' = [barriers EXCEPT ![c][id].wait_mask = @ \cup {w}] /\ Leaves(c, w, FALSE)
    BY <1>2, <1>5 DEF BarWait, Leaves
  <2>2. PICK sf2, rs2 : LeftSfu(c, w, sf2, rs2, FALSE)
    BY <1>1, <2>1, ServedLeaves
  <2>3. PICK b : b = [bars[id] EXCEPT !.wait_mask = @ \cup {w}]
    OBVIOUS
  <2>4. b \in BarRec /\ b.wait_mask = bars[id].wait_mask \cup {w}
    <3>1. bars[id] \in BarRec
      BY <1>3
    <3> QED BY <2>3, <3>1 DEF BarRec
  <2>5. PICK bars2 : bars2 = [bars EXCEPT ![id] = b]
    OBVIOUS
  <2>6. /\ bars2 \in [BarIds -> BarRec] /\ bars2[id].wait_mask = barriers[c][id].wait_mask \cup {w}
        /\ \A x \in BarIds \ {id} : bars2[x].wait_mask = barriers[c][x].wait_mask
    BY <1>2, <1>3, <2>4, <2>5
  <2>7. barriers' = [barriers EXCEPT ![c] = bars2]
    BY <1>2, <2>1, <2>3, <2>5 DEF SimtInv, BarInv
  <2>8. CoreFine(active[c], stalled_next[c], fetched[c], sf2, rs2, bars2, thr[c], OpsOn(c), Len(code))
    BY <1>1, <1>3, <2>2, <2>6, WaitsHere
  <2>9. /\ fetched[c] \in [Warps -> Nat] /\ thr[c] \in [Warps -> ThreadRec(Len(code))]
        /\ fetched = [fetched EXCEPT ![c] = fetched[c]] /\ thr = [thr EXCEPT ![c] = thr[c]]
        /\ stalled_next = [stalled_next EXCEPT ![c] = stalled_next[c]]
    BY CoreTypes
  <2>10. PICK sn, fe, th : sn = stalled_next[c] /\ fe = fetched[c] /\ th = thr[c]
    OBVIOUS
  <2>11. CoreStep(c, sn, fe, sf2, rs2, bars2, th)
    BY <1>4, <2>2, <2>6, <2>7, <2>8, <2>9, <2>10 DEF CoreStep, LeftSfu
  <2>12. Launched
    BY <1>1, SfuHead
  <2> QED BY <2>11, <2>12, CoreMoves
<1>6. CASE ~MustWait(bars[id], thr[c][w].phase)
  <2>1. barriers' = barriers /\ Leaves(c, w, TRUE)
    BY <1>2, <1>6 DEF BarWait, Leaves
  <2>2. UNCHANGED <<dispatchVars, code, stalled, wspawn, stalled_next, fetched, barriers>>
    BY <1>4, <2>1
  <2>3. thr' = [thr EXCEPT ![c][w] = thr[c][w]]
    BY <1>4, ThreadOf
  <2>4. thr[c][w] \in ThreadRec(Len(code)) /\ thr[c][w].pc \in 1 .. Len(code)
    BY <1>1, ThreadOf, ServedHead
  <2> QED BY <1>1, <2>1, <2>2, <2>3, <2>4, ServedMoves
<1> QED BY <1>5, <1>6
(* An instruction that stalls nobody leaves the SFU. *)
PassedSfu(c, sf2, rs2, th2) ==
    /\ sf2 \in [Warps -> Seq(Nat)] /\ rs2 \in [Warps -> BOOLEAN]
    /\ sfu' = [sfu EXCEPT ![c] = sf2] /\ wb' = [wb EXCEPT ![c] = rs2]
    /\ CoreFine(active[c], stalled_next[c], fetched[c], sf2, rs2, barriers[c], th2, OpsOn(c), Len(code))

LEMMA PassedLeaves ==
    ASSUME RegularApps, SimtInv, NEW c \in Cores, NEW w \in Warps, sfu[c][w] # <<>>,
           ~StallsFetch(I(c, w).op), Leaves(c, w, FALSE), NEW th2,
           \A v \in Warps : th2[v].pc = thr[c][v].pc
    PROVE  \E sf2, rs2 : PassedSfu(c, sf2, rs2, th2)
<1>1. PICK act, sn, fe, sf, rs, bars, th, o, len :
        /\ act = active[c] /\ sn = stalled_next[c] /\ fe = fetched[c] /\ sf = sfu[c] /\ rs = wb[c]
        /\ bars = barriers[c] /\ th = thr[c] /\ o = OpsOn(c) /\ len = Len(code)
  OBVIOUS
<1>2. CoreFine(act, sn, fe, sf, rs, bars, th, o, len)
  BY <1>1 DEF SimtInv, FineInv, FineCore
<1>3. sf \in [Warps -> Seq(Nat)] /\ rs \in [Warps -> BOOLEAN]
  BY <1>1, CoreTypes
<1>4. PICK q, sf2 : q = Tail(sf[w]) /\ sf2 = [sf EXCEPT ![w] = q]
  OBVIOUS
<1>5. q \in Seq(Nat)
  <2>1. sf[w] \in Seq(Nat) /\ sf[w] # <<>>
    BY <1>1, <1>3
  <2> QED BY <1>4, <2>1, HeadTailProperties
<1>6. /\ sf2 \in [Warps -> Seq(Nat)] /\ sf2[w] = q
      /\ \A v \in Warps \ {w} : sf2[v] = sf[v]
  BY <1>3, <1>4, <1>5
<1>7. sfu' = [sfu EXCEPT ![c] = sf2] /\ wb' = [wb EXCEPT ![c] = rs]
  <2>1. sfu' = [sfu EXCEPT ![c][w] = Tail(@)] /\ wb' = [wb EXCEPT ![c][w] = @ \/ FALSE]
    BY DEF Leaves
  <2>2. [rs EXCEPT ![w] = @ \/ FALSE] = rs
    <3>1. (rs[w] \/ FALSE) = rs[w]
      BY <1>3
    <3> QED BY <1>3, <3>1
  <2>3. wb' = [wb EXCEPT ![c] = [rs EXCEPT ![w] = @ \/ FALSE]]
    BY <1>1, <2>1 DEF SimtInv, PipeInv
  <2>4. sfu' = [sfu EXCEPT ![c] = sf2]
    BY <1>1, <1>4, <2>1 DEF SimtInv, PipeInv
  <2> QED BY <2>2, <2>3, <2>4
<1>8. Fine(w, act, sn, fe[w], sf2[w], rs[w], WaitsAt(bars, w), th2[w].pc, o[w], len)
  <2>1. PICK f, p, r, B, pc, ow : /\ f = fe[w] /\ p = sf[w] /\ r = rs[w] /\ B = WaitsAt(bars, w)
                                  /\ pc = th[w].pc /\ ow = o[w]
    OBVIOUS
  <2>2. Fine(w, act, sn, f, p, r, B, pc, ow, len)
    BY <1>2, <2>1 DEF CoreFine
  <2>3. len \in Nat \ {0} /\ ow[len] = "EXIT" /\ p # <<>> /\ I(c, w).op = ow[Head(p)]
    BY <1>1, <2>1, SfuHead
  <2>4. ~StallsFetch(ow[Head(p)])
    BY <2>3
  <2>5. Fine(w, act, sn, f, Tail(p), r, B, pc, ow, len)
    BY <2>2, <2>3, <2>4, Passed
  <2>6. th2[w].pc = pc /\ sf2[w] = Tail(p)
    BY <1>1, <1>4, <1>6, <2>1
  <2> QED BY <2>1, <2>5, <2>6
<1>9. \A v \in Warps \ {w} : sf2[v] = sf[v] /\ th2[v].pc = th[v].pc
  BY <1>1, <1>6
<1>10. CoreFine(act, sn, fe, sf2, rs, bars, th2, o, len)
  BY <1>2, <1>8, <1>9, OneWarpMoves
<1>11. PassedSfu(c, sf2, rs, th2)
  BY <1>1, <1>3, <1>6, <1>7, <1>10 DEF PassedSfu
<1> QED BY <1>11

LEMMA BarArriveInv ==
    ASSUME RegularApps, SimtInv, NEW c \in Cores, NEW w \in Warps, BarArrive(c, w)
    PROVE  SimtInv'
<1>1. sfu[c][w] # <<>> /\ ~StallsFetch(I(c, w).op)
  BY DEF BarArrive, AtSfu, I, StallsFetch
<1>2. Arrive(c, w, FALSE) /\ Leaves(c, w, FALSE)
  BY DEF BarArrive
<1>3. PICK th, len, b, ph : /\ th = thr[c] /\ len = Len(code) /\ b = barriers[c][Bar(c, w)]
                            /\ ph = ReadPhase(b)
  OBVIOUS
<1>4. th \in [Warps -> ThreadRec(len)] /\ b \in BarRec
  BY <1>1, <1>3, CoreTypes, BarsOf
<1>5. ph \in Nat
  <2>1. b.phase \in Nat
    BY <1>4 DEF BarRec
  <2>2. PICK n \in Nat : n = b.phase
    BY <2>1
  <2> QED BY <1>3, <2>2 DEF ReadPhase
<1>6. PICK t, th2 : t = [th[w] EXCEPT !.phase = ph] /\ th2 = [th EXCEPT ![w] = t]
  OBVIOUS
<1>7. t \in ThreadRec(len) /\ t.pc = th[w].pc
  <2>1. th[w] \in ThreadRec(len)
    BY <1>4
  <2> QED BY <1>5, <1>6, <2>1 DEF ThreadRec
<1>8. th2 \in [Warps -> ThreadRec(len)] /\ \A v \in Warps : th2[v].pc = thr[c][v].pc
  BY <1>3, <1>4, <1>6, <1>7
<1>9. thr' = [thr EXCEPT ![c] = th2]
  <2>1. thr' = [thr EXCEPT ![c][w].phase = ph]
    BY <1>3 DEF BarArrive
  <2> QED BY <1>3, <1>6, <2>1, ThreadOf
<1>10. PICK sf2, rs2 : PassedSfu(c, sf2, rs2, th2)
  BY <1>1, <1>2, <1>8, PassedLeaves
<1>11. CASE LocalArrive(c, w, FALSE)
  <2>11. PICK id, done, bars1, bars2, sn2 : Arrived(c, w, FALSE, id, done, bars1, bars2, sn2)
    BY <1>1, <1>11, ArrivesAt
  <2>12. PICK act, sn, fe, bars, o : /\ act = active[c] /\ sn = stalled_next[c] /\ fe = fetched[c]
                                     /\ bars = barriers[c] /\ o = OpsOn(c)
    OBVIOUS
  <2>13. CoreFine(act, sn, fe, sf2, rs2, bars, th2, o, len)
    BY <1>3, <1>10, <2>12 DEF PassedSfu
  <2>14. Completes(id, done, bars, sn, bars2, sn2)
    <3>1. bars1[id].wait_mask = bars[id].wait_mask
      BY <2>11, <2>12 DEF Arrived
    <3> QED BY <2>11, <2>12, <3>1 DEF Arrived, Completes
  <2>15. CoreFine(act, sn2, fe, sf2, rs2, bars2, th2, o, len)
    BY <2>13, <2>14, MayComplete
  <2>16. fe \in [Warps -> Nat] /\ fetched = [fetched EXCEPT ![c] = fe]
    BY <2>12, CoreTypes
  <2>17. UNCHANGED <<dispatchVars, code, stalled, wspawn>> /\ fetched' = fetched
    BY DEF BarArrive
  <2>18. CoreStep(c, sn2, fe, sf2, rs2, bars2, th2)
    BY <1>3, <1>8, <1>9, <1>10, <2>11, <2>12, <2>14, <2>15, <2>16, <2>17
       DEF CoreStep, Arrived, PassedSfu
  <2>19. Launched
    BY <1>1, SfuHead
  <2> QED BY <2>18, <2>19, CoreMoves
<1>12. CASE GlobalArrive(c, w, FALSE)
  <2>1. PICK id \in BarIds : id = Bar(c, w)
    BY <1>1, BarsOf
  <2>2. PICK own \in BarRec : /\ own.wait_mask = barriers[c][id].wait_mask
                              /\ CoreArrival(c, id, own)
    <3>1. PICK own \in BarRec :
             /\ own.wait_mask = barriers[c][Bar(c, w)].wait_mask \cup (IF FALSE THEN {w} ELSE {})
             /\ CoreArrival(c, Bar(c, w), own)
      BY <1>1, <1>12, GlobalEntry
    <3>2. own.wait_mask = barriers[c][id].wait_mask
      BY <2>1, <3>1
    <3> QED BY <2>1, <3>1, <3>2
  <2>3. UNCHANGED <<dispatchVars, code, stalled, fetched, wspawn>>
    BY DEF BarArrive
  <2>4. Launched
    BY <1>1, SfuHead
  <2>5. /\ sf2 \in [Warps -> Seq(Nat)] /\ rs2 \in [Warps -> BOOLEAN]
        /\ sfu' = [sfu EXCEPT ![c] = sf2] /\ wb' = [wb EXCEPT ![c] = rs2]
    BY <1>10 DEF PassedSfu
  <2>6. PICK bars1 : bars1 = barriers[c]
    OBVIOUS
  <2>7. /\ bars1[id].wait_mask = own.wait_mask
        /\ \A i \in BarIds \ {id} : bars1[i].wait_mask = barriers[c][i].wait_mask
    BY <2>2, <2>6
  <2>8. CoreFine(active[c], stalled_next[c], fetched[c], sf2, rs2, bars1, th2, OpsOn(c), Len(code))
    BY <1>10, <2>6 DEF PassedSfu
  <2>9. th2 \in [Warps -> ThreadRec(Len(code))]
    BY <1>3, <1>8
  <2>10. ArrivalStep(c, id, own, sf2, rs2, th2, bars1)
    BY <1>9, <2>2, <2>3, <2>5, <2>7, <2>8, <2>9 DEF ArrivalStep
  <2> QED BY <2>4, <2>10, CoreArrivalInv
<1> QED BY <1>2, <1>11, <1>12 DEF Arrive

LEMMA ExpectTxInv ==
    ASSUME RegularApps, SimtInv, NEW c \in Cores, NEW w \in Warps, ExpectTx(c, w)
    PROVE  SimtInv'
<1>1. sfu[c][w] # <<>> /\ ~StallsFetch(I(c, w).op)
  BY DEF ExpectTx, AtSfu, I, StallsFetch
<1>2. Leaves(c, w, FALSE)
  BY DEF ExpectTx
<1>3. PICK act, sn, fe, bars, th, o, len, id :
        /\ act = active[c] /\ sn = stalled_next[c] /\ fe = fetched[c] /\ bars = barriers[c]
        /\ th = thr[c] /\ o = OpsOn(c) /\ len = Len(code) /\ id = Bar(c, w)
  OBVIOUS
<1>4. /\ id \in BarIds /\ bars \in [BarIds -> BarRec] /\ fe \in [Warps -> Nat]
      /\ th \in [Warps -> ThreadRec(len)] /\ fetched = [fetched EXCEPT ![c] = fe]
      /\ thr = [thr EXCEPT ![c] = th] /\ stalled_next = [stalled_next EXCEPT ![c] = sn]
  BY <1>1, <1>3, CoreTypes, BarsOf
<1>5. \A v \in Warps : th[v].pc = thr[c][v].pc
  BY <1>3
<1>6. PICK sf2, rs2 : PassedSfu(c, sf2, rs2, th)
  BY <1>1, <1>2, <1>5, PassedLeaves
<1>7. PICK b : b = [bars[id] EXCEPT !.events = @ + 1]
  OBVIOUS
<1>8. b \in BarRec /\ b.wait_mask = bars[id].wait_mask
  <2>1. bars[id] \in BarRec
    BY <1>4
  <2> QED BY <1>7, <2>1 DEF BarRec
<1>9. PICK bars2 : bars2 = [bars EXCEPT ![id] = b]
  OBVIOUS
<1>10. /\ bars2 \in [BarIds -> BarRec]
       /\ \A x \in BarIds : bars2[x].wait_mask = bars[x].wait_mask
  BY <1>4, <1>8, <1>9
<1>11. barriers' = [barriers EXCEPT ![c] = bars2]
  <2>1. barriers' = [barriers EXCEPT ![c][id].events = @ + 1]
    BY <1>3 DEF ExpectTx
  <2> QED BY <1>3, <1>7, <1>9, <2>1 DEF SimtInv, BarInv
<1>12. CoreFine(act, sn, fe, sf2, rs2, bars, th, o, len)
  BY <1>3, <1>6 DEF PassedSfu
<1>13. CoreFine(act, sn, fe, sf2, rs2, bars2, th, o, len)
  <2>1. \A v : WaitsAt(bars2, v) = WaitsAt(bars, v)
    BY <1>10 DEF WaitsAt
  <2> QED BY <1>12, <2>1 DEF CoreFine
<1>14. UNCHANGED <<dispatchVars, code, stalled, wspawn, stalled_next, thr, fetched>>
  BY DEF ExpectTx
<1>15. CoreStep(c, sn, fe, sf2, rs2, bars2, th)
  BY <1>3, <1>4, <1>6, <1>10, <1>11, <1>13, <1>14 DEF CoreStep, PassedSfu
<1>16. Launched
  BY <1>1, SfuHead
<1> QED BY <1>15, <1>16, CoreMoves

LEMMA TransferInv ==
    ASSUME SimtInv, NEW c \in Cores, NEW id \in BarIds, TransferDone(c, id)
    PROVE  SimtInv'
<1>1. PICK act, sn, fe, sf, rs, bars, th, o, len :
        /\ act = active[c] /\ sn = stalled_next[c] /\ fe = fetched[c] /\ sf = sfu[c] /\ rs = wb[c]
        /\ bars = barriers[c] /\ th = thr[c] /\ o = OpsOn(c) /\ len = Len(code)
  OBVIOUS
<1>2. CoreFine(act, sn, fe, sf, rs, bars, th, o, len)
  BY <1>1 DEF SimtInv, FineInv, FineCore
<1>3. /\ fe \in [Warps -> Nat] /\ sf \in [Warps -> Seq(Nat)] /\ th \in [Warps -> ThreadRec(len)]
      /\ rs \in [Warps -> BOOLEAN] /\ bars \in [BarIds -> BarRec] /\ sfu = [sfu EXCEPT ![c] = sf]
      /\ fetched = [fetched EXCEPT ![c] = fe] /\ thr = [thr EXCEPT ![c] = th]
      /\ wb = [wb EXCEPT ![c] = rs]
  BY <1>1, CoreTypes
<1>4. Launched
  <2>1. dxa[c][id] # 0
    <3>1. PICK n : n = dxa[c][id]
      OBVIOUS
    <3>2. n > 0
      BY <3>1 DEF TransferDone
    <3>3. n = 0 => ~(n > 0)
      OBVIOUS
    <3> QED BY <3>1, <3>2, <3>3
  <2> QED BY <2>1 DEF SimtInv, CodeInv, Quiet
<1>5. PICK b : b = [bars[id] EXCEPT !.events = @ - 1]
  OBVIOUS
<1>6. b \in BarRec /\ b.wait_mask = bars[id].wait_mask
  <2>1. bars[id] \in BarRec
    BY <1>3
  <2> QED BY <1>5, <2>1 DEF BarRec
<1>7. PICK done, wakes : /\ done = (b.events = 0 /\ b.count = 0)
                         /\ wakes = IF done THEN b.wait_mask ELSE {}
  OBVIOUS
<1>8. PICK a : a = IF done THEN PhaseDone(b) ELSE b
  OBVIOUS
<1>9. done \in BOOLEAN
  BY <1>7
<1>10. a \in BarRec /\ a.wait_mask = IF done THEN {} ELSE bars[id].wait_mask
  <2>1. CASE done
    <3>1. PICK n : n = b.phase + 1
      OBVIOUS
    <3>2. n \in Nat
      BY <1>6, <3>1 DEF BarRec
    <3>3. a = [b EXCEPT !.wait_mask = {}, !.phase = n]
      BY <1>8, <2>1, <3>1 DEF PhaseDone
    <3> QED BY <1>6, <2>1, <3>2, <3>3 DEF BarRec
  <2>2. CASE ~done
    BY <1>6, <1>8, <2>2
  <2> QED BY <2>1, <2>2
<1>11. /\ barriers' = [barriers EXCEPT ![c][id] = a]
       /\ stalled_next' = [stalled_next EXCEPT ![c] = @ \ wakes]
       /\ UNCHANGED <<dispatchVars, code, stalled, wspawn>>
       /\ thr' = thr /\ fetched' = fetched /\ sfu' = sfu /\ wb' = wb
  BY <1>1, <1>5, <1>7, <1>8 DEF TransferDone, EventRelease, TransferIsGlobal
<1>12. PICK bars2, sn2 : bars2 = [bars EXCEPT ![id] = a] /\ sn2 = sn \ wakes
  OBVIOUS
<1>13. /\ bars2 \in [BarIds -> BarRec]
       /\ bars2[id].wait_mask = IF done THEN {} ELSE bars[id].wait_mask
       /\ \A x \in BarIds \ {id} : bars2[x].wait_mask = bars[x].wait_mask
       /\ sn2 = sn \ (IF done THEN bars[id].wait_mask ELSE {})
  BY <1>3, <1>6, <1>7, <1>10, <1>12
<1>14. barriers' = [barriers EXCEPT ![c] = bars2] /\ stalled_next' = [stalled_next EXCEPT ![c] = sn2]
  BY <1>1, <1>11, <1>12 DEF SimtInv, BarInv, StallInv
<1>15. CoreFine(act, sn2, fe, sf, rs, bars2, th, o, len)
  <2>1. Completes(id, done, bars, sn, bars2, sn2)
    BY <1>9, <1>13 DEF Completes
  <2> QED BY <1>2, <2>1, MayComplete
<1>16. CoreStep(c, sn2, fe, sf, rs, bars2, th)
  BY <1>1, <1>3, <1>11, <1>12, <1>13, <1>14, <1>15 DEF CoreStep
<1> QED BY <1>4, <1>16, CoreMoves
-----------------------------------------------------------------------------
(* Scheduling.                                                             *)

(* The dispatcher with a CTA in hand: no warp has got or lost its slot. *)
LEMMA HeldSlots ==
    ASSUME NEW d, NEW act, Sound(d, act), NEW k \in KmuType, Good(k.kernel)
    PROVE  /\ Loaded(d, k).wid_to_slot = d.wid_to_slot
           /\ Held(d, k).wid_to_slot = d.wid_to_slot
<1>1. d \in DispatcherType
  BY DEF Sound
<1>2. PICK e : e = Loaded(d, k)
  OBVIOUS
<1>3. e \in DispatcherType /\ e.wid_to_slot = d.wid_to_slot
  BY <1>1, <1>2, LoadedParts
<1>4. Sound(e, act)
  BY <1>2, LoadedSound
<1>5. Admitted(e).wid_to_slot = e.wid_to_slot
  BY <1>3, <1>4, AdmittedParts DEF Sound
<1> QED BY <1>2, <1>3, <1>5 DEF Held

(* A call of the dispatcher that starts nothing. *)
LEMMA IdleParts ==
    ASSUME SimtInv, Launched, NEW c \in Cores, DispatcherIdle(c),
           UNCHANGED <<active, warp, launches, issued, code>>
    PROVE  /\ DispatchInv' /\ RankInv' /\ CodeInv' /\ OpsOn(c)' = OpsOn(c)
           /\ \A d \in Cores \ {c} : disp'[d] = disp[d]
           /\ [DispatchNext]_dispatchVars
<1>0. DispatchInv /\ RankInv
  BY DEF SimtInv
<1>1. [DispatchNext]_dispatchVars
  BY DEF DispatcherIdle, DispatchNext, DispatchStep, StartNothing, dispatchVars
<1>2. DispatchInv'
  BY <1>0, <1>1, NextInv
<1>3. /\ kmu \in KmuType /\ Good(kmu.kernel) /\ disp \in [Cores -> DispatcherType]
      /\ Sound(disp[c], active[c])
  BY <1>0 DEF DispatchInv, OnCore
<1>4. kmu'.kernel = kmu.kernel
  BY <1>0, AfterLoad DEF DispatcherIdle, StepBlocked, StepNoWarp
<1>5. PICK d, act, k : d = disp[c] /\ act = active[c] /\ k = kmu
  OBVIOUS
<1>6. Loaded(d, k).wid_to_slot = d.wid_to_slot /\ Held(d, k).wid_to_slot = d.wid_to_slot
  <2>1. Sound(d, act) /\ k \in KmuType /\ Good(k.kernel)
    BY <1>3, <1>5
  <2> QED BY <2>1, HeldSlots
<1>7. \/ disp' = [disp EXCEPT ![c] = Loaded(d, k)]
      \/ disp' = [disp EXCEPT ![c] = Held(d, k)]
      \/ disp' = disp
  BY <1>5 DEF DispatcherIdle, StepBlocked, StepNoWarp, Holding, Held
<1>8. disp'[c].wid_to_slot = disp[c].wid_to_slot /\ \A e \in Cores \ {c} : disp'[e] = disp[e]
  BY <1>3, <1>5, <1>6, <1>7
<1>9. OpsOn(c)' = OpsOn(c)
  BY <1>8, OpsSame
<1>10. RankInv' /\ CodeInv'
  BY <1>0, <1>4 DEF RankInv, CodeInv, Launched
<1> QED BY <1>1, <1>2, <1>8, <1>9, <1>10

(* The dispatcher starts warp w. *)
StartedOn(c, w) ==
    /\ w \in Warps \ active[c]
    /\ DispatchInv' /\ RankInv' /\ CodeInv' /\ kmu'.kernel = kmu.kernel
    /\ active'[c] = active[c] \cup {w}
    /\ \A v \in Warps \ {w} : OpsOn(c)'[v] = OpsOn(c)[v]
    /\ \A d \in Cores \ {c} : active'[d] = active[d] /\ warp'[d] = warp[d] /\ disp'[d] = disp[d]

LEMMA StartParts ==
    ASSUME SimtInv, Launched, NEW c \in Cores, StartWarp(c), code' = code
    PROVE  \E w : StartedOn(c, w)
<1>0. DispatchInv /\ RankInv
  BY DEF SimtInv
<1>1. DispatchInv'
  BY <1>0, StepInv DEF DispatchStep
<1>2. PICK d, act, wr, k, w : /\ d = disp[c] /\ act = active[c] /\ wr = warp[c] /\ k = kmu
                              /\ w = LowestFree(act)
  OBVIOUS
<1>3. /\ k \in KmuType /\ Good(k.kernel) /\ disp \in [Cores -> DispatcherType]
      /\ active \in [Cores -> SUBSET Warps] /\ warp \in [Cores -> [Warps -> WarpType]]
      /\ Sound(d, act) /\ Placed(d, act, wr, k.kernel) /\ wr \in [Warps -> WarpType]
      /\ act \subseteq Warps
  BY <1>0, <1>2 DEF DispatchInv, OnCore
<1>4. w \in Warps \ act
  BY <1>2, <1>3, LowestFreeInactive DEF StartWarp
<1>5. PICK h : h = Held(d, k)
  OBVIOUS
<1>6. Sound(h, act) /\ Placed(h, act, wr, k.kernel) /\ h.has_cta /\ h \in DispatcherType
  <2>1. d.has_cta \/ WindowFree(d, Loaded(d, k).pending_cta)
    BY <1>2 DEF StartWarp, Blocked
  <2> QED BY <1>3, <1>5, <2>1, HeldSound
<1>7. h.wid_to_slot = d.wid_to_slot
  BY <1>3, <1>5, HeldSlots
<1>8. /\ disp' = [disp EXCEPT ![c] = NextWarp(h, w)] /\ warp' = [warp EXCEPT ![c][w] = WarpRecord(h, w)]
      /\ active' = [active EXCEPT ![c] = @ \cup {w}] /\ kmu' = KmuAfterLoad(c)
  BY <1>2, <1>5 DEF StartWarp, Holding, Held
<1>9. kmu'.kernel = kmu.kernel
  BY <1>0, <1>8, AfterLoad
<1>10. /\ active'[c] = active[c] \cup {w} /\ disp'[c] = NextWarp(h, w)
       /\ warp'[c][w] = WarpRecord(h, w) /\ \A v \in Warps \ {w} : warp'[c][v] = warp[c][v]
       /\ \A e \in Cores \ {c} : active'[e] = active[e] /\ warp'[e] = warp[e] /\ disp'[e] = disp[e]
  BY <1>2, <1>3, <1>4, <1>8
<1>11. NextWarp(h, w).wid_to_slot = [h.wid_to_slot EXCEPT ![w] = h.cur_slot]
  BY <1>4, <1>6, NextWarpParts DEF Sound
<1>12. ASSUME NEW v \in Warps \ {w} PROVE OpsOn(c)'[v] = OpsOn(c)[v]
  <2>1. d.wid_to_slot \in [Warps -> Slots \cup {NoSlot}]
    BY <1>3, DispatcherParts DEF Sound
  <2>2. disp'[c].wid_to_slot[v] = disp[c].wid_to_slot[v]
    BY <1>2, <1>7, <1>10, <1>11, <2>1
  <2> QED BY <1>10, <2>2, OpsOfWarp
<1>13. h.rank \in Nat /\ h.rank < CtaSize(k.kernel) /\ CtaSize(k.kernel) \in Nat \ {0}
       /\ h.cta.kernel = k.kernel
  BY <1>3, <1>6, CtaSizePositive, DispatcherParts DEF Sound, Placed
<1>14. WarpRecord(h, w).cta_rank = h.rank /\ WarpRecord(h, w).cta_size = CtaSize(k.kernel)
  BY <1>13 DEF WarpRecord
<1>15. h.rank \in Ranks(kmu'.kernel)
  <2>1. PICK n \in Nat, r \in Nat : n = CtaSize(k.kernel) /\ r = h.rank /\ r < n
    BY <1>13
  <2>2. r \in 0 .. n - 1
    BY <2>1
  <2> QED BY <1>2, <1>9, <2>1, <2>2 DEF Ranks
<1>16. RankInv'
  <2> SUFFICES ASSUME NEW e \in Cores, NEW v \in active'[e]
               PROVE  /\ warp'[e][v].cta_rank \in Ranks(kmu'.kernel)
                      /\ warp'[e][v].cta_size \in Nat \ {0}
    BY DEF RankInv
  <2>1. CASE e = c /\ v = w
    BY <1>10, <1>13, <1>14, <1>15, <2>1
  <2>2. CASE ~(e = c /\ v = w)
    <3>1. v \in active[e] /\ v \in Warps /\ warp'[e][v] = warp[e][v]
      BY <1>3, <1>4, <1>10, <2>2
    <3> QED BY <1>0, <1>9, <3>1 DEF RankInv
  <2> QED BY <2>1, <2>2
<1>17. CodeInv'
  BY <1>9 DEF CodeInv, Launched
<1>18. StartedOn(c, w)
  BY <1>1, <1>2, <1>4, <1>9, <1>10, <1>12, <1>16, <1>17 DEF StartedOn
<1> QED BY <1>18

(* The pick is a warp that nobody is to resume. *)
LEMMA PickedReady ==
    ASSUME NEW act, NEW stall, act \subseteq Warps, Ready(act, stall) # {}
    PROVE  Picked(act, stall) \in act /\ Picked(act, stall) \notin stall
<1>1. PICK busy : busy = Warps \ Ready(act, stall)
  OBVIOUS
<1>2. busy \subseteq Warps /\ busy # Warps /\ Warps \ busy = Ready(act, stall)
  BY <1>1 DEF Ready
<1>3. LowestFree(busy) \in Warps \ busy
  BY <1>2, LowestFreeInactive
<1>4. LowestFree(busy) = Picked(act, stall)
  BY <1>2 DEF LowestFree, Picked
<1>5. Picked(act, stall) \in Ready(act, stall)
  BY <1>2, <1>3, <1>4
<1> QED BY <1>5 DEF Ready

PickedOn(c, act, th, o, sn2, fe2) ==
    /\ stalled' = [stalled EXCEPT ![c] = sn2] /\ stalled_next' = [stalled_next EXCEPT ![c] = sn2]
    /\ fetched' = [fetched EXCEPT ![c] = fe2]
    /\ sn2 \subseteq Warps /\ fe2 \in [Warps -> Nat]
    /\ CoreFine(act, sn2, fe2, sfu[c], wb[c], barriers[c], th, o, Len(code))

LEMMA PickParts ==
    ASSUME SimtInv, NEW c \in Cores, NEW act, NEW stall, NEW next, NEW th, NEW o,
           act \subseteq Warps, next \subseteq Warps, next \subseteq stall,
           th \in [Warps -> ThreadRec(Len(code))], Len(code) \in Nat \ {0},
           \A w \in act : o[w][Len(code)] = "EXIT",
           CoreFine(act, next, fetched[c], sfu[c], wb[c], barriers[c], th, o, Len(code)),
           Pick(c, act, stall, next, th)
    PROVE  \E sn2, fe2 : PickedOn(c, act, th, o, sn2, fe2)
<1>1. PICK fe, sf, rs, bars, len : /\ fe = fetched[c] /\ sf = sfu[c] /\ rs = wb[c]
                                   /\ bars = barriers[c] /\ len = Len(code)
  OBVIOUS
<1>2. fe \in [Warps -> Nat] /\ fetched = [fetched EXCEPT ![c] = fe]
  BY <1>1, CoreTypes
<1>3. CASE Ready(act, stall) = {}
  <2>1. /\ stalled' = [stalled EXCEPT ![c] = next] /\ stalled_next' = [stalled_next EXCEPT ![c] = next]
        /\ fetched' = fetched
    BY <1>3 DEF Pick
  <2>2. PickedOn(c, act, th, o, next, fe)
    BY <1>1, <1>2, <2>1 DEF PickedOn
  <2> QED BY <2>2
<1>4. CASE Ready(act, stall) # {}
  <2>1. PICK w, pc, sn2 : w = Picked(act, stall) /\ pc = th[w].pc /\ sn2 = next \cup {w}
    OBVIOUS
  <2>2. w \in act /\ w \notin next /\ w \in Warps
    BY <1>4, <2>1, PickedReady
  <2>3. PICK fe2 : fe2 = [fe EXCEPT ![w] = pc]
    OBVIOUS
  <2>4. /\ stalled' = [stalled EXCEPT ![c] = sn2] /\ stalled_next' = [stalled_next EXCEPT ![c] = sn2]
        /\ fetched' = [fetched EXCEPT ![c][w] = pc]
    BY <1>4, <2>1 DEF Pick
  <2>5. fetched' = [fetched EXCEPT ![c] = fe2]
    BY <1>1, <2>3, <2>4 DEF SimtInv, PipeInv
  <2>6. pc \in Nat
    BY <2>1, <2>2 DEF ThreadRec
  <2>7. /\ sn2 \subseteq Warps /\ fe2 \in [Warps -> Nat] /\ fe2[w] = pc
        /\ \A v \in Warps \ {w} : fe2[v] = fe[v] /\ (v \in sn2 <=> v \in next)
    BY <1>2, <2>1, <2>2, <2>3, <2>6
  <2>8. CoreFine(act, next, fe, sf, rs, bars, th, o, len)
    BY <1>1
  <2>9. PICK f, q, r, B, ow : /\ f = fe[w] /\ q = sf[w] /\ r = rs[w] /\ B = WaitsAt(bars, w)
                              /\ ow = o[w]
    OBVIOUS
  <2>10. Fine(w, act, next, f, q, r, B, pc, ow, len)
    BY <2>1, <2>2, <2>8, <2>9 DEF CoreFine
  <2>11. len \in Nat \ {0} /\ ow[len] = "EXIT" /\ w \in sn2
    BY <1>1, <2>1, <2>2, <2>9
  <2>12. Fine(w, act, sn2, pc, q, r, B, pc, ow, len)
    BY <2>2, <2>10, <2>11, PickedFine
  <2>13. Fine(w, act, sn2, fe2[w], sf[w], rs[w], WaitsAt(bars, w), th[w].pc, o[w], len)
    BY <2>1, <2>7, <2>9, <2>12
  <2>14. CoreFine(act, sn2, fe2, sf, rs, bars, th, o, len)
    <3>1. ASSUME NEW v \in Warps, v # w
          PROVE  Fine(v, act, sn2, fe2[v], sf[v], rs[v], WaitsAt(bars, v), th[v].pc, o[v], len)
      <4>1. Fine(v, act, next, fe[v], sf[v], rs[v], WaitsAt(bars, v), th[v].pc, o[v], len)
        BY <2>8 DEF CoreFine
      <4>2. fe2[v] = fe[v] /\ (v \in next <=> v \in sn2)
        BY <2>7, <3>1
      <4>3. Fine(v, act, sn2, fe[v], sf[v], rs[v], WaitsAt(bars, v), th[v].pc, o[v], len)
        BY <4>1, <4>2, FineFrame
      <4> QED BY <4>2, <4>3
    <3> QED BY <2>13, <3>1 DEF CoreFine
  <2>15. PickedOn(c, act, th, o, sn2, fe2)
    BY <1>1, <2>4, <2>5, <2>7, <2>14 DEF PickedOn
  <2> QED BY <2>15
<1> QED BY <1>3, <1>4
LEMMA ExitsAfter ==
    ASSUME RegularApps, Launched, code' = code, kmu'.kernel = kmu.kernel, RankInv', NEW c \in Cores,
           NEW w \in Warps, w \in active'[c]
    PROVE  OpsOn(c)'[w][Len(code)] = "EXIT"
<1>1. /\ Len(code) \in Nat \ {0} /\ DOMAIN code = 1 .. Len(code)
      /\ code[Len(code)].op = "EXIT" /\ Ranks(kmu.kernel) \subseteq code[Len(code)].who
  BY CodeFacts
<1>2. warp'[c][w].cta_rank \in code[Len(code)].who
  BY <1>1 DEF RankInv
<1>3. Len(code) \in DOMAIN code
  BY <1>1
<1> QED BY <1>1, <1>2, <1>3 DEF OpsOn

LEMMA ScheduleOnlyInv ==
    ASSUME RegularApps, SimtInv, Launched, NEW c \in Cores, ScheduleOnly(c)
    PROVE  SimtInv'
<1>1. PICK act, sn, sf, rs, bars, th, o : /\ act = active[c] /\ sn = stalled_next[c] /\ sf = sfu[c]
                                          /\ rs = wb[c] /\ bars = barriers[c] /\ th = thr[c]
                                          /\ o = OpsOn(c)
  OBVIOUS
<1>2. /\ act \subseteq Warps /\ sn \subseteq Warps /\ th \in [Warps -> ThreadRec(Len(code))]
      /\ sf \in [Warps -> Seq(Nat)] /\ rs \in [Warps -> BOOLEAN] /\ bars \in [BarIds -> BarRec]
      /\ sfu = [sfu EXCEPT ![c] = sf] /\ wb = [wb EXCEPT ![c] = rs]
      /\ barriers = [barriers EXCEPT ![c] = bars] /\ thr = [thr EXCEPT ![c] = th]
  BY <1>1, CoreTypes
<1>3. sn \subseteq stalled[c]
  BY <1>1 DEF SimtInv, StallInv
<1>4. Len(code) \in Nat \ {0}
  BY CodeFacts
<1>5. \A w \in act : o[w][Len(code)] = "EXIT"
  BY <1>1, <1>2, LastExits DEF SimtInv
<1>6. CoreFine(act, sn, fetched[c], sfu[c], wb[c], barriers[c], th, o, Len(code))
  BY <1>1 DEF SimtInv, FineInv, FineCore
<1>7. Pick(c, act, stalled[c], sn, th)
  BY <1>1 DEF ScheduleOnly
<1>8. PICK sn2, fe2 : PickedOn(c, act, th, o, sn2, fe2)
  <2>1. PICK st : st = stalled[c]
    OBVIOUS
  <2>2. sn \subseteq st /\ Pick(c, act, st, sn, th)
    BY <1>3, <1>7, <2>1
  <2>3. act \subseteq Warps /\ sn \subseteq Warps /\ th \in [Warps -> ThreadRec(Len(code))]
    BY <1>2
  <2> QED BY <1>4, <1>5, <1>6, <2>2, <2>3, PickParts
<1>9. /\ UNCHANGED <<active, warp, launches, issued, code>> /\ DispatcherIdle(c) /\ wspawn' = wspawn
      /\ sfu' = sfu /\ wb' = wb /\ barriers' = barriers /\ thr' = thr
  BY DEF ScheduleOnly, barVars
<1>10. /\ DispatchInv' /\ RankInv' /\ CodeInv' /\ OpsOn(c)' = OpsOn(c)
       /\ \A d \in Cores \ {c} : disp'[d] = disp[d]
  BY <1>9, IdleParts
<1>11. UNCHANGED <<code, wspawn>> /\ active'[c] = act /\ OpsOn(c)' = o
  BY <1>1, <1>9, <1>10
<1>12. \A d \in Cores \ {c} : active'[d] = active[d] /\ warp'[d] = warp[d] /\ disp'[d] = disp[d]
  BY <1>9, <1>10
<1>13. WarpStepOn(c, act, sn2, sn2, fe2, sf, rs, bars, th, o)
  BY <1>1, <1>2, <1>8, <1>9, <1>10, <1>11, <1>12 DEF WarpStepOn, PickedOn
<1> QED BY <1>13, WarpMoves

LEMMA ActivatedType ==
    ASSUME NEW len \in Nat, NEW t \in ThreadRec(len), NEW r \in WarpType, code \in Seq(Instr),
           len = Len(code), len > 0
    PROVE  Activated(t, r) \in ThreadRec(len) /\ Activated(t, r).pc = 1
<1>1. PICK lanes, sp, ip : /\ lanes = 0 .. r.lanes - 1 /\ sp = [p \in DOMAIN code |-> 0] /\ ip = <<>>
  OBVIOUS
<1>2. lanes \in SUBSET Lanes
  <2>1. PICK n : n = r.lanes
    OBVIOUS
  <2>2. n \in 0 .. NumThreads
    BY <2>1 DEF WarpType
  <2> QED BY <1>1, <2>1, <2>2, DispatchAssumption DEF Lanes
<1>3. sp \in SpType
  <2>1. DOMAIN code \in SUBSET Nat
    BY LenProperties
  <2>2. sp \in [DOMAIN code -> Nat]
    BY <1>1
  <2> QED BY <2>1, <2>2 DEF SpType
<1>4. ip \in Seq(Entry(len))
  BY <1>1
<1>5. Activated(t, r) = [t EXCEPT !.pc = 1, !.tmask = lanes, !.ipdom = ip, !.sp = sp, !.turns = 0]
  BY <1>1 DEF Activated
<1>6. PICK u : u = [t EXCEPT !.pc = 1, !.tmask = lanes, !.turns = 0]
  OBVIOUS
<1>7. u \in ThreadRec(len) /\ u.pc = 1
  BY <1>2, <1>6 DEF ThreadRec
<1>8. Activated(t, r) = [u EXCEPT !.ipdom = ip, !.sp = sp]
  BY <1>5, <1>6 DEF ThreadRec
<1>9. [u EXCEPT !.ipdom = ip, !.sp = sp] \in ThreadRec(len)
  BY <1>3, <1>4, <1>7 DEF ThreadRec
<1> QED BY <1>7, <1>8, <1>9 DEF ThreadRec

LEMMA ScheduleStartInv ==
    ASSUME RegularApps, SimtInv, Launched, NEW c \in Cores, ScheduleStart(c)
    PROVE  SimtInv'
<1>1. StartWarp(c) /\ UNCHANGED <<code, sfu, wb, wspawn, barriers>>
  BY DEF ScheduleStart, barVars
<1>2. PICK w : StartedOn(c, w)
  BY <1>1, StartParts
<1>3. PICK act, sn, fe, sf, rs, bars, th, o, len, act2, o2, r :
        /\ act = active[c] /\ sn = stalled_next[c] /\ fe = fetched[c] /\ sf = sfu[c] /\ rs = wb[c]
        /\ bars = barriers[c] /\ th = thr[c] /\ o = OpsOn(c) /\ len = Len(code)
        /\ act2 = active'[c] /\ o2 = OpsOn(c)' /\ r = warp'[c][w]
  OBVIOUS
<1>4. /\ w \in Warps /\ w \notin act /\ act2 = act \cup {w}
      /\ DispatchInv' /\ RankInv' /\ CodeInv' /\ kmu'.kernel = kmu.kernel
      /\ \A v \in Warps \ {w} : o2[v] = o[v]
      /\ \A d \in Cores \ {c} : active'[d] = active[d] /\ warp'[d] = warp[d] /\ disp'[d] = disp[d]
  BY <1>2, <1>3 DEF StartedOn
<1>5. /\ act \subseteq Warps /\ sn \subseteq Warps /\ th \in [Warps -> ThreadRec(len)]
      /\ sf \in [Warps -> Seq(Nat)] /\ rs \in [Warps -> BOOLEAN] /\ bars \in [BarIds -> BarRec]
      /\ sfu = [sfu EXCEPT ![c] = sf] /\ wb = [wb EXCEPT ![c] = rs]
      /\ barriers = [barriers EXCEPT ![c] = bars]
  BY <1>3, CoreTypes
<1>6. len \in Nat \ {0} /\ code \in Seq(Instr)
  BY <1>3, CodeFacts
<1>7. r \in WarpType
  BY <1>3, <1>4 DEF DispatchInv
<1>8. PICK t, th2, sn1 : /\ t = Activated(th[w], r) /\ th2 = [th EXCEPT ![w] = t] /\ sn1 = sn \ {w}
  OBVIOUS
<1>9. t \in ThreadRec(len) /\ t.pc = 1
  <2>1. th[w] \in ThreadRec(len) /\ len > 0 /\ len = Len(code) /\ len \in Nat
    BY <1>3, <1>4, <1>5, <1>6
  <2> QED BY <1>6, <1>7, <1>8, <2>1, ActivatedType
<1>10. /\ th2 \in [Warps -> ThreadRec(len)] /\ th2[w] = t
       /\ \A v \in Warps \ {w} : th2[v] = th[v]
  BY <1>4, <1>5, <1>8, <1>9
<1>11. active'[c] \ active[c] = {w}
  BY <1>3, <1>4
<1>12. /\ thr' = [thr EXCEPT ![c] = th2]
       /\ Pick(c, act2, stalled[c] \ {w}, sn1, th2)
  <2>1. /\ thr' = [thr EXCEPT ![c] = [v \in Warps |-> IF v \in {w} THEN Activated(thr[c][v], warp'[c][v])
                                                     ELSE thr[c][v]]]
        /\ Pick(c, active'[c], stalled[c] \ {w}, stalled_next[c] \ {w},
                [v \in Warps |-> IF v \in {w} THEN Activated(thr[c][v], warp'[c][v]) ELSE thr[c][v]])
    BY <1>11 DEF ScheduleStart
  <2>2. [v \in Warps |-> IF v \in {w} THEN Activated(thr[c][v], warp'[c][v]) ELSE thr[c][v]] = th2
    BY <1>3, <1>4, <1>5, <1>8
  <2> QED BY <1>3, <1>8, <2>1, <2>2
<1>13. CoreFine(act2, sn1, fe, sf, rs, bars, th2, o2, len)
  <2>1. CoreFine(act, sn, fe, sf, rs, bars, th, o, len)
    BY <1>3 DEF SimtInv, FineInv, FineCore
  <2>2. Fine(w, act, sn, fe[w], sf[w], rs[w], WaitsAt(bars, w), th[w].pc, o[w], len)
    BY <1>4, <2>1 DEF CoreFine
  <2>3. fe[w] = 0 /\ sf[w] = <<>> /\ rs[w] = FALSE /\ WaitsAt(bars, w) = {}
    BY <1>4, <2>2 DEF Fine
  <2>4. Fine(w, act2, sn1, fe[w], sf[w], rs[w], WaitsAt(bars, w), th2[w].pc, o2[w], len)
    <3>1. PICK pc, ow : pc = th2[w].pc /\ ow = o2[w]
      OBVIOUS
    <3>2. pc \in 1 .. len /\ w \in act2 /\ w \notin sn1 /\ len \in Nat
      BY <1>4, <1>6, <1>8, <1>9, <1>10, <3>1
    <3>3. Fine(w, act2, sn1, 0, <<>>, FALSE, {}, pc, ow, len)
      BY <3>2, Parked
    <3> QED BY <2>3, <3>1, <3>3
  <2>5. \A v \in Warps \ {w} : /\ v \in act2 <=> v \in act
                               /\ v \in sn1 <=> v \in sn
                               /\ th2[v].pc = th[v].pc /\ o2[v] = o[v]
    BY <1>4, <1>8, <1>10
  <2> QED BY <2>1, <2>4, <2>5, OneWarpMoves
<1>14. PICK sn2, fe2 : PickedOn(c, act2, th2, o2, sn2, fe2)
  <2>1. PICK st : st = stalled[c] \ {w}
    OBVIOUS
  <2>2. sn1 \subseteq st /\ sn1 \subseteq Warps /\ act2 \subseteq Warps
    BY <1>3, <1>4, <1>5, <1>8, <2>1 DEF SimtInv, StallInv
  <2>3. \A v \in act2 : o2[v][Len(code)] = "EXIT"
    BY <1>1, <1>3, <1>4, <2>2, ExitsAfter
  <2>4. CoreFine(act2, sn1, fetched[c], sfu[c], wb[c], barriers[c], th2, o2, Len(code))
    BY <1>3, <1>13
  <2>5. th2 \in [Warps -> ThreadRec(Len(code))] /\ Len(code) \in Nat \ {0}
    BY <1>3, <1>6, <1>10
  <2>6. Pick(c, act2, st, sn1, th2)
    BY <1>12, <2>1
  <2> QED BY <2>2, <2>3, <2>4, <2>5, <2>6, PickParts
<1>15. active'[c] = act2 /\ OpsOn(c)' = o2 /\ UNCHANGED <<code, wspawn>>
  BY <1>1, <1>3
<1>16. /\ sfu' = [sfu EXCEPT ![c] = sf] /\ wb' = [wb EXCEPT ![c] = rs]
       /\ barriers' = [barriers EXCEPT ![c] = bars]
  BY <1>1, <1>5
<1>17. WarpStepOn(c, act2, sn2, sn2, fe2, sf, rs, bars, th2, o2)
  BY <1>3, <1>4, <1>5, <1>10, <1>12, <1>14, <1>15, <1>16 DEF WarpStepOn, PickedOn
<1> QED BY <1>17, WarpMoves

LEMMA ScheduleInv ==
    ASSUME RegularApps, SimtInv, NEW c \in Cores, Schedule(c)
    PROVE  SimtInv'
<1>1. Launched
  BY DEF Schedule, SimtInv, CodeInv
<1>2. ~ScheduleSpawn(c)
  BY DEF ScheduleSpawn, SpawnFires, SimtInv, SpawnInv
<1> QED BY <1>1, <1>2, ScheduleStartInv, ScheduleOnlyInv DEF Schedule
-----------------------------------------------------------------------------
(* Launches, and the whole.                                                *)

LEMMA NewThreadType == \A len \in Nat : NewThread \in ThreadRec(len)
<1> SUFFICES ASSUME NEW len \in Nat PROVE NewThread \in ThreadRec(len)
  OBVIOUS
<1>1. PICK e : e = <<>>
  OBVIOUS
<1>2. e \in Seq(Entry(len)) /\ e \in Seq(Nat) /\ Len(e) = 0
  BY <1>1, EmptySeq
<1>3. e \in SpType
  <2>1. e \in [1 .. Len(e) -> Nat]
    BY <1>2, LenProperties
  <2>2. 1 .. Len(e) \in SUBSET Nat
    BY <1>2
  <2> QED BY <2>1, <2>2 DEF SpType
<1>4. NewThread = [pc |-> 0, tmask |-> {}, ipdom |-> e, sp |-> e, phase |-> 0, turns |-> 0]
  BY <1>1 DEF NewThread
<1> QED BY <1>2, <1>3, <1>4 DEF ThreadRec

LEMMA NewBarrierType == NewBarrier \in BarRec /\ NewBarrier.wait_mask = {}
BY DEF NewBarrier, BarRec

(* The tables of a core that starts. *)
LEMMA FreshFine ==
    ASSUME NEW fe, NEW sf, NEW rs, NEW bars, NEW th, NEW o, NEW len, NEW sn,
           \A w \in Warps : fe[w] = 0 /\ sf[w] = <<>> /\ rs[w] = FALSE,
           \A b \in BarIds : bars[b] = NewBarrier
    PROVE  CoreFine({}, sn, fe, sf, rs, bars, th, o, len)
<1> SUFFICES ASSUME NEW w \in Warps
             PROVE  Fine(w, {}, sn, fe[w], sf[w], rs[w], WaitsAt(bars, w), th[w].pc, o[w], len)
  BY DEF CoreFine
<1>1. WaitsAt(bars, w) = {}
  BY NewBarrierType DEF WaitsAt
<1>2. Fine(w, {}, sn, 0, <<>>, FALSE, {}, th[w].pc, o[w], len)
  BY Gone
<1> QED BY <1>1, <1>2

LEMMA RunInv ==
    ASSUME RegularApps, SimtInv, NEW a \in Apps, Run(a)
    PROVE  SimtInv'
<1>1. Launch(a.kernel) /\ a.kernel \in Kernels /\ code' = a.code /\ kmu'.kernel = a.kernel
  BY SimtAssumption DEF Run, Launch, ResetKmu
<1>2. DispatchInv' /\ RankInv' /\ CodeInv'
  <2>1. DispatchInv'
    BY <1>1, LaunchInv DEF SimtInv
  <2>2. \A c \in Cores : active'[c] = {}
    BY <1>1 DEF Launch
  <2> QED BY <1>1, <2>1, <2>2 DEF RankInv, CodeInv, Launched
<1>3. Len(code') \in Nat
  BY <1>1, LenProperties DEF RegularApps, Regular
<1>4. ThrInv'
  BY <1>3, NewThreadType DEF Run, ResetCores, ThrInv
<1>5. StallInv' /\ PipeInv' /\ SpawnInv'
  BY DEF Run, ResetCores, StallInv, PipeInv, SpawnInv
<1>6. BarInv'
  BY NewBarrierType DEF Run, ResetCores, BarInv
<1>7. ASSUME NEW c \in Cores PROVE FineCore(c)'
  <2>1. /\ active'[c] = {} /\ \A b \in BarIds : barriers'[c][b] = NewBarrier
        /\ \A w \in Warps : fetched'[c][w] = 0 /\ sfu'[c][w] = <<>> /\ wb'[c][w] = FALSE
    BY <1>1 DEF Run, ResetCores, Launch
  <2>2. PICK sn, fe, sf, rs, bars, th, o, len :
          /\ sn = stalled_next'[c] /\ fe = fetched'[c] /\ sf = sfu'[c] /\ rs = wb'[c]
          /\ bars = barriers'[c] /\ th = thr'[c] /\ o = OpsOn(c)' /\ len = Len(code')
    OBVIOUS
  <2>3. CoreFine({}, sn, fe, sf, rs, bars, th, o, len)
    BY <2>1, <2>2, FreshFine
  <2> QED BY <2>1, <2>2, <2>3 DEF FineCore
<1>8. FineInv'
  BY <1>7 DEF FineInv
<1> QED BY <1>2, <1>4, <1>5, <1>6, <1>8 DEF SimtInv

LEMMA InitSimt == Init => SimtInv
<1> SUFFICES ASSUME Init PROVE SimtInv
  OBVIOUS
<1>1. DispatchInv
  BY InitInv DEF Init
<1>2. \A c \in Cores : active[c] = {} /\ ~disp[c].has_cta /\ ~disp[c].has_pending
  BY DEF Init, DispatchInit, ResetDispatcher
<1>3. RankInv
  BY <1>2 DEF RankInv
<1>4. CodeInv
  <2>1. Idle
    BY <1>2 DEF Idle, DispatcherRunning, Init, DispatchInit, ResetKmu
  <2>2. Quiet
    BY DEF Quiet, Init
  <2> QED BY <2>1, <2>2 DEF CodeInv, Init
<1>5. Len(code) \in Nat
  BY EmptySeq DEF Init
<1>6. ThrInv
  BY <1>5, NewThreadType DEF Init, ThrInv
<1>7. StallInv /\ PipeInv /\ SpawnInv
  BY DEF Init, StallInv, PipeInv, SpawnInv
<1>8. BarInv
  BY NewBarrierType DEF Init, BarInv
<1>9. ASSUME NEW c \in Cores PROVE FineCore(c)
  <2>1. /\ \A b \in BarIds : barriers[c][b] = NewBarrier
        /\ \A w \in Warps : fetched[c][w] = 0 /\ sfu[c][w] = <<>> /\ wb[c][w] = FALSE
    BY DEF Init
  <2>2. PICK sn, fe, sf, rs, bars, th, o, len :
          /\ sn = stalled_next[c] /\ fe = fetched[c] /\ sf = sfu[c] /\ rs = wb[c]
          /\ bars = barriers[c] /\ th = thr[c] /\ o = OpsOn(c) /\ len = Len(code)
    OBVIOUS
  <2>3. CoreFine({}, sn, fe, sf, rs, bars, th, o, len)
    BY <2>1, <2>2, FreshFine
  <2> QED BY <1>2, <2>2, <2>3 DEF FineCore
<1>10. FineInv
  BY <1>9 DEF FineInv
<1> QED BY <1>1, <1>3, <1>4, <1>6, <1>7, <1>8, <1>10 DEF SimtInv

LEMMA ExecuteInv ==
    ASSUME RegularApps, SimtInv, NEW c \in Cores, NEW w \in Warps, Execute(c, w)
    PROVE  SimtInv'
<1>1. ~Wspawn(c, w)
  <2> SUFFICES ASSUME Wspawn(c, w) PROVE FALSE
    OBVIOUS
  <2>1. sfu[c][w] # <<>> /\ I(c, w).op = "WSPAWN"
    BY DEF Wspawn, AtSfu, I
  <2> QED BY <2>1, SfuHead
<1> QED BY <1>1, TmcInv, SplitInv, JoinInv, PredInv, BarSyncInv, BarArriveInv, BarWaitInv,
           ExpectTxInv, IssueInv DEF Execute

LEMMA StutterInv ==
    ASSUME SimtInv, UNCHANGED vars
    PROVE  SimtInv'
<1>1. /\ UNCHANGED dispatchVars /\ code' = code /\ stalled' = stalled /\ stalled_next' = stalled_next
      /\ thr' = thr /\ fetched' = fetched /\ sfu' = sfu /\ wb' = wb /\ wspawn' = wspawn
      /\ barriers' = barriers /\ dxa' = dxa
  BY DEF vars, simtVars, coreVars, barVars
<1>2. /\ kmu' = kmu /\ disp' = disp /\ active' = active /\ warp' = warp
  BY <1>1 DEF dispatchVars
<1>3. DispatchInv'
  BY <1>1, NextInv DEF SimtInv
<1>4. ThrInv' /\ StallInv' /\ PipeInv' /\ BarInv' /\ SpawnInv'
  BY <1>1 DEF SimtInv, ThrInv, StallInv, PipeInv, BarInv, SpawnInv
<1>5. CodeInv' /\ RankInv'
  BY <1>1, <1>2 DEF SimtInv, CodeInv, Launched, Idle, DispatcherRunning, Quiet, RankInv
<1>6. FineInv'
  <2>1. \A d : OpsOn(d)' = OpsOn(d)
    BY <1>1, <1>2, OpsSame
  <2> QED BY <1>1, <1>2, <2>1 DEF SimtInv, FineInv, FineCore
<1> QED BY <1>3, <1>4, <1>5, <1>6 DEF SimtInv

LEMMA SimtInductive == RegularApps /\ SimtInv /\ [Next]_vars => SimtInv'
<1> SUFFICES ASSUME RegularApps, SimtInv, [Next]_vars PROVE SimtInv'
  OBVIOUS
<1>1. CASE UNCHANGED vars
  BY <1>1, StutterInv
<1>2. CASE \E a \in Apps : Run(a)
  BY <1>2, RunInv
<1>3. CASE \E c \in Cores : Schedule(c)
  BY <1>3, ScheduleInv
<1>4. CASE \E c \in Cores, w \in Warps : Decode(c, w) \/ Execute(c, w) \/ Commit(c, w)
  BY <1>4, DecodeInv, ExecuteInv, CommitInv
<1>5. CASE \E c \in Cores, id \in BarIds : TransferDone(c, id)
  BY <1>5, TransferInv
<1> QED BY <1>1, <1>2, <1>3, <1>4, <1>5 DEF Next

LEMMA SimtInvariant == ASSUME RegularApps PROVE Spec => []SimtInv
<1>1. SimtInv /\ [Next]_vars => SimtInv'
  BY SimtInductive
<1> QED BY <1>1, InitSimt, PTL DEF Spec
-----------------------------------------------------------------------------
(* One party in one of four sets, counted. *)
OneOf(D, S, C, B) ==
    \/ (\E x : D = {x}) /\ S = {} /\ C = {} /\ B = {}
    \/ D = {} /\ (\E x : S = {x}) /\ C = {} /\ B = {}
    \/ D = {} /\ S = {} /\ (\E x : C = {x}) /\ B = {}
    \/ D = {} /\ S = {} /\ C = {} /\ (\E x : B = {x})

LEMMA CountOne ==
    ASSUME NEW D, NEW S, NEW C, NEW B, OneOf(D, S, C, B)
    PROVE  Cardinality(D \cup S \cup C \cup B) = 1
<1>1. \E x : D \cup S \cup C \cup B = {x}
  BY DEF OneOf
<1> QED BY <1>1, FS_Singleton

(* Of the instructions in the SFU at most the last stalls the warp. *)
LEMMA StallsInSfu ==
    ASSUME NEW f, NEW q, NEW pc, NEW o, NEW len, Stream(f, q, pc, o, len), len \in Nat
    PROVE  {j \in DOMAIN q : StallsFetch(o[q[j]])} = IF InSfu(q, o) THEN {Len(q)} ELSE {}
<1>1. q \in Seq(1 .. len) /\ Len(q) \in Nat /\ DOMAIN q = 1 .. Len(q)
  BY LenProperties DEF Stream
<1>2. \A j \in 1 .. Len(q) - 1 : ~StallsFetch(o[q[j]])
  BY DEF Stream
<1>3. q # <<>> <=> Len(q) # 0
  BY <1>1, EmptySeq
<1>4. \A j \in DOMAIN q : StallsFetch(o[q[j]]) => j = Len(q)
  BY <1>1, <1>2
<1>5. CASE InSfu(q, o)
  <2>1. Len(q) \in DOMAIN q /\ StallsFetch(o[q[Len(q)]])
    BY <1>1, <1>3, <1>5 DEF InSfu
  <2> QED BY <1>4, <1>5, <2>1
<1>6. CASE ~InSfu(q, o)
  <2>1. \A j \in DOMAIN q : ~StallsFetch(o[q[j]])
    BY <1>1, <1>3, <1>4, <1>6 DEF InSfu
  <2> QED BY <1>6, <2>1
<1> QED BY <1>5, <1>6

LEMMA InvOneReleaser ==
    ASSUME RegularApps, SimtInv
    PROVE  OneReleaser
<1> SUFFICES ASSUME NEW c \in Cores, NEW w \in active[c]
             PROVE  Cardinality(Releasers(c, w)) = IF w \in stalled_next[c] THEN 1 ELSE 0
  BY DEF OneReleaser
<1>1. w \in Warps /\ Launched
  <2>1. active[c] \subseteq Warps
    BY CoreTypes
  <2> QED BY <2>1, ActiveLaunched DEF SimtInv
<1>2. PICK f, q, r, W, pc, o, len :
         /\ f = fetched[c][w] /\ q = sfu[c][w] /\ r = wb[c][w] /\ W = WaitsAt(barriers[c], w)
         /\ pc = thr[c][w].pc /\ o = OpsOn(c)[w] /\ len = Len(code)
  OBVIOUS
<1>3. len \in Nat
  BY <1>1, <1>2, CodeFacts
<1>4. /\ Stream(f, q, pc, o, len)
      /\ w \notin stalled_next[c] => NoOne(f, q, r, W, o)
      /\ w \in stalled_next[c] => Someone(f, q, r, W, o)
  <2>1. Fine(w, active[c], stalled_next[c], f, q, r, W, pc, o, len)
    BY <1>1, <1>2, FineWarp DEF SimtInv
  <2> QED BY <2>1 DEF Fine
<1>5. PICK D, S, C, B :
         /\ D = {<<"decode">> : x \in {1} \cap {IF fetched[c][w] # 0 THEN 1 ELSE 0}}
         /\ S = {<<"sfu", i>> : i \in {j \in DOMAIN sfu[c][w] :
                                          StallsFetch(Ins(c, w, sfu[c][w][j]).op)}}
         /\ C = {<<"commit">> : x \in {1} \cap {IF wb[c][w] THEN 1 ELSE 0}}
         /\ B = {<<"barrier", b>> : b \in {b \in BarIds : w \in barriers[c][b].wait_mask}}
  OBVIOUS
<1>6. Releasers(c, w) = D \cup S \cup C \cup B
  <2>1. {<<"wspawn">> : x \in {w} \cap {IF wspawn[c].valid THEN 0 ELSE NoSlot}} = {}
    <3>1. ~wspawn[c].valid
      BY DEF SimtInv, SpawnInv
    <3>2. w # NoSlot
      BY <1>1 DEF Warps, NoSlot
    <3> QED BY <3>1, <3>2
  <2> QED BY <1>5, <2>1 DEF Releasers
<1>7. (f = 0 => D = {}) /\ (f # 0 => \E x : D = {x})
  <2>1. CASE f = 0
    BY <1>2, <1>5, <2>1
  <2>2. CASE f # 0
    <3>1. D = {<<"decode">>}
      BY <1>2, <1>5, <2>2
    <3> QED BY <2>2, <3>1
  <2> QED BY <2>1, <2>2
<1>8. (r = FALSE => C = {}) /\ (r = TRUE => \E x : C = {x})
  <2>1. CASE r = FALSE
    BY <1>2, <1>5, <2>1
  <2>2. CASE r = TRUE
    <3>1. C = {<<"commit">>}
      BY <1>2, <1>5, <2>2
    <3> QED BY <2>2, <3>1
  <2> QED BY <2>1, <2>2
<1>9. (~InSfu(q, o) => S = {}) /\ (InSfu(q, o) => \E x : S = {x})
  <2>1. q \in Seq(1 .. len)
    BY <1>4 DEF Stream
  <2>2. \A j \in DOMAIN q : q[j] \in 1 .. len
    BY <2>1, ElementOfSeq, LenProperties
  <2>3. \A j \in DOMAIN q : Ins(c, w, q[j]).op = o[q[j]]
    BY <1>1, <1>2, <2>2, OpsAre
  <2>4. PICK J : J = {j \in DOMAIN q : StallsFetch(o[q[j]])}
    OBVIOUS
  <2>5. S = {<<"sfu", i>> : i \in J}
    BY <1>2, <1>5, <2>3, <2>4
  <2>6. J = IF InSfu(q, o) THEN {Len(q)} ELSE {}
    BY <1>3, <1>4, <2>4, StallsInSfu
  <2>7. CASE InSfu(q, o)
    <3>1. S = {<<"sfu", Len(q)>>}
      BY <2>5, <2>6, <2>7
    <3> QED BY <2>7, <3>1
  <2>8. CASE ~InSfu(q, o)
    BY <2>5, <2>6, <2>8
  <2> QED BY <2>7, <2>8
<1>10. (W = {} => B = {}) /\ ((\E b : W = {b}) => \E x : B = {x})
  <2>1. B = {<<"barrier", b>> : b \in W}
    BY <1>2, <1>5 DEF WaitsAt
  <2>2. ASSUME NEW b, W = {b} PROVE B = {<<"barrier", b>>}
    BY <2>1, <2>2
  <2> QED BY <2>1, <2>2
<1>11. CASE w \notin stalled_next[c]
  <2>1. D = {} /\ S = {} /\ C = {} /\ B = {}
    BY <1>4, <1>7, <1>8, <1>9, <1>10, <1>11 DEF NoOne
  <2>2. D \cup S \cup C \cup B = {}
    BY <2>1
  <2> QED BY <1>6, <1>11, <2>2, FS_EmptySet
<1>12. CASE w \in stalled_next[c]
  <2>1. OneOf(D, S, C, B)
    BY <1>4, <1>7, <1>8, <1>9, <1>10, <1>12 DEF Someone, OneOf
  <2>2. Cardinality(D \cup S \cup C \cup B) = 1
    BY <2>1, CountOne
  <2> QED BY <1>6, <1>12, <2>2
<1> QED BY <1>11, <1>12

(***************************************************************************)
(* Scheduler::suspend and resume assert that a warp is not suspended or    *)
(* resumed twice, and nothing else notices a wake-up that is lost.  For    *)
(* every number of cores, warps, threads and barriers, and every kernel    *)
(* that spawns no warps: an active warp that is stalled has exactly one    *)
(* party that will resume it (decode, its instruction in the SFU, commit   *)
(* or one barrier), and one that is not stalled has none.                  *)
(***************************************************************************)
THEOREM StalledHasOneReleaser == ASSUME RegularApps PROVE Spec => []OneReleaser
<1>1. SimtInv => OneReleaser
  BY InvOneReleaser
<1> QED BY <1>1, SimtInvariant, PTL
-----------------------------------------------------------------------------
(* A step of the cores is a step of the dispatchers, or none of theirs. *)
LEMMA MaskDispatches ==
    ASSUME NEW c \in Cores, NEW w \in Warps, NEW mask, SetTmask(c, w, mask)
    PROVE  [DispatchNext]_dispatchVars
BY DEF SetTmask, DispatchNext

LEMMA ExecuteDispatches ==
    ASSUME RegularApps, SimtInv, NEW c \in Cores, NEW w \in Warps, Execute(c, w)
    PROVE  [DispatchNext]_dispatchVars
<1>1. CASE Tmc(c, w)
  BY <1>1, MaskDispatches DEF Tmc
<1>2. CASE Split(c, w)
  BY <1>2, MaskDispatches DEF Split
<1>3. CASE Join(c, w)
  BY <1>3, MaskDispatches DEF Join
<1>4. CASE Pred(c, w)
  BY <1>4, MaskDispatches DEF Pred
<1>5. CASE \/ Wspawn(c, w) \/ BarSync(c, w) \/ BarArrive(c, w) \/ BarWait(c, w)
           \/ ExpectTx(c, w) \/ IssueTransfer(c, w)
  <2>1. UNCHANGED dispatchVars
    BY <1>5 DEF Wspawn, BarSync, BarArrive, BarWait, ExpectTx, IssueTransfer
  <2> QED BY <2>1
<1> QED BY <1>1, <1>2, <1>3, <1>4, <1>5 DEF Execute

LEMMA ScheduleDispatches ==
    ASSUME SimtInv, NEW c \in Cores, Schedule(c)
    PROVE  [DispatchNext]_dispatchVars
<1>1. Launched /\ ~ScheduleSpawn(c)
  BY DEF Schedule, SimtInv, CodeInv, ScheduleSpawn, SpawnFires, SpawnInv
<1>2. CASE ScheduleStart(c)
  BY <1>2 DEF ScheduleStart, DispatchNext, DispatchStep
<1>3. CASE ScheduleOnly(c)
  <2>1. DispatcherIdle(c) /\ UNCHANGED <<active, warp, launches, issued, code>>
    BY <1>3 DEF ScheduleOnly
  <2> QED BY <1>1, <2>1, IdleParts
<1> QED BY <1>1, <1>2, <1>3 DEF Schedule

LEMMA CoresDispatch == RegularApps /\ SimtInv /\ [Next]_vars => [DispatchNext]_dispatchVars
<1> SUFFICES ASSUME RegularApps, SimtInv, [Next]_vars PROVE [DispatchNext]_dispatchVars
  OBVIOUS
<1>1. CASE UNCHANGED vars
  BY <1>1 DEF vars
<1>2. ASSUME NEW a \in Apps, Run(a) PROVE [DispatchNext]_dispatchVars
  <2>1. a.kernel \in Kernels /\ Launch(a.kernel)
    BY <1>2, SimtAssumption DEF Run
  <2> QED BY <2>1 DEF DispatchNext
<1>3. CASE \E c \in Cores : Schedule(c)
  BY <1>3, ScheduleDispatches
<1>4. ASSUME NEW c \in Cores, NEW w \in Warps, Decode(c, w) \/ Execute(c, w) \/ Commit(c, w)
      PROVE  [DispatchNext]_dispatchVars
  <2>1. CASE Decode(c, w) \/ Commit(c, w)
    BY <2>1 DEF Decode, Commit
  <2> QED BY <1>4, <2>1, ExecuteDispatches
<1>5. ASSUME NEW c \in Cores, NEW id \in BarIds, TransferDone(c, id)
      PROVE  [DispatchNext]_dispatchVars
  BY <1>5 DEF TransferDone
<1> QED BY <1>1, <1>2, <1>3, <1>4, <1>5 DEF Next

(***************************************************************************)
(* The warps of running kernels are started and retired as CtaDispatch     *)
(* lets them: each step of the cores is a step of KMU and dispatchers or   *)
(* leaves them alone, although here a warp exits when its code says so.    *)
(***************************************************************************)
THEOREM CoresRunTheDispatchers == ASSUME RegularApps PROVE Spec => DispatchRuns
<1>1. SimtInv /\ [Next]_vars => [DispatchNext]_dispatchVars
  BY CoresDispatch
<1>2. Init => DispatchInit
  BY DEF Init
<1> QED BY <1>1, <1>2, SimtInvariant, PTL DEF Spec, DispatchRuns

(***************************************************************************)
(* While kernels run: slot_rem_warps_ of a slot is its running warps plus  *)
(* those to start, two resident CTAs share no local memory, every warp     *)
(* holds the threads of its rank, and each warp of each block is started   *)
(* exactly once.                                                           *)
(***************************************************************************)
THEOREM DispatchHoldsInCores ==
    ASSUME RegularApps
    PROVE  Spec => [](SlotAccounting /\ LmemDisjoint /\ WarpCoversItsThreads /\ EachWarpOnce)
BY CoresRunTheDispatchers, SlotsKept, MemoryKept, ThreadsKept, StartsKept, PTL
=============================================================================

------------------------------ MODULE SimtCore ------------------------------
(***************************************************************************)
(* What a warp does between its activation and its exit:                   *)
(*                                                                         *)
(*   sim/simx/scheduler.cpp     the pick of the next warp, the registered  *)
(*                              stall state, wspawn, setTmask;             *)
(*   sim/simx/core.cpp          decode and commit, which release warps;    *)
(*   sim/simx/wctl_unit.cpp     TMC, WSPAWN, SPLIT, JOIN, BAR, PRED;       *)
(*   sim/simx/barrier_unit.cpp  arrival, waiting, events, phases;          *)
(*   sim/simx/processor.cpp     the barrier across cores.                  *)
(*                                                                         *)
(* Every warp runs the code of the launch, a sequence of instructions      *)
(*                                                                         *)
(*   [op, bar, glob, n, to, who]                                           *)
(*        op    what it does; EXIT is the TMC that leaves no thread,       *)
(*        bar   its barrier, glob whether that is one across cores,        *)
(*        n     how many warps, cores or lanes it names,                   *)
(*        to    a target, or the SPLIT that a JOIN closes,                 *)
(*        who   the ranks that execute it: the kernel branches the others  *)
(*              around it.                                                 *)
(*                                                                         *)
(* The grid, the slots and the activation and exit of warps are those of   *)
(* CtaDispatch.  Instructions of the other functional units are NOPs here, *)
(* asynchronous traps and fragment waves are left out.                     *)
(***************************************************************************)
EXTENDS CtaDispatch, Sequences

CONSTANTS
    NumBarriers,    \* VX_CFG_NUM_BARRIERS: barriers of a CTA slot
    Apps,           \* launches: records [kernel, code]
    MaxIterations   \* bound on the turns of a predicated loop

ASSUME SimtAssumption ==
    /\ NumBarriers \in Nat \ {0}
    /\ Cores = 1 .. Cardinality(Cores)
    /\ Kernels = {a.kernel : a \in Apps}

VARIABLES
    code,           \* the kernel's instructions
    turn,           \* the core whose schedule() comes next: a tick serves all
    stalled,        \* stalled[c]: stalled_warps_, what the pick sees
    stalled_next,   \* stalled_warps_next_, what suspend and resume drive
    thr,            \* thr[c][w]: PC, thread mask, IPDOM stack, registers
    fetched,        \* fetched[c][w]: PC scheduled and not yet decoded, or 0
    sfu,            \* sfu[c][w]: PCs decoded, in order, for the SFU
    wb,             \* wb[c][w]: a result is on its way that resumes the warp
    wspawn,         \* wspawn[c]: the pending spawn
    barriers,       \* barriers[c][b]: warp_barrier_t, b = <<slot, number>>
    gbar,           \* gbar[b]: cores that arrived at a barrier across cores
    dxa,            \* dxa[c][b]: transfers under way that will release b
    arr, pas,       \* history: arrivals and passes of each warp, per barrier
    moved,          \* history: transfers completed for a barrier of a block
    ran,            \* history: how often each lane ran each instruction
    early           \* history: a core arrived at a barrier across cores with
                    \* warps still to start

coreVars == <<turn, stalled, stalled_next, thr, fetched, sfu, wb, wspawn>>
barVars == <<barriers, gbar, dxa>>
history == <<arr, pas, moved, ran, early>>
simtVars == <<code, coreVars, barVars, history>>
vars == <<dispatchVars, simtVars>>

Lanes == 0 .. NumThreads - 1
BarIds == Slots \X (0 .. NumBarriers - 1)

-----------------------------------------------------------------------------
NewBarrier == [wait_mask |-> {}, arrival_mask |-> {}, count |-> 0, events |-> 0, phase |-> 0]

NewThread == [pc |-> 0, tmask |-> {}, ipdom |-> <<>>, sp |-> <<>>, phase |-> 0, turns |-> 0]

WarpKeys(k) == Blocks(k) \X Ranks(k)

Key(c, w) == <<warp[c][w].block_idx, warp[c][w].cta_rank>>

NoHistory(k, len) ==
    /\ arr' = [x \in WarpKeys(k) |-> [b \in 0 .. NumBarriers - 1 |-> 0]]
    /\ pas' = arr'
    /\ moved' = [x \in Blocks(k) |-> [b \in 0 .. NumBarriers - 1 |-> 0]]
    /\ ran' = [x \in WarpKeys(k) |-> [p \in 1 .. len |-> [t \in Lanes |-> 0]]]
    /\ early' = FALSE

ResetCores ==
    /\ turn' = 1
    /\ stalled' = [c \in Cores |-> {}]
    /\ stalled_next' = [c \in Cores |-> {}]
    /\ thr' = [c \in Cores |-> [w \in Warps |-> NewThread]]
    /\ fetched' = [c \in Cores |-> [w \in Warps |-> 0]]
    /\ sfu' = [c \in Cores |-> [w \in Warps |-> <<>>]]
    /\ wb' = [c \in Cores |-> [w \in Warps |-> FALSE]]
    /\ wspawn' = [c \in Cores |-> [valid |-> FALSE, num_warps |-> 0, nextPC |-> 0]]
    /\ barriers' = [c \in Cores |-> [b \in BarIds |-> NewBarrier]]
    /\ gbar' = [b \in BarIds |-> {}]
    /\ dxa' = [c \in Cores |-> [b \in BarIds |-> 0]]

Init ==
    /\ DispatchInit
    /\ code = <<>>
    /\ turn = 1
    /\ stalled = [c \in Cores |-> {}]
    /\ stalled_next = [c \in Cores |-> {}]
    /\ thr = [c \in Cores |-> [w \in Warps |-> NewThread]]
    /\ fetched = [c \in Cores |-> [w \in Warps |-> 0]]
    /\ sfu = [c \in Cores |-> [w \in Warps |-> <<>>]]
    /\ wb = [c \in Cores |-> [w \in Warps |-> FALSE]]
    /\ wspawn = [c \in Cores |-> [valid |-> FALSE, num_warps |-> 0, nextPC |-> 0]]
    /\ barriers = [c \in Cores |-> [b \in BarIds |-> NewBarrier]]
    /\ gbar = [b \in BarIds |-> {}]
    /\ dxa = [c \in Cores |-> [b \in BarIds |-> 0]]
    /\ arr = <<>> /\ pas = <<>> /\ moved = <<>> /\ ran = <<>> /\ early = FALSE

(* ProcessorImpl::run waits for the transfers too (channels in flight). *)
Quiet ==
    \A c \in Cores : /\ \A b \in BarIds : dxa[c][b] = 0
                     /\ \A w \in Warps : sfu[c][w] = <<>> /\ ~wb[c][w]

Run(a) ==
    /\ Quiet /\ Launch(a.kernel)
    /\ code' = a.code
    /\ ResetCores
    /\ NoHistory(a.kernel, Len(a.code))

-----------------------------------------------------------------------------
(* Scheduler::schedule *)

(* activate_warp: the new warp starts the code with the lanes it was given.*)
Activated(t, r) == [t EXCEPT !.pc = 1, !.tmask = 0 .. r.lanes - 1, !.ipdom = <<>>,
                             !.sp = [p \in DOMAIN code |-> 0], !.turns = 0]

(* The pick is by the registered stall state; suspend drives the next one. *)
Ready(act, stall) == act \ stall

Picked(act, stall) ==
    CHOOSE w \in Ready(act, stall) : \A v \in Ready(act, stall) : w <= v

Pick(c, act, stall, next, th) ==
    IF Ready(act, stall) = {}
    THEN /\ stalled' = [stalled EXCEPT ![c] = next]
         /\ stalled_next' = [stalled_next EXCEPT ![c] = next]
         /\ UNCHANGED <<fetched, ran>>
    ELSE LET w == Picked(act, stall)
         IN  /\ stalled' = [stalled EXCEPT ![c] = next \cup {w}]
             /\ stalled_next' = [stalled_next EXCEPT ![c] = next \cup {w}]
             /\ fetched' = [fetched EXCEPT ![c][w] = th[w].pc]
             /\ ran' = IF disp'[c].wid_to_slot[w] = NoSlot THEN ran
                       ELSE [ran EXCEPT
                               ![<<warp'[c][w].block_idx, warp'[c][w].cta_rank>>][th[w].pc] =
                                   [t \in Lanes |-> @[t] + IF t \in th[w].tmask THEN 1 ELSE 0]]

(* A new warp is activated, its stall bits cleared, now and next. *)
ScheduleStart(c) ==
    /\ StartWarp(c)
    /\ LET new == active'[c] \ active[c]
           th == [w \in Warps |-> IF w \in new THEN Activated(thr[c][w], warp'[c][w])
                                  ELSE thr[c][w]]
       IN  /\ thr' = [thr EXCEPT ![c] = th]
           /\ Pick(c, active'[c], stalled[c] \ new, stalled_next[c] \ new, th)
    /\ UNCHANGED <<code, sfu, wb, wspawn, barVars, arr, pas, moved, early>>

(* The dispatcher starts nothing: no CTA, no slot or no warp is free. *)
DispatcherIdle(c) ==
    \/ StepBlocked(c)
    \/ StepNoWarp(c)
    \/ ~HasWork(c) /\ UNCHANGED <<kmu, disp>>

SpawnFires(c) == wspawn[c].valid /\ Cardinality(active[c]) = 1

ScheduleOnly(c) ==
    /\ ~SpawnFires(c)
    /\ DispatcherIdle(c) /\ UNCHANGED <<active, warp, launches, issued>>
    /\ Pick(c, active[c], stalled[c], stalled_next[c], thr[c])
    /\ UNCHANGED <<code, thr, sfu, wb, wspawn, barVars, arr, pas, moved, early>>

(* The pending wspawn starts warps 1 .. n-1 once one warp is left, and     *)
(* resumes warp 0.                                                         *)
ScheduleSpawn(c) ==
    /\ SpawnFires(c)
    /\ DispatcherIdle(c) /\ UNCHANGED <<warp, launches, issued>>
    /\ LET new == 1 .. wspawn[c].num_warps - 1
           th == [w \in Warps |->
                     IF w \in new THEN [thr[c][w] EXCEPT !.pc = wspawn[c].nextPC,
                                                         !.tmask = @ \cup {0}]
                     ELSE thr[c][w]]
       IN  /\ thr' = [thr EXCEPT ![c] = th]
           /\ active' = [active EXCEPT ![c] = @ \cup new]
           /\ Pick(c, active[c] \cup new, stalled[c] \ new, stalled_next[c] \ (new \cup {0}), th)
    /\ wspawn' = [wspawn EXCEPT ![c].valid = FALSE]
    /\ UNCHANGED <<code, sfu, wb, barVars, arr, pas, moved, early>>

(* SimPlatform::tick serves the cores in order, until run() has returned.  *)
Schedule(c) ==
    /\ turn = c /\ ~(Idle /\ Quiet)
    /\ turn' = IF c + 1 \in Cores THEN c + 1 ELSE 1
    /\ ScheduleStart(c) \/ ScheduleOnly(c) \/ ScheduleSpawn(c)

-----------------------------------------------------------------------------
(* CoreImpl::decode: the PC moves on; an instruction that does not stall   *)
(* the fetch releases its warp here.                                       *)

Ins(c, w, p) ==
    IF disp[c].wid_to_slot[w] = NoSlot \/ warp[c][w].cta_rank \in code[p].who
    THEN code[p] ELSE [code[p] EXCEPT !.op = "NOP"]

StallsFetch(op) == op \notin {"NOP", "ARRIVE", "TX"}

Decode(c, w) ==
    /\ fetched[c][w] # 0
    /\ LET p == fetched[c][w]
           op == Ins(c, w, p).op
       IN  /\ sfu' = [sfu EXCEPT ![c][w] = IF op = "NOP" THEN @ ELSE Append(@, p)]
           /\ stalled_next' = [stalled_next EXCEPT ![c] = IF StallsFetch(op) THEN @ ELSE @ \ {w}]
    /\ thr' = [thr EXCEPT ![c][w].pc = @ + 1]
    /\ fetched' = [fetched EXCEPT ![c][w] = 0]
    /\ UNCHANGED <<dispatchVars, code, turn, stalled, wb, wspawn, barVars, history>>

(* CoreImpl::commit: the result leaves the unit, the warp is resumed. *)
Commit(c, w) ==
    /\ wb[c][w]
    /\ wb' = [wb EXCEPT ![c][w] = FALSE]
    /\ stalled_next' = [stalled_next EXCEPT ![c] = @ \ {w}]
    /\ UNCHANGED <<dispatchVars, code, turn, stalled, thr, fetched, sfu, wspawn, barVars, history>>

-----------------------------------------------------------------------------
(* WctlUnit::process on the oldest instruction of the warp in the SFU.     *)
(* A warp that is not to be resumed at commit stays stalled until someone  *)
(* else resumes it.                                                        *)

AtSfu(c, w, op) ==
    sfu[c][w] # <<>> /\ Ins(c, w, Head(sfu[c][w])).op = op

I(c, w) == Ins(c, w, Head(sfu[c][w]))

Leaves(c, w, release) ==
    /\ sfu' = [sfu EXCEPT ![c][w] = Tail(@)]
    /\ wb' = [wb EXCEPT ![c][w] = @ \/ release]

(* Mutant: the exit of the last thread does not retire the warp. *)
SetTmaskKeepsWarp(c, w, mask) ==
    /\ UNCHANGED dispatchVars
    /\ Leaves(c, w, mask # {})

(* Core::setTmask: a warp without threads is retired and not released. *)
SetTmask(c, w, mask) ==
    /\ IF mask = {} THEN RetireWarp(c, w) ELSE UNCHANGED dispatchVars
    /\ Leaves(c, w, mask # {})

(* TMC: the mask of the register, here of the first n lanes; EXIT has none.*)
TmcMask(i) == IF i.op = "EXIT" THEN {} ELSE {t \in Lanes : t < i.n}

Tmc(c, w) ==
    /\ AtSfu(c, w, "EXIT") \/ AtSfu(c, w, "TMC")
    /\ SetTmask(c, w, TmcMask(I(c, w)))
    /\ thr' = [thr EXCEPT ![c][w].tmask = TmcMask(I(c, w))]
    /\ UNCHANGED <<code, turn, stalled, stalled_next, fetched, wspawn, barVars, history>>

Wspawn(c, w) ==
    /\ AtSfu(c, w, "WSPAWN")
    /\ LET n == IF I(c, w).n > NumWarps THEN NumWarps ELSE I(c, w).n
           nothing == n < 2 /\ Cardinality(active[c]) = 1
       IN  /\ wspawn' = IF nothing THEN wspawn
                        ELSE [wspawn EXCEPT ![c] = [valid |-> TRUE, num_warps |-> n,
                                                    nextPC |-> I(c, w).to]]
           /\ Leaves(c, w, nothing)
    /\ UNCHANGED <<dispatchVars, code, turn, stalled, stalled_next, thr, fetched, barVars, history>>

(* SPLIT: the smaller side runs first; the register gets the stack size    *)
(* before the push.  The IPDOM stack has NumThreads - 1 entries.           *)
SmallerSide(then, else) ==
    IF Cardinality(then) <= Cardinality(else) THEN then ELSE else

Split(c, w) ==
    /\ AtSfu(c, w, "SPLIT")
    /\ \E then \in SUBSET thr[c][w].tmask :
          LET t == thr[c][w]
              else == t.tmask \ then
              p == Head(sfu[c][w])
              divergent == then # {} /\ else # {}
              entry == [orig_tmask |-> t.tmask, else_PC |-> p + 1, fallthrough |-> FALSE]
          IN  IF divergent
              THEN /\ thr' = [thr EXCEPT ![c][w].sp[p] = Len(t.ipdom),
                                         ![c][w].ipdom = Append(@, entry),
                                         ![c][w].tmask = SmallerSide(then, else)]
                   /\ SetTmask(c, w, SmallerSide(then, else))
              ELSE /\ thr' = [thr EXCEPT ![c][w].sp[p] = Len(t.ipdom)]
                   /\ SetTmask(c, w, t.tmask)
    /\ UNCHANGED <<code, turn, stalled, stalled_next, fetched, wspawn, barVars, history>>

(* Mutant: the other side runs with all threads of before the SPLIT. *)
JoinedWhole(t, sp) ==
    LET top == t.ipdom[Len(t.ipdom)]
    IN  IF sp = Len(t.ipdom) THEN t
        ELSE IF top.fallthrough
        THEN [t EXCEPT !.tmask = top.orig_tmask,
                       !.ipdom = SubSeq(@, 1, Len(@) - 1)]
        ELSE [t EXCEPT !.tmask = top.orig_tmask,
                       !.pc = top.else_PC,
                       !.ipdom[Len(t.ipdom)].fallthrough = TRUE]

(* JOIN: nothing to do if its SPLIT did not diverge; else run the other    *)
(* side, or, after that, go on with the mask of before the SPLIT.          *)
Joined(t, sp) ==
    LET top == t.ipdom[Len(t.ipdom)]
    IN  IF sp = Len(t.ipdom) THEN t
        ELSE IF top.fallthrough
        THEN [t EXCEPT !.tmask = top.orig_tmask,
                       !.ipdom = SubSeq(@, 1, Len(@) - 1)]
        ELSE [t EXCEPT !.tmask = top.orig_tmask \ @,
                       !.pc = top.else_PC,
                       !.ipdom[Len(t.ipdom)].fallthrough = TRUE]

(* A JOIN that finds its SPLIT diverged and the stack empty aborts. *)
Joinable(t, sp) == sp = Len(t.ipdom) \/ t.ipdom # <<>>

Join(c, w) ==
    /\ AtSfu(c, w, "JOIN")
    /\ Joinable(thr[c][w], thr[c][w].sp[I(c, w).to])
    /\ LET t == Joined(thr[c][w], thr[c][w].sp[I(c, w).to])
       IN  /\ thr' = [thr EXCEPT ![c][w] = t]
           /\ SetTmask(c, w, t.tmask)
    /\ UNCHANGED <<code, turn, stalled, stalled_next, fetched, wspawn, barVars, history>>

(* PRED at the end of a loop: the lanes that go on keep the warp in the    *)
(* loop; when none does, the mask of before the loop comes back.           *)
Pred(c, w) ==
    /\ AtSfu(c, w, "PRED")
    /\ \E pred \in SUBSET thr[c][w].tmask :
          /\ pred # {} => thr[c][w].turns < MaxIterations
          /\ LET back == 0 .. warp[c][w].lanes - 1
             IN  IF pred # {}
                 THEN /\ thr' = [thr EXCEPT ![c][w].tmask = pred,
                                            ![c][w].pc = I(c, w).to,
                                            ![c][w].turns = @ + 1]
                      /\ SetTmask(c, w, pred)
                 ELSE /\ thr' = [thr EXCEPT ![c][w].tmask = back]
                      /\ SetTmask(c, w, back)
    /\ UNCHANGED <<code, turn, stalled, stalled_next, fetched, wspawn, barVars, history>>

-----------------------------------------------------------------------------
(* BarrierUnit.  A CTA's barrier number n is entry <<slot of the CTA, n>>; *)
(* a barrier across cores carries no slot and uses entry <<0, n>>.         *)

Bar(c, w) == <<IF I(c, w).glob THEN 0 ELSE warp[c][w].cta_id, I(c, w).bar>>

(* The warps a completed phase resumes have passed the barrier. *)
Passes(c, ws, n) ==
    [x \in DOMAIN pas |->
        IF \E w \in ws : Key(c, w) = x THEN [pas[x] EXCEPT ![n] = @ + 1] ELSE pas[x]]

ArrivalCounted(c, w) == [arr EXCEPT ![Key(c, w)][I(c, w).bar] = @ + 1]

(* Mutant: the waiters stay in the mask of the barrier. *)
PhaseDoneKeepsWaiters(b) == [b EXCEPT !.phase = @ + 1]

PhaseDone(b) == [b EXCEPT !.wait_mask = {}, !.phase = @ + 1]

(* Mutant: the last arrival does not look at outstanding transfers. *)
LocalArriveNoEvents(c, w, sync) ==
    LET id == Bar(c, w)
        n == warp[c][w].cta_size
        b == [barriers[c][id] EXCEPT !.wait_mask = IF sync THEN @ \cup {w} ELSE @]
        done == b.count + 1 = n
        wakes == IF done THEN b.wait_mask ELSE {}
        after == IF done THEN PhaseDone(b) ELSE b
    IN  /\ barriers' = [barriers EXCEPT ![c][id] =
                           [after EXCEPT !.count = (b.count + 1) % n]]
        /\ stalled_next' = [stalled_next EXCEPT ![c] = @ \ wakes]
        /\ pas' = Passes(c, wakes, id[2])
        /\ arr' = ArrivalCounted(c, w)
        /\ UNCHANGED <<gbar, early>>

(* arrive on a barrier of the core: the last arrival resumes the waiters   *)
(* if no transfer is outstanding.                                          *)
LocalArrive(c, w, sync) ==
    LET id == Bar(c, w)
        n == warp[c][w].cta_size
        b == [barriers[c][id] EXCEPT !.wait_mask = IF sync THEN @ \cup {w} ELSE @]
        done == b.count + 1 = n /\ b.events = 0
        wakes == IF done THEN b.wait_mask ELSE {}
        after == IF done THEN PhaseDone(b) ELSE b
    IN  /\ barriers' = [barriers EXCEPT ![c][id] =
                           [after EXCEPT !.count = (b.count + 1) % n]]
        /\ stalled_next' = [stalled_next EXCEPT ![c] = @ \ wakes]
        /\ pas' = Passes(c, wakes, id[2])
        /\ arr' = ArrivalCounted(c, w)
        /\ UNCHANGED <<gbar, early>>

(***************************************************************************)
(* A barrier across cores: a core arrives once as many of its warps have   *)
(* as are active now (warps it starts later are not waited for), and       *)
(* ProcessorImpl resumes the cores when the number the barrier names have. *)
(***************************************************************************)
CoreArrives(b, c) == Cardinality(b.arrival_mask) = Cardinality(active[c]) /\ b.events = 0

(* The barrier's entry on core c becomes own, and the core arrives if it can. *)
CoreArrival(c, id, own) ==
    LET arrives == CoreArrives(own, c)
        here == IF arrives THEN gbar[id] \cup {c} ELSE gbar[id]
        done == arrives /\ Cardinality(here) = own.count
        left == IF arrives THEN [own EXCEPT !.arrival_mask = {}, !.count = 0] ELSE own
        at(d) == IF d = c THEN left ELSE barriers[d][id]
        woken == IF done THEN here ELSE {}
    IN  /\ gbar' = [gbar EXCEPT ![id] = IF done THEN {} ELSE here]
        /\ barriers' = [d \in Cores |-> [barriers[d] EXCEPT ![id] =
                           IF d \in woken THEN PhaseDone(at(d)) ELSE at(d)]]
        /\ stalled_next' = [d \in Cores |->
             IF d \in woken THEN stalled_next[d] \ at(d).wait_mask ELSE stalled_next[d]]
        /\ pas' = [x \in DOMAIN pas |->
             IF \E d \in woken : \E v \in at(d).wait_mask : Key(d, v) = x
             THEN [pas[x] EXCEPT ![id[2]] = @ + 1] ELSE pas[x]]
        /\ early' = (early \/ (arrives /\ DispatcherRunning(c)))

GlobalArrive(c, w, sync) ==
    /\ CoreArrival(c, Bar(c, w),
                   [barriers[c][Bar(c, w)] EXCEPT
                       !.count = I(c, w).n,
                       !.arrival_mask = @ \cup {w},
                       !.wait_mask = IF sync THEN @ \cup {w} ELSE @])
    /\ arr' = ArrivalCounted(c, w)

(* BarrierUnit::arrive *)
Arrive(c, w, sync) ==
    \/ ~I(c, w).glob /\ LocalArrive(c, w, sync)
    \/ I(c, w).glob /\ GlobalArrive(c, w, sync)

(* BAR, synchronous: the warp waits in the barrier, not for its commit. *)
BarSync(c, w) ==
    /\ AtSfu(c, w, "SYNC")
    /\ Arrive(c, w, TRUE)
    /\ Leaves(c, w, FALSE)
    /\ UNCHANGED <<dispatchVars, code, turn, stalled, thr, fetched, wspawn, dxa, moved, ran>>

(* BAR.ARRIVE: the register gets the phase's low bit, sampled before; the  *)
(* warp was released at decode.                                            *)
ReadPhase(b) == b.phase % 2

BarArrive(c, w) ==
    /\ AtSfu(c, w, "ARRIVE")
    /\ thr' = [thr EXCEPT ![c][w].phase = ReadPhase(barriers[c][Bar(c, w)])]
    /\ Arrive(c, w, FALSE)
    /\ Leaves(c, w, FALSE)
    /\ UNCHANGED <<dispatchVars, code, turn, stalled, fetched, wspawn, dxa, moved, ran>>

(* BAR.WAIT: blocks while the barrier is in the phase the register names.  *)
MustWait(b, phase) == b.phase = phase

BarWait(c, w) ==
    /\ AtSfu(c, w, "WAIT")
    /\ LET id == Bar(c, w)
           waits == MustWait(barriers[c][id], thr[c][w].phase)
       IN  /\ barriers' = IF waits THEN [barriers EXCEPT ![c][id].wait_mask = @ \cup {w}]
                          ELSE barriers
           /\ pas' = IF waits THEN pas ELSE Passes(c, {w}, id[2])
           /\ Leaves(c, w, ~waits)
    /\ UNCHANGED <<dispatchVars, code, turn, stalled, stalled_next, thr, fetched, wspawn,
                   gbar, dxa, arr, moved, ran, early>>

(* expect_tx registers an event; the transfer it announces is issued next. *)
ExpectTx(c, w) ==
    /\ AtSfu(c, w, "TX")
    /\ barriers' = [barriers EXCEPT ![c][Bar(c, w)].events = @ + 1]
    /\ Leaves(c, w, FALSE)
    /\ UNCHANGED <<dispatchVars, code, turn, stalled, stalled_next, thr, fetched, wspawn,
                   gbar, dxa, history>>

IssueTransfer(c, w) ==
    /\ AtSfu(c, w, "DXA")
    /\ dxa' = [dxa EXCEPT ![c][Bar(c, w)] = @ + 1]
    /\ Leaves(c, w, TRUE)
    /\ UNCHANGED <<dispatchVars, code, turn, stalled, stalled_next, thr, fetched, wspawn,
                   barriers, gbar, history>>

(* Mutant: the last transfer leaves the waiters to the next arrival. *)
EventReleaseNoWake(c, id, is_global) ==
    /\ barriers' = [barriers EXCEPT ![c][id].events = @ - 1]
    /\ UNCHANGED <<stalled_next, pas, gbar, early>>

(* event_release *)
EventRelease(c, id, is_global) ==
    LET b == [barriers[c][id] EXCEPT !.events = @ - 1]
        done == b.events = 0 /\ b.count = 0
        wakes == IF done THEN b.wait_mask ELSE {}
    IN  IF is_global THEN CoreArrival(c, id, b)
        ELSE /\ barriers' = [barriers EXCEPT ![c][id] = IF done THEN PhaseDone(b) ELSE b]
             /\ stalled_next' = [stalled_next EXCEPT ![c] = @ \ wakes]
             /\ pas' = Passes(c, wakes, id[2])
             /\ UNCHANGED <<gbar, early>>

(* A transfer carries bits 0 to 26 of its barrier's id: not bit 31, which  *)
(* says that the barrier is one across cores.                              *)
TransferIsGlobal == FALSE

(* The transfer's last packet reaches local memory. *)
TransferDone(c, id) ==
    /\ dxa[c][id] > 0
    /\ dxa' = [dxa EXCEPT ![c][id] = @ - 1]
    /\ EventRelease(c, id, TransferIsGlobal)
    /\ LET owner == CHOOSE w \in Warps : disp[c].wid_to_slot[w] = id[1]
       IN  moved' = [moved EXCEPT ![warp[c][owner].block_idx][id[2]] = @ + 1]
    /\ UNCHANGED <<dispatchVars, code, turn, stalled, thr, fetched, sfu, wb, wspawn, arr, ran>>

Execute(c, w) ==
    \/ Tmc(c, w) \/ Wspawn(c, w) \/ Split(c, w) \/ Join(c, w) \/ Pred(c, w)
    \/ BarSync(c, w) \/ BarArrive(c, w) \/ BarWait(c, w)
    \/ ExpectTx(c, w) \/ IssueTransfer(c, w)

Next ==
    \/ \E a \in Apps : Run(a)
    \/ \E c \in Cores : Schedule(c)
    \/ \E c \in Cores, w \in Warps : Decode(c, w) \/ Execute(c, w) \/ Commit(c, w)
    \/ \E c \in Cores, id \in BarIds : TransferDone(c, id)

(* Every stage of every core advances; a transfer completes. *)
Fairness ==
    \A c \in Cores :
        /\ WF_vars(Schedule(c))
        /\ \A w \in Warps : WF_vars(Decode(c, w) \/ Execute(c, w) \/ Commit(c, w))
        /\ \A id \in BarIds : WF_vars(TransferDone(c, id))

Spec == Init /\ [][Next]_vars /\ Fairness
-----------------------------------------------------------------------------
(* Properties. *)

(***************************************************************************)
(* Types; the IPDOM stack never needs more than its NumThreads - 1 entries *)
(* (the abort in SPLIT), and a scheduled warp has a thread (the assert in  *)
(* schedule).                                                              *)
(***************************************************************************)
BarrierType == [wait_mask : SUBSET Warps, arrival_mask : SUBSET Warps, count : Nat,
                events : Nat, phase : Nat]

TypeOK ==
    /\ DispatchTypeOK
    /\ stalled \in [Cores -> SUBSET Warps] /\ stalled_next \in [Cores -> SUBSET Warps]
    /\ fetched \in [Cores -> [Warps -> 0 .. Len(code)]]
    /\ wb \in [Cores -> [Warps -> BOOLEAN]]
    /\ barriers \in [Cores -> [BarIds -> BarrierType]]
    /\ gbar \in [BarIds -> SUBSET Cores]
    /\ \A c \in Cores, w \in Warps :
          /\ thr[c][w].tmask \subseteq Lanes
          /\ Len(thr[c][w].ipdom) <= NumThreads - 1
          /\ Len(sfu[c][w]) <= 2
          /\ w \in active[c] => thr[c][w].tmask # {}

(***************************************************************************)
(* A stalled warp has exactly one party that will resume it - decode, the  *)
(* SFU, commit, one barrier or the pending wspawn - and a warp that is not *)
(* stalled has none.  This is what the asserts of suspend and resume rely  *)
(* on: no lost wake-up, no warp scheduled twice.                           *)
(***************************************************************************)
Releasers(c, w) ==
    {<<"decode">> : x \in {1} \cap {IF fetched[c][w] # 0 THEN 1 ELSE 0}}
      \cup {<<"sfu", i>> : i \in {j \in DOMAIN sfu[c][w] :
                                     StallsFetch(Ins(c, w, sfu[c][w][j]).op)}}
      \cup {<<"commit">> : x \in {1} \cap {IF wb[c][w] THEN 1 ELSE 0}}
      \cup {<<"barrier", b>> : b \in {b \in BarIds : w \in barriers[c][b].wait_mask}}
      \cup {<<"wspawn">> : x \in {w} \cap {IF wspawn[c].valid THEN 0 ELSE NoSlot}}

OneReleaser ==
    \A c \in Cores : \A w \in active[c] :
        Cardinality(Releasers(c, w)) = IF w \in stalled_next[c] THEN 1 ELSE 0

(***************************************************************************)
(* vx_barrier.h, "Blocks until generation > phase": nobody passes a        *)
(* barrier for the n-th time before every warp it counts has arrived n     *)
(* times, and, where transfers are announced on it, n of them are done.    *)
(* A barrier across cores counts the warps of all cores, but arrive waits  *)
(* for the active ones only: the exception is a core that arrived while    *)
(* its dispatcher still had warps to start.                                *)
(***************************************************************************)
Uses(op, n) == \E p \in DOMAIN code : code[p].op = op /\ code[p].bar = n

AcrossCores(n) == \E p \in DOMAIN code : code[p].glob /\ code[p].bar = n

NoEarlyPass ==
    \A x, y \in DOMAIN pas : \A n \in 0 .. NumBarriers - 1 :
        /\ (IF AcrossCores(n) THEN ~early ELSE x[1] = y[1]) => pas[x][n] <= arr[y][n]
        /\ Uses("TX", n) => pas[x][n] <= moved[x[1]][n]

(***************************************************************************)
(* Whatever way the threads diverge, each runs every instruction outside   *)
(* of loops exactly once: SPLIT and JOIN lose no thread, run none twice,   *)
(* and bring all of them back together.  After a TMC it is the lanes that  *)
(* the TMC names that do.                                                  *)
(***************************************************************************)
InLoop(p) == \E q \in DOMAIN code : code[q].op = "PRED" /\ code[q].to <= p /\ p <= q

Masked(p) == {q \in 1 .. p - 1 : code[q].op = "TMC"}

Enabled(x, p) ==
    {t \in Lanes :
        t < IF Masked(p) = {} THEN BlockSize(kmu.kernel) - x[2] * NumThreads
            ELSE code[CHOOSE q \in Masked(p) : \A r \in Masked(p) : r <= q].n}

ThreadsRunOnce ==
    \A x \in DOMAIN ran : \A p \in DOMAIN code : ~InLoop(p) =>
        \A t \in Lanes :
            /\ ran[x][p][t] <= 1
            /\ Idle /\ ~(\E q \in DOMAIN code : code[q].op = "WSPAWN") =>
                  ran[x][p][t] = IF t \in Enabled(x, p) THEN 1 ELSE 0

(***************************************************************************)
(* A launch ends: no dispatcher, barrier, wspawn or stalled warp is left   *)
(* waiting.  Only a core that arrived early at a barrier across cores can  *)
(* be: the warps it starts afterwards may wait for cores that do not come. *)
(***************************************************************************)
KernelCompletes == []<>(Idle \/ early)
=============================================================================

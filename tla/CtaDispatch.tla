---------------------------- MODULE CtaDispatch ----------------------------
(***************************************************************************)
(* The kernel management unit and the CTA dispatchers of the simulator:    *)
(*                                                                         *)
(*   sim/simx/kmu/kmu.cpp         walks the grid of a launch, cluster by   *)
(*                                cluster, and hands out one CTA per step; *)
(*   sim/simx/cta_dispatcher.cpp  one per core: takes a CTA, waits for a   *)
(*                                slot (a fixed-stride piece of local      *)
(*                                memory) and starts its warps one by one; *)
(*   sim/simx/scheduler.cpp       activates the warp, and reports its exit.*)
(*                                                                         *)
(* All dispatchers draw from the one KMU.  A step of a dispatcher is one   *)
(* call of CtaDispatcher::step by Scheduler::schedule; the cores interleave*)
(* freely.  What a warp does between its activation and its exit is left   *)
(* to module SimtCore, which extends this one.                             *)
(***************************************************************************)
EXTENDS Integers, FiniteSets

CONSTANTS
    Cores,          \* the cores, each with its own dispatcher
    NumWarps,       \* VX_CFG_NUM_WARPS: warps of a core, and its CTA slots
    NumThreads,     \* VX_CFG_NUM_THREADS
    LmemCapacity,   \* bytes of local memory, 1 << VX_CFG_LMEM_LOG_SIZE
    MemBlockSize,   \* VX_CFG_MEM_BLOCK_SIZE
    Kernels,        \* the launches the host may ask for (records, see Kernel)
    MaxLaunches     \* bound on the launches of a behaviour

Axes == 1 .. 3
Warps == 0 .. NumWarps - 1
Slots == Warps
NoSlot == NumWarps                   \* "num_warps_ = invalid/unassigned"
Dims == [Axes -> Nat]

(***************************************************************************)
(* What the host writes into the launch registers.  Queue::enqueue_launch  *)
(* refuses a grid that is no multiple of the cluster.                      *)
(***************************************************************************)
Kernel == [grid : Dims, block : Dims, cluster : Dims, lmem_size : Nat]

ASSUME DispatchAssumption ==
    /\ Cores # {}
    /\ NumWarps \in Nat \ {0}
    /\ NumThreads \in Nat \ {0}
    /\ LmemCapacity \in Nat
    /\ MemBlockSize \in Nat \ {0}
    /\ MaxLaunches \in Nat
    /\ \A k \in Kernels :
          /\ k \in Kernel
          /\ \A i \in Axes : k.cluster[i] > 0 /\ k.grid[i] % k.cluster[i] = 0
          /\ \A i \in Axes : k.block[i] > 0

VARIABLES
    kmu,        \* Kmu: the descriptor and the position of the walk
    disp,       \* disp[c]: the CtaDispatcher of core c
    active,     \* active[c]: Scheduler::active_warps_
    warp,       \* warp[c][w]: the record the warp was activated with
    launches,   \* number of ProcessorImpl::run calls so far
    issued      \* history: how often each (block, rank) was started

dispatchVars == <<kmu, disp, active, warp, launches, issued>>

-----------------------------------------------------------------------------
(* The launch descriptor, as the host computes it. *)

Volume(d) == d[1] * d[2] * d[3]

BlockSize(k) == Volume(k.block)

(***************************************************************************)
(* prepare_kernel_launch_params: one warp's worth of threads, expressed as *)
(* a step in each axis of the block.                                       *)
(***************************************************************************)
WarpStep(k) ==
    [i \in Axes |->
        CASE i = 1 -> NumThreads % k.block[1]
          [] i = 2 -> (NumThreads \div k.block[1]) % k.block[2]
          [] i = 3 -> (NumThreads \div (k.block[1] * k.block[2])) % k.block[3]]

CtaSize(k) == (BlockSize(k) + NumThreads - 1) \div NumThreads

(* The slot pitch: lmem_size rounded up to whole memory blocks. *)
Stride(k) == ((k.lmem_size + MemBlockSize - 1) \div MemBlockSize) * MemBlockSize

UsableSlots(stride) ==
    IF stride = 0 THEN NumWarps
    ELSE LET fit == LmemCapacity \div stride
         IN  IF fit > NumWarps THEN NumWarps ELSE IF fit = 0 THEN 1 ELSE fit

-----------------------------------------------------------------------------
(* The grid walk: an odometer inside the cluster, then one over clusters.  *)

Zero == [i \in Axes |-> 0]

Wraps(digit, step, limit, i) == digit[i] + step[i] = limit[i]

Advance(digit, step, limit) ==
    [i \in Axes |->
        IF \E j \in Axes : j < i /\ ~Wraps(digit, step, limit, j) THEN digit[i]
        ELSE IF Wraps(digit, step, limit, i) THEN 0 ELSE digit[i] + step[i]]

One == [i \in Axes |-> 1]

(* Kmu::step: the CTA it hands out ... *)
KmuRequest(k) ==
    [ block_idx |-> [i \in Axes |-> k.origin[i] + k.intra[i]],
      first     |-> k.intra = Zero,
      kernel    |-> k.kernel ]

(* ... and where the walk stands afterwards. *)
KmuAdvance(k) ==
    LET cl == k.kernel.cluster
        clusterDone == \A i \in Axes : Wraps(k.intra, One, cl, i)
        gridDone == \A i \in Axes : Wraps(k.origin, cl, k.kernel.grid, i)
    IN  [k EXCEPT !.intra = Advance(k.intra, One, cl),
                  !.origin = IF clusterDone
                             THEN Advance(k.origin, cl, k.kernel.grid) ELSE @,
                  !.running = ~(clusterDone /\ gridDone)]

-----------------------------------------------------------------------------
(* CtaDispatcher::step, in the order of its code. *)

NoCta == [block_idx |-> Zero, first |-> FALSE,
          kernel |-> [grid |-> Zero, block |-> One, cluster |-> One, lmem_size |-> 0]]

(* A following member of a cluster, or a CTA by itself, takes the tail.    *)
(* The first of a cluster wants a window of free slots, from 0 if the      *)
(* window would run past the last usable one.                              *)
TailSlot(d, cta) ==
    IF d.tail_slot >= UsableSlots(Stride(cta.kernel)) THEN 0 ELSE d.tail_slot

Base(d, cta) ==
    IF cta.first /\ TailSlot(d, cta) + Volume(cta.kernel.cluster)
                      > UsableSlots(Stride(cta.kernel))
    THEN 0 ELSE TailSlot(d, cta)

Window(d, cta) ==
    LET max == UsableSlots(Stride(cta.kernel))
        k == Volume(cta.kernel.cluster)
        span == IF ~cta.first THEN 1 ELSE IF k > max THEN max ELSE k
    IN  Base(d, cta) .. Base(d, cta) + span - 1

WindowFree(d, cta) == \A s \in Window(d, cta) : d.slot_rem_warps[s] = 0

(* Mutant: the stash is overwritten by the next CTA. *)
LoadedOverwrites(d, k) ==
    [d EXCEPT !.has_pending = TRUE, !.pending_cta = KmuRequest(k)]

(* Fetch the next CTA unless one is stashed already. *)
Loaded(d, k) ==
    IF d.has_pending THEN d
    ELSE [d EXCEPT !.has_pending = TRUE, !.pending_cta = KmuRequest(k)]

Admitted(d) ==
    LET cta == d.pending_cta
        base == Base(d, cta)
    IN  [d EXCEPT !.has_cta = TRUE, !.has_pending = FALSE, !.cta = cta,
                  !.rank = 0,
                  !.block_size_rem = BlockSize(cta.kernel),
                  !.thread_idx = Zero,
                  !.cur_slot = base,
                  !.slot_rem_warps[base] = CtaSize(cta.kernel),
                  !.tail_slot = (base + 1) % UsableSlots(Stride(cta.kernel))]

LowestFree(act) == CHOOSE w \in Warps \ act : \A v \in Warps \ act : w <= v

(* Mutant: the carry out of y is lost. *)
NextThreadIdxNoCarry(d) ==
    LET k == d.cta.kernel
        x == d.thread_idx[1] + WarpStep(k)[1]
        y == d.thread_idx[2] + WarpStep(k)[2] + (x \div k.block[1])
    IN  [i \in Axes |->
            CASE i = 1 -> x % k.block[1]
              [] i = 2 -> y % k.block[2]
              [] i = 3 -> d.thread_idx[3] + WarpStep(k)[3]]

(* next_warp: the additive carry that moves thread_idx on by one warp. *)
NextThreadIdx(d) ==
    LET k == d.cta.kernel
        x == d.thread_idx[1] + WarpStep(k)[1]
        wrapX == x >= k.block[1]
        y == d.thread_idx[2] + WarpStep(k)[2] + (IF wrapX THEN 1 ELSE 0)
        wrapY == y >= k.block[2]
    IN  [i \in Axes |->
            CASE i = 1 -> IF wrapX THEN x - k.block[1] ELSE x
              [] i = 2 -> IF wrapY THEN y - k.block[2] ELSE y
              [] i = 3 -> d.thread_idx[3] + WarpStep(k)[3] + (IF wrapY THEN 1 ELSE 0)]

LaneCount(d) == IF d.block_size_rem >= NumThreads THEN NumThreads ELSE d.block_size_rem

(* The record next_warp fills in for the scheduler. *)
WarpRecord(d, w) ==
    [ block_idx  |-> d.cta.block_idx,
      cta_id     |-> d.cur_slot,
      cta_rank   |-> d.rank,
      cta_size   |-> CtaSize(d.cta.kernel),
      thread_idx |-> d.thread_idx,
      lanes      |-> LaneCount(d),
      lmem_addr  |-> d.cur_slot * Stride(d.cta.kernel),
      do_init    |-> ~d.warp_init[w] ]

NextWarp(d, w) ==
    [d EXCEPT !.rank = @ + 1,
              !.has_cta = d.rank + 1 < CtaSize(d.cta.kernel),
              !.thread_idx = NextThreadIdx(d),
              !.block_size_rem = @ - LaneCount(d),
              !.warp_init[w] = TRUE,
              !.wid_to_slot[w] = d.cur_slot]

(* Mutants: the first exit frees the slot, the warp keeps its slot. *)
WarpDoneFreesSlot(d, w) ==
    IF d.wid_to_slot[w] = NoSlot THEN d
    ELSE [d EXCEPT !.wid_to_slot[w] = NoSlot,
                   !.slot_rem_warps[d.wid_to_slot[w]] = 0]

WarpDoneKeepsSlot(d, w) ==
    IF d.wid_to_slot[w] = NoSlot THEN d
    ELSE [d EXCEPT !.slot_rem_warps[d.wid_to_slot[w]] = @ - 1]

(* CtaDispatcher::warp_done *)
WarpDone(d, w) ==
    IF d.wid_to_slot[w] = NoSlot THEN d
    ELSE [d EXCEPT !.wid_to_slot[w] = NoSlot,
                   !.slot_rem_warps[d.wid_to_slot[w]] = @ - 1]

(* CtaDispatcher::running *)
DispatcherRunning(c) == disp[c].has_cta \/ disp[c].has_pending \/ kmu.running

-----------------------------------------------------------------------------
ResetDispatcher ==
    [ has_cta |-> FALSE, has_pending |-> FALSE, cta |-> NoCta, pending_cta |-> NoCta,
      tail_slot |-> 0, cur_slot |-> 0, rank |-> 0, block_size_rem |-> 0,
      thread_idx |-> Zero,
      slot_rem_warps |-> [s \in Slots |-> 0],
      wid_to_slot |-> [w \in Warps |-> NoSlot],
      warp_init |-> [w \in Warps |-> FALSE] ]

IdleWarp == [block_idx |-> Zero, cta_id |-> 0, cta_rank |-> 0, cta_size |-> 0,
             thread_idx |-> Zero, lanes |-> 0, lmem_addr |-> 0, do_init |-> FALSE]

ResetKmu == [running |-> FALSE, origin |-> Zero, intra |-> Zero, kernel |-> NoCta.kernel]

Blocks(k) ==
    {<<x, y, z>> : x \in 0 .. k.grid[1] - 1, y \in 0 .. k.grid[2] - 1,
                   z \in 0 .. k.grid[3] - 1}

Ranks(k) == 0 .. CtaSize(k) - 1

NothingIssued(k) == [br \in Blocks(k) \X Ranks(k) |-> 0]

DispatchInit ==
    /\ kmu = ResetKmu
    /\ disp = [c \in Cores |-> ResetDispatcher]
    /\ active = [c \in Cores |-> {}]
    /\ warp = [c \in Cores |-> [w \in Warps |-> IdleWarp]]
    /\ launches = 0
    /\ issued = NothingIssued(NoCta.kernel)

(* ProcessorImpl::run is over when no core is running any more. *)
Idle == \A c \in Cores : active[c] = {} /\ ~DispatcherRunning(c)

(***************************************************************************)
(* ProcessorImpl::run: reset every object, then Kmu::start, which refuses  *)
(* an empty grid.                                                          *)
(***************************************************************************)
Launch(k) ==
    /\ Idle /\ launches < MaxLaunches
    /\ kmu' = [ResetKmu EXCEPT !.kernel = k,
                               !.running = BlockSize(k) > 0 /\ Volume(k.grid) > 0]
    /\ disp' = [c \in Cores |-> ResetDispatcher]
    /\ active' = [c \in Cores |-> {}]
    /\ warp' = [c \in Cores |-> [w \in Warps |-> IdleWarp]]
    /\ launches' = launches + 1
    /\ issued' = NothingIssued(k)

(* The KMU is asked only by a dispatcher with no CTA in hand. *)
FetchesCta(c) == ~disp[c].has_cta /\ ~disp[c].has_pending

HasWork(c) == FetchesCta(c) => kmu.running

KmuAfterLoad(c) == IF FetchesCta(c) THEN KmuAdvance(kmu) ELSE kmu

(* step returns false: the window is not free, and the CTA stays pending.  *)
Blocked(c) ==
    /\ ~disp[c].has_cta
    /\ ~WindowFree(disp[c], Loaded(disp[c], kmu).pending_cta)

StepBlocked(c) ==
    /\ HasWork(c) /\ Blocked(c)
    /\ kmu' = KmuAfterLoad(c)
    /\ disp' = [disp EXCEPT ![c] = Loaded(@, kmu)]

Holding(c) == IF disp[c].has_cta THEN disp[c] ELSE Admitted(Loaded(disp[c], kmu))

(* step admits the CTA but every warp is busy. *)
StepNoWarp(c) ==
    /\ HasWork(c) /\ ~Blocked(c) /\ active[c] = Warps
    /\ kmu' = KmuAfterLoad(c)
    /\ disp' = [disp EXCEPT ![c] = Holding(c)]

StartNothing(c) ==
    /\ StepBlocked(c) \/ StepNoWarp(c)
    /\ UNCHANGED <<active, warp, launches, issued>>

(* step starts the next warp of the CTA; schedule() activates it. *)
StartWarp(c) ==
    /\ HasWork(c) /\ ~Blocked(c) /\ active[c] # Warps
    /\ LET w == LowestFree(active[c])
           d == Holding(c)
       IN  /\ disp' = [disp EXCEPT ![c] = NextWarp(d, w)]
           /\ warp' = [warp EXCEPT ![c][w] = WarpRecord(d, w)]
           /\ active' = [active EXCEPT ![c] = @ \cup {w}]
           /\ issued' = [issued EXCEPT ![<<d.cta.block_idx, d.rank>>] = @ + 1]
    /\ kmu' = KmuAfterLoad(c)
    /\ UNCHANGED launches

DispatchStep(c) == StartNothing(c) \/ StartWarp(c)

(* Scheduler::setTmask with no thread left: the warp is gone. *)
RetireWarp(c, w) ==
    /\ w \in active[c]
    /\ active' = [active EXCEPT ![c] = @ \ {w}]
    /\ disp' = [disp EXCEPT ![c] = WarpDone(@, w)]
    /\ UNCHANGED <<kmu, warp, launches, issued>>

DispatchNext ==
    \/ \E k \in Kernels : Launch(k)
    \/ \E c \in Cores : DispatchStep(c)
    \/ \E c \in Cores, w \in Warps : RetireWarp(c, w)

(***************************************************************************)
(* Every core's schedule() runs on every tick, and a kernel's warps are    *)
(* taken to exit; nothing obliges the host to launch.                      *)
(***************************************************************************)
DispatchFairness ==
    \A c \in Cores : /\ WF_dispatchVars(DispatchStep(c))
                     /\ \A w \in Warps : WF_dispatchVars(RetireWarp(c, w))

DispatchSpec == DispatchInit /\ [][DispatchNext]_dispatchVars /\ DispatchFairness
-----------------------------------------------------------------------------
(* Properties. *)

(***************************************************************************)
(* Types, with the bounds the arrays of the code rely on: a slot index     *)
(* stays below NumWarps and a slot's count of warps never goes below 0.    *)
(***************************************************************************)
CtaType == [block_idx : Dims, first : BOOLEAN, kernel : Kernel]

DispatcherType ==
    [ has_cta : BOOLEAN, has_pending : BOOLEAN, cta : CtaType, pending_cta : CtaType,
      tail_slot : Slots, cur_slot : Slots, rank : Nat, block_size_rem : Nat,
      thread_idx : Dims, slot_rem_warps : [Slots -> Nat],
      wid_to_slot : [Warps -> Slots \cup {NoSlot}], warp_init : [Warps -> BOOLEAN] ]

WarpType ==
    [ block_idx : Dims, cta_id : Slots, cta_rank : Nat, cta_size : Nat,
      thread_idx : Dims, lanes : 0 .. NumThreads, lmem_addr : Nat, do_init : BOOLEAN ]

DispatchTypeOK ==
    /\ kmu \in [running : BOOLEAN, origin : Dims, intra : Dims, kernel : Kernel]
    /\ disp \in [Cores -> DispatcherType]
    /\ active \in [Cores -> SUBSET Warps]
    /\ warp \in [Cores -> [Warps -> WarpType]]
    /\ launches \in 0 .. MaxLaunches

(***************************************************************************)
(* Whatever way the cores share the grid, no warp of a CTA is started      *)
(* twice, and the launch is over only when every warp of every block has   *)
(* been (Kmu::step's walk against CtaDispatcher::step's stash).            *)
(***************************************************************************)
EachWarpOnce ==
    /\ \A br \in DOMAIN issued : issued[br] <= 1
    /\ Idle => \A br \in DOMAIN issued : issued[br] = 1

(***************************************************************************)
(* The additive carry of next_warp, with the host's warp step, gives the   *)
(* warp of rank r the coordinates of thread r * NumThreads of the block,   *)
(* and the lanes of all its warps are the threads of the block.            *)
(***************************************************************************)
Dispatched(c) == {w \in active[c] : disp[c].wid_to_slot[w] # NoSlot}

WarpCoversItsThreads ==
    \A c \in Cores : \A w \in Dispatched(c) :
        LET r == warp[c][w]
            b == kmu.kernel.block
            t == r.thread_idx
        IN  /\ t[1] + b[1] * (t[2] + b[2] * t[3]) = r.cta_rank * NumThreads
            /\ t[1] < b[1] /\ t[2] < b[2] /\ t[3] < b[3]
            /\ r.lanes = IF r.cta_rank < r.cta_size - 1 THEN NumThreads
                         ELSE BlockSize(kmu.kernel) - r.cta_rank * NumThreads

(***************************************************************************)
(* slot_rem_warps_ counts the warps of the slot's CTA that are running or  *)
(* still to be started; a slot is reused only once all have exited.        *)
(***************************************************************************)
RunningIn(c, s) == {w \in Warps : disp[c].wid_to_slot[w] = s}

ToStart(c, s) ==
    IF disp[c].has_cta /\ disp[c].cur_slot = s
    THEN CtaSize(disp[c].cta.kernel) - disp[c].rank ELSE 0

SlotAccounting ==
    \A c \in Cores, s \in Slots :
        disp[c].slot_rem_warps[s] = Cardinality(RunningIn(c, s)) + ToStart(c, s)

(***************************************************************************)
(* Warps of two different CTAs on a core never share a byte of local       *)
(* memory, however early one of them exits and its slot is taken again.    *)
(***************************************************************************)
LmemDisjoint ==
    \A c \in Cores : \A v, w \in active[c] :
        warp[c][v].block_idx # warp[c][w].block_idx =>
            \/ warp[c][v].lmem_addr + kmu.kernel.lmem_size <= warp[c][w].lmem_addr
            \/ warp[c][w].lmem_addr + kmu.kernel.lmem_size <= warp[c][v].lmem_addr
            \/ kmu.kernel.lmem_size = 0

(***************************************************************************)
(* "Cluster shape (CTAs guaranteed co-resident on a core)" (queue.cpp):    *)
(* the running CTAs of a cluster that fits sit on one core, member r in    *)
(* slot first + r, which is how multicast finds the receivers.             *)
(***************************************************************************)
ClusterOf(k, b) == [i \in Axes |-> b[i] \div k.cluster[i]]

MemberNumber(k, b) ==
    LET m == [i \in Axes |-> b[i] % k.cluster[i]]
    IN  m[1] + k.cluster[1] * (m[2] + k.cluster[2] * m[3])

ClusterCoResident ==
    LET k == kmu.kernel
    IN  Volume(k.cluster) <= UsableSlots(Stride(k)) =>
        \A c, e \in Cores : \A v \in active[c], w \in active[e] :
            LET bv == warp[c][v].block_idx
                bw == warp[e][w].block_idx
            IN  ClusterOf(k, bv) = ClusterOf(k, bw) =>
                    /\ c = e
                    /\ warp[c][v].cta_id - warp[e][w].cta_id
                         = MemberNumber(k, bv) - MemberNumber(k, bw)

=============================================================================

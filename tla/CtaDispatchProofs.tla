------------------------- MODULE CtaDispatchProofs -------------------------
(***************************************************************************)
(* Proofs about CtaDispatch, for any cores, warps, threads, local memory,  *)
(* kernels and number of launches: types (with the bounds of the arrays),  *)
(* the accounting of slots, local memory that CTAs do not share, the       *)
(* threads each warp starts with, and every warp started exactly once.     *)
(***************************************************************************)
EXTENDS CtaDispatch, TLAPS, FiniteSetTheorems, WellFoundedInduction

-----------------------------------------------------------------------------
(* Launch descriptors.                                                     *)

Good(k) ==
    /\ k \in Kernel
    /\ \A i \in Axes : k.cluster[i] > 0 /\ k.block[i] > 0

LEMMA GoodKernels == \A k \in Kernels : Good(k)
BY DispatchAssumption DEF Good

LEMMA GoodNoCta == NoCta \in CtaType /\ Good(NoCta.kernel)
BY DEF NoCta, CtaType, Good, Kernel, Dims, Zero, One, Axes

LEMMA DimParts ==
    ASSUME NEW d \in Dims
    PROVE  d[1] \in Nat /\ d[2] \in Nat /\ d[3] \in Nat
BY DEF Dims, Axes

LEMMA KernelParts ==
    ASSUME NEW k \in Kernel
    PROVE  k.grid \in Dims /\ k.block \in Dims /\ k.cluster \in Dims /\ k.lmem_size \in Nat
BY DEF Kernel

(* A product of positive numbers is positive. *)
LEMMA ProductPositive ==
    ASSUME NEW a \in Nat, NEW b \in Nat, a > 0, b > 0
    PROVE  a * b \in Nat /\ a * b > 0
OBVIOUS

LEMMA VolumePositive ==
    ASSUME NEW d \in Dims, \A i \in Axes : d[i] > 0
    PROVE  Volume(d) \in Nat /\ Volume(d) > 0
<1>1. d[1] \in Nat /\ d[2] \in Nat /\ d[3] \in Nat /\ d[1] > 0 /\ d[2] > 0 /\ d[3] > 0
  BY DimParts DEF Axes
<1>2. d[1] * d[2] \in Nat /\ d[1] * d[2] > 0
  BY <1>1, ProductPositive
<1>3. d[1] * d[2] * d[3] \in Nat /\ d[1] * d[2] * d[3] > 0
  BY <1>1, <1>2, ProductPositive
<1> QED BY <1>3 DEF Volume

LEMMA VolumeNat ==
    ASSUME NEW d \in Dims
    PROVE  Volume(d) \in Nat
BY DimParts DEF Volume

(* Division by a positive number, as TLA+ defines it. *)
LEMMA Division ==
    ASSUME NEW a \in Nat, NEW b \in Nat, b > 0
    PROVE  /\ a \div b \in Nat /\ a % b \in 0 .. b - 1
           /\ a = b * (a \div b) + (a % b)
BY SMTT(30)

LEMMA CtaSizePositive ==
    ASSUME NEW k, Good(k)
    PROVE  CtaSize(k) \in Nat /\ CtaSize(k) > 0 /\ BlockSize(k) \in Nat
<1>1. BlockSize(k) \in Nat /\ BlockSize(k) > 0
  BY KernelParts, VolumePositive DEF Good, BlockSize
<1>2. NumThreads \in Nat /\ NumThreads > 0
  BY DispatchAssumption
<1> DEFINE x == BlockSize(k) + NumThreads - 1
<1>3. x \in Nat /\ x >= NumThreads
  BY <1>1, <1>2
<1> HIDE DEF x
<1>4. /\ x \div NumThreads \in Nat /\ x % NumThreads \in 0 .. NumThreads - 1
      /\ x = NumThreads * (x \div NumThreads) + (x % NumThreads)
  BY <1>2, <1>3, Division
<1>5. x \div NumThreads # 0
  <2> SUFFICES ASSUME x \div NumThreads = 0 PROVE FALSE
    OBVIOUS
  <2>1. NumThreads * (x \div NumThreads) = 0
    BY <1>2
  <2> QED BY <1>2, <1>3, <1>4, <2>1
<1> QED BY <1>1, <1>4, <1>5 DEF CtaSize, x

LEMMA StrideCovers ==
    ASSUME NEW k \in Kernel
    PROVE  Stride(k) \in Nat /\ Stride(k) >= k.lmem_size
<1>1. k.lmem_size \in Nat /\ MemBlockSize \in Nat /\ MemBlockSize > 0
  BY KernelParts, DispatchAssumption
<1> DEFINE x == k.lmem_size + MemBlockSize - 1
           n == x \div MemBlockSize
<1>2. x \in Nat
  BY <1>1
<1>3. n \in Nat /\ x % MemBlockSize \in 0 .. MemBlockSize - 1 /\ x = MemBlockSize * n + (x % MemBlockSize)
  BY <1>1, <1>2, Division
<1>4. Stride(k) = n * MemBlockSize
  BY DEF Stride
<1> HIDE DEF n
<1>5. n * MemBlockSize = MemBlockSize * n /\ n * MemBlockSize \in Nat
  BY <1>1, <1>3
<1>6. n * MemBlockSize = x - (x % MemBlockSize)
  BY <1>2, <1>3, <1>5
<1>7. PICK r \in 0 .. MemBlockSize - 1 : n * MemBlockSize = x - r
  BY <1>3, <1>6
<1>8. x - r >= k.lmem_size
  BY <1>1, <1>7
<1> QED BY <1>4, <1>5, <1>7, <1>8

LEMMA UsableSlotsRange ==
    ASSUME NEW stride \in Nat
    PROVE  UsableSlots(stride) \in 1 .. NumWarps
<1>1. NumWarps \in Nat /\ NumWarps > 0 /\ LmemCapacity \in Nat
  BY DispatchAssumption
<1>2. CASE stride = 0
  BY <1>1, <1>2 DEF UsableSlots
<1>3. CASE stride # 0
  <2>1. LmemCapacity \div stride \in Nat
    BY <1>1, <1>3, Division
  <2> QED BY <1>1, <1>3, <2>1 DEF UsableSlots
<1> QED BY <1>2, <1>3

-----------------------------------------------------------------------------
(* The KMU.                                                                *)

KmuType == [running : BOOLEAN, origin : Dims, intra : Dims, kernel : Kernel]

LEMMA ResetKmuType == ResetKmu \in KmuType /\ Good(ResetKmu.kernel)
<1>1. Zero \in Dims
  BY DEF Zero, Dims
<1>2. Good(NoCta.kernel) /\ NoCta.kernel \in Kernel
  BY GoodNoCta DEF Good
<1> QED BY <1>1, <1>2 DEF ResetKmu, KmuType

LEMMA AdvanceType ==
    ASSUME NEW digit \in Dims, NEW step \in Dims, NEW limit \in Dims
    PROVE  Advance(digit, step, limit) \in Dims
<1>1. \A i \in Axes : digit[i] \in Nat /\ digit[i] + step[i] \in Nat
  BY DEF Dims
<1> QED BY <1>1 DEF Advance, Dims

LEMMA KmuRequestType ==
    ASSUME NEW k \in KmuType
    PROVE  KmuRequest(k) \in CtaType /\ KmuRequest(k).kernel = k.kernel
<1>1. k.origin \in Dims /\ k.intra \in Dims /\ k.kernel \in Kernel
  BY DEF KmuType
<1>2. [i \in Axes |-> k.origin[i] + k.intra[i]] \in Dims
  BY <1>1 DEF Dims
<1>3. (k.intra = Zero) \in BOOLEAN
  OBVIOUS
<1> QED BY <1>1, <1>2, <1>3 DEF KmuRequest, CtaType

LEMMA KmuAdvanceType ==
    ASSUME NEW k \in KmuType
    PROVE  KmuAdvance(k) \in KmuType /\ KmuAdvance(k).kernel = k.kernel
<1> DEFINE cl == k.kernel.cluster
           clusterDone == \A i \in Axes : Wraps(k.intra, One, cl, i)
           gridDone == \A i \in Axes : Wraps(k.origin, cl, k.kernel.grid, i)
           intra == Advance(k.intra, One, cl)
           origin == IF clusterDone THEN Advance(k.origin, cl, k.kernel.grid) ELSE k.origin
           running == ~(clusterDone /\ gridDone)
<1>1. k.origin \in Dims /\ k.intra \in Dims /\ k.kernel \in Kernel /\ cl \in Dims /\ k.kernel.grid \in Dims
  BY KernelParts DEF KmuType
<1>2. One \in Dims
  BY DEF One, Dims
<1>3. intra \in Dims /\ origin \in Dims /\ running \in BOOLEAN
  BY <1>1, <1>2, AdvanceType
<1>4. KmuAdvance(k) = [k EXCEPT !.intra = intra, !.origin = origin, !.running = running]
  BY DEF KmuAdvance
<1> HIDE DEF intra, origin, running
<1> QED BY <1>3, <1>4 DEF KmuType

-----------------------------------------------------------------------------
(* A dispatcher d with the active warps act.                               *)

RunSet(d, s) == {w \in Warps : d.wid_to_slot[w] = s}

Left(d, s) == IF d.has_cta /\ d.cur_slot = s THEN CtaSize(d.cta.kernel) - d.rank ELSE 0

Accounts(d) ==
    \A s \in Slots : d.slot_rem_warps[s] = Cardinality(RunSet(d, s)) + Left(d, s)

(* A warp has a slot exactly while it is active, and the CTA in hand has   *)
(* warps left to start.                                                    *)
Sound(d, act) ==
    /\ d \in DispatcherType /\ act \subseteq Warps
    /\ Good(d.cta.kernel) /\ Good(d.pending_cta.kernel)
    /\ d.has_cta => d.rank < CtaSize(d.cta.kernel)
    /\ \A w \in Warps : w \in act <=> d.wid_to_slot[w] # NoSlot
    /\ Accounts(d)

LEMMA WarpFacts ==
    /\ NumWarps \in Nat /\ NumWarps > 0 /\ 0 \in Slots /\ NoSlot \notin Slots
    /\ Slots = Warps /\ IsFiniteSet(Warps)
<1>1. NumWarps \in Nat /\ NumWarps > 0
  BY DispatchAssumption
<1>2. IsFiniteSet(Warps)
  BY <1>1, FS_Interval DEF Warps
<1> QED BY <1>1, <1>2 DEF Slots, Warps, NoSlot

LEMMA RunFinite ==
    ASSUME NEW d, NEW s
    PROVE  IsFiniteSet(RunSet(d, s)) /\ Cardinality(RunSet(d, s)) \in Nat /\ (Cardinality(RunSet(d, s)) = 0 <=> RunSet(d, s) = {})
<1>1. RunSet(d, s) \subseteq Warps
  BY DEF RunSet
<1>2. IsFiniteSet(RunSet(d, s))
  BY <1>1, WarpFacts, FS_Subset
<1> QED BY <1>2, FS_CardinalityType, FS_EmptySet

LEMMA ResetSound == Sound(ResetDispatcher, {})
<1> DEFINE d == ResetDispatcher
<1>1. d \in DispatcherType
  <2>1. Zero \in Dims
    BY DEF Zero, Dims
  <2> QED BY <2>1, GoodNoCta, WarpFacts DEF ResetDispatcher, DispatcherType
<1>2. /\ d.cta = NoCta /\ d.pending_cta = NoCta /\ d.has_cta = FALSE
      /\ \A w \in Warps : d.wid_to_slot[w] = NoSlot
      /\ \A s \in Slots : d.slot_rem_warps[s] = 0
  BY DEF ResetDispatcher
<1> HIDE DEF d
<1>3. Accounts(d)
  <2> SUFFICES ASSUME NEW s \in Slots PROVE d.slot_rem_warps[s] = Cardinality(RunSet(d, s)) + Left(d, s)
    BY DEF Accounts
  <2>1. RunSet(d, s) = {}
    BY <1>2, WarpFacts DEF RunSet
  <2>2. Cardinality(RunSet(d, s)) = 0
    BY <2>1, RunFinite
  <2> QED BY <1>2, <2>2 DEF Left
<1>4. Sound(d, {})
  BY <1>1, <1>2, <1>3, GoodNoCta DEF Sound
<1> QED BY <1>4 DEF d

LEMMA DispatcherParts ==
    ASSUME NEW d \in DispatcherType
    PROVE  /\ d.has_cta \in BOOLEAN /\ d.has_pending \in BOOLEAN
           /\ d.cta \in CtaType /\ d.pending_cta \in CtaType
           /\ d.tail_slot \in Slots /\ d.cur_slot \in Slots /\ d.rank \in Nat
           /\ d.block_size_rem \in Nat /\ d.thread_idx \in Dims
           /\ d.slot_rem_warps \in [Slots -> Nat]
           /\ d.wid_to_slot \in [Warps -> Slots \cup {NoSlot}]
           /\ d.warp_init \in [Warps -> BOOLEAN]
BY DEF DispatcherType

(* Fetching a CTA touches the stash only. *)
LEMMA LoadedParts ==
    ASSUME NEW d \in DispatcherType, NEW k \in KmuType
    PROVE  LET e == Loaded(d, k) IN
           /\ e \in DispatcherType
           /\ e.pending_cta = (IF d.has_pending THEN d.pending_cta ELSE KmuRequest(k))
           /\ e.has_cta = d.has_cta /\ e.cta = d.cta /\ e.rank = d.rank /\ e.cur_slot = d.cur_slot
           /\ e.tail_slot = d.tail_slot /\ e.slot_rem_warps = d.slot_rem_warps
           /\ e.wid_to_slot = d.wid_to_slot /\ e.has_pending = TRUE
<1>1. CASE d.has_pending
  BY <1>1 DEF Loaded, DispatcherType
<1>2. CASE ~d.has_pending
  <2> DEFINE r == KmuRequest(k)
  <2>1. r \in CtaType
    BY KmuRequestType
  <2>2. Loaded(d, k) = [d EXCEPT !.has_pending = TRUE, !.pending_cta = r]
    BY <1>2 DEF Loaded
  <2> HIDE DEF r
  <2>3. LET e == Loaded(d, k) IN
           /\ e \in DispatcherType
           /\ e.pending_cta = r
           /\ e.has_cta = d.has_cta /\ e.cta = d.cta /\ e.rank = d.rank /\ e.cur_slot = d.cur_slot
           /\ e.tail_slot = d.tail_slot /\ e.slot_rem_warps = d.slot_rem_warps
           /\ e.wid_to_slot = d.wid_to_slot /\ e.has_pending = TRUE
    BY <2>1, <2>2 DEF DispatcherType
  <2> QED BY <1>2, <2>3 DEF r
<1> QED BY <1>1, <1>2, DispatcherParts

LEMMA LoadedSound ==
    ASSUME NEW d, NEW act, Sound(d, act), NEW k \in KmuType, Good(k.kernel)
    PROVE  Sound(Loaded(d, k), act)
<1> DEFINE e == Loaded(d, k)
<1>0. d \in DispatcherType
  BY DEF Sound
<1>1. /\ e \in DispatcherType
      /\ e.pending_cta = (IF d.has_pending THEN d.pending_cta ELSE KmuRequest(k))
      /\ e.has_cta = d.has_cta /\ e.cta = d.cta /\ e.rank = d.rank /\ e.cur_slot = d.cur_slot
      /\ e.slot_rem_warps = d.slot_rem_warps /\ e.wid_to_slot = d.wid_to_slot
  BY <1>0, LoadedParts, Zenon
<1> HIDE DEF e
<1>2. Good(e.pending_cta.kernel)
  BY <1>1, KmuRequestType DEF Sound
<1>3. Accounts(e)
  BY <1>1 DEF Sound, Accounts, RunSet, Left
<1>4. Sound(e, act)
  BY <1>1, <1>2, <1>3 DEF Sound
<1> QED BY <1>4 DEF e

(* The slot a CTA is given is one of the window it waited for. *)
LEMMA BaseInWindow ==
    ASSUME NEW d \in DispatcherType, NEW cta \in CtaType, Good(cta.kernel)
    PROVE  /\ Base(d, cta) \in Slots /\ Base(d, cta) \in Window(d, cta)
           /\ UsableSlots(Stride(cta.kernel)) \in 1 .. NumWarps
<1> DEFINE max == UsableSlots(Stride(cta.kernel))
           vol == Volume(cta.kernel.cluster)
<1>1. cta.kernel \in Kernel /\ max \in 1 .. NumWarps
  <2>1. cta.kernel \in Kernel
    BY DEF Good
  <2>2. Stride(cta.kernel) \in Nat
    BY <2>1, StrideCovers
  <2> QED BY <2>1, <2>2, UsableSlotsRange
<1>2. vol \in Nat /\ vol > 0
  BY <1>1, KernelParts, VolumePositive DEF Good
<1>3. d.tail_slot \in Slots
  BY DispatcherParts
<1> HIDE DEF max, vol
<1>4. TailSlot(d, cta) \in Nat /\ TailSlot(d, cta) < max
  BY <1>1, <1>3, WarpFacts DEF TailSlot, Slots, Warps, max
<1>5. Base(d, cta) \in Nat /\ Base(d, cta) < max
  BY <1>1, <1>4 DEF Base
<1>6. Base(d, cta) \in Slots
  BY <1>1, <1>5, WarpFacts DEF Slots, Warps
<1>7. Base(d, cta) \in Window(d, cta)
  <2> DEFINE span == IF ~cta.first THEN 1 ELSE IF vol > max THEN max ELSE vol
  <2>1. span \in Nat /\ span >= 1
    BY <1>1, <1>2, WarpFacts
  <2>2. Window(d, cta) = Base(d, cta) .. Base(d, cta) + span - 1
    BY DEF Window, max, vol
  <2> HIDE DEF span
  <2> QED BY <1>5, <2>1, <2>2
<1> QED BY <1>1, <1>6, <1>7 DEF max

LEMMA AdmittedParts ==
    ASSUME NEW d \in DispatcherType, Good(d.pending_cta.kernel)
    PROVE  LET e == Admitted(d)
               base == Base(d, d.pending_cta)
           IN
           /\ e \in DispatcherType
           /\ e.has_cta = TRUE /\ e.has_pending = FALSE /\ e.cta = d.pending_cta
           /\ e.pending_cta = d.pending_cta /\ e.rank = 0 /\ e.cur_slot = base
           /\ e.slot_rem_warps = [d.slot_rem_warps EXCEPT ![base] = CtaSize(d.pending_cta.kernel)]
           /\ e.wid_to_slot = d.wid_to_slot
<1> DEFINE cta == d.pending_cta
           base == Base(d, cta)
           size == CtaSize(cta.kernel)
           bs == BlockSize(cta.kernel)
           tail == (base + 1) % UsableSlots(Stride(cta.kernel))
<1>1. cta \in CtaType /\ d.slot_rem_warps \in [Slots -> Nat]
  BY DispatcherParts
<1>2. base \in Slots /\ UsableSlots(Stride(cta.kernel)) \in 1 .. NumWarps
  BY <1>1, BaseInWindow
<1>3. size \in Nat /\ bs \in Nat
  BY CtaSizePositive
<1>4. tail \in Slots
  <2>1. base + 1 \in Nat
    BY <1>2, WarpFacts DEF Slots, Warps
  <2> DEFINE n == UsableSlots(Stride(cta.kernel))
  <2>2. n \in Nat /\ n > 0 /\ n <= NumWarps
    BY <1>2, WarpFacts
  <2> HIDE DEF n
  <2>3. (base + 1) % n \in 0 .. n - 1
    BY <2>1, <2>2, Division
  <2>4. (base + 1) % n \in Slots
    BY <2>2, <2>3, WarpFacts DEF Slots, Warps
  <2> QED BY <2>4 DEF n
<1>5. Zero \in Dims
  BY DEF Zero, Dims
<1>6. Admitted(d) = [d EXCEPT !.has_cta = TRUE, !.has_pending = FALSE, !.cta = cta, !.rank = 0,
                              !.block_size_rem = bs, !.thread_idx = Zero, !.cur_slot = base,
                              !.slot_rem_warps[base] = size, !.tail_slot = tail]
  BY DEF Admitted
<1>7. [d.slot_rem_warps EXCEPT ![base] = size] \in [Slots -> Nat]
  BY <1>1, <1>2, <1>3
<1> HIDE DEF cta, base, size, bs, tail
<1> DEFINE e1 == [d EXCEPT !.has_cta = TRUE, !.has_pending = FALSE, !.cta = cta]
           e2 == [e1 EXCEPT !.rank = 0, !.block_size_rem = bs, !.thread_idx = Zero]
           rem == [d.slot_rem_warps EXCEPT ![base] = size]
           e3 == [e2 EXCEPT !.cur_slot = base, !.slot_rem_warps = rem, !.tail_slot = tail]
<1>8. /\ e1 \in DispatcherType
      /\ e1.has_cta = TRUE /\ e1.has_pending = FALSE /\ e1.cta = cta
      /\ e1.pending_cta = d.pending_cta /\ e1.slot_rem_warps = d.slot_rem_warps
      /\ e1.wid_to_slot = d.wid_to_slot
  BY <1>1 DEF DispatcherType
<1>9. Admitted(d) = [e1 EXCEPT !.rank = 0, !.block_size_rem = bs, !.thread_idx = Zero,
                               !.cur_slot = base, !.slot_rem_warps[base] = size, !.tail_slot = tail]
  BY <1>6
<1> HIDE DEF e1
<1>10. /\ e2 \in DispatcherType /\ e2.rank = 0
       /\ e2.has_cta = e1.has_cta /\ e2.has_pending = e1.has_pending /\ e2.cta = e1.cta
       /\ e2.pending_cta = e1.pending_cta /\ e2.slot_rem_warps = e1.slot_rem_warps
       /\ e2.wid_to_slot = e1.wid_to_slot
  BY <1>3, <1>5, <1>8 DEF DispatcherType
<1>11. Admitted(d) = [e2 EXCEPT !.cur_slot = base, !.slot_rem_warps[base] = size, !.tail_slot = tail]
  BY <1>9
<1> HIDE DEF e2
<1>12. Admitted(d) = e3
  BY <1>8, <1>10, <1>11 DEF DispatcherType
<1> HIDE DEF rem
<1>13. rem \in [Slots -> Nat]
  BY <1>7 DEF rem
<1>14. /\ e3 \in DispatcherType /\ e3.cur_slot = base /\ e3.slot_rem_warps = rem
       /\ e3.rank = e2.rank /\ e3.has_cta = e2.has_cta /\ e3.has_pending = e2.has_pending
       /\ e3.cta = e2.cta /\ e3.pending_cta = e2.pending_cta /\ e3.wid_to_slot = e2.wid_to_slot
  BY <1>2, <1>4, <1>10, <1>13 DEF DispatcherType
<1> QED BY <1>8, <1>10, <1>12, <1>14 DEF cta, base, size, rem

(* A free slot has no warp and is not that of a CTA in hand. *)
LEMMA FreeSlot ==
    ASSUME NEW d, NEW act, Sound(d, act), NEW s \in Slots, d.slot_rem_warps[s] = 0
    PROVE  RunSet(d, s) = {} /\ \A w \in act : d.wid_to_slot[w] # s
<1>1. d \in DispatcherType /\ act \subseteq Warps
  BY DEF Sound
<1>2. Left(d, s) \in Nat
  <2>1. d.has_cta => d.rank \in Nat /\ CtaSize(d.cta.kernel) \in Nat /\ d.rank < CtaSize(d.cta.kernel)
    BY <1>1, DispatcherParts, CtaSizePositive DEF Sound
  <2> QED BY <2>1 DEF Left
<1>3. 0 = Cardinality(RunSet(d, s)) + Left(d, s)
  BY DEF Sound, Accounts
<1>4. Cardinality(RunSet(d, s)) = 0
  BY <1>2, <1>3, RunFinite
<1>5. RunSet(d, s) = {}
  BY <1>4, RunFinite
<1> QED BY <1>1, <1>5 DEF RunSet

LEMMA AdmittedSound ==
    ASSUME NEW d, NEW act, Sound(d, act), ~d.has_cta, WindowFree(d, d.pending_cta)
    PROVE  Sound(Admitted(d), act)
<1> DEFINE e == Admitted(d)
           base == Base(d, d.pending_cta)
           size == CtaSize(d.pending_cta.kernel)
<1>0. d \in DispatcherType /\ Good(d.pending_cta.kernel) /\ d.pending_cta \in CtaType
  BY DispatcherParts DEF Sound
<1>1. /\ e \in DispatcherType /\ e.has_cta = TRUE /\ e.cta = d.pending_cta
      /\ e.pending_cta = d.pending_cta /\ e.rank = 0 /\ e.cur_slot = base
      /\ e.slot_rem_warps = [d.slot_rem_warps EXCEPT ![base] = size]
      /\ e.wid_to_slot = d.wid_to_slot
  BY <1>0, AdmittedParts
<1>2. base \in Slots /\ d.slot_rem_warps[base] = 0
  BY <1>0, BaseInWindow DEF WindowFree
<1>3. size \in Nat /\ size > 0
  BY <1>0, CtaSizePositive
<1>4. d.slot_rem_warps \in [Slots -> Nat]
  BY <1>0, DispatcherParts
<1> HIDE DEF e, base, size
<1>5. \A s \in Slots : RunSet(e, s) = RunSet(d, s)
  BY <1>1 DEF RunSet
<1>6. RunSet(d, base) = {}
  BY <1>2, FreeSlot
<1>7. Accounts(e)
  <2> SUFFICES ASSUME NEW s \in Slots PROVE e.slot_rem_warps[s] = Cardinality(RunSet(e, s)) + Left(e, s)
    BY DEF Accounts
  <2>1. CASE s = base
    <3>1. Cardinality(RunSet(e, s)) = 0
      BY <1>5, <1>6, <2>1, RunFinite
    <3>2. Left(e, s) = size
      BY <1>1, <1>3, <2>1 DEF Left, size
    <3>3. e.slot_rem_warps[s] = size
      BY <1>1, <1>2, <1>4, <2>1
    <3> QED BY <1>3, <3>1, <3>2, <3>3
  <2>2. CASE s # base
    <3>1. Left(e, s) = 0 /\ Left(d, s) = 0
      BY <1>1, <2>2 DEF Left
    <3>2. e.slot_rem_warps[s] = d.slot_rem_warps[s]
      BY <1>1, <1>2, <1>4, <2>2
    <3>3. d.slot_rem_warps[s] = Cardinality(RunSet(d, s)) + Left(d, s)
      BY DEF Sound, Accounts
    <3> QED BY <1>5, <3>1, <3>2, <3>3
  <2> QED BY <2>1, <2>2
<1>8. e.rank < CtaSize(e.cta.kernel)
  BY <1>1, <1>3 DEF size
<1>9. Sound(e, act)
  BY <1>0, <1>1, <1>7, <1>8 DEF Sound
<1> QED BY <1>9 DEF e

LEMMA NextThreadIdxType ==
    ASSUME NEW d \in DispatcherType, Good(d.cta.kernel)
    PROVE  NextThreadIdx(d) \in Dims
<1> DEFINE k == d.cta.kernel
           ws == WarpStep(k)
           t == d.thread_idx
<1>1. k \in Kernel /\ t \in Dims /\ k.block \in Dims /\ \A i \in Axes : k.block[i] > 0
  BY DispatcherParts, KernelParts DEF Good
<1>2. k.block[1] \in Nat /\ k.block[2] \in Nat /\ k.block[3] \in Nat /\ k.block[1] > 0 /\ k.block[2] > 0
      /\ k.block[3] > 0 /\ NumThreads \in Nat
  BY <1>1, DimParts, DispatchAssumption DEF Axes
<1>3. ws[1] \in Nat /\ ws[2] \in Nat /\ ws[3] \in Nat
  <2>1. ws[1] = NumThreads % k.block[1]
    BY DEF WarpStep, Axes
  <2>2. ws[2] = (NumThreads \div k.block[1]) % k.block[2]
    BY DEF WarpStep, Axes
  <2>3. ws[3] = (NumThreads \div (k.block[1] * k.block[2])) % k.block[3]
    BY DEF WarpStep, Axes
  <2>4. NumThreads % k.block[1] \in 0 .. k.block[1] - 1 /\ NumThreads \div k.block[1] \in Nat
    BY <1>2, Division
  <2>5. (NumThreads \div k.block[1]) % k.block[2] \in 0 .. k.block[2] - 1
    BY <1>2, <2>4, Division
  <2>6. k.block[1] * k.block[2] \in Nat /\ k.block[1] * k.block[2] > 0
    BY <1>2, ProductPositive
  <2>7. NumThreads \div (k.block[1] * k.block[2]) \in Nat
    BY <1>2, <2>6, Division
  <2>8. (NumThreads \div (k.block[1] * k.block[2])) % k.block[3] \in 0 .. k.block[3] - 1
    BY <1>2, <2>7, Division
  <2>9. ws[1] \in Nat
    BY <1>2, <2>1, <2>4
  <2>10. ws[2] \in Nat
    BY <1>2, <2>2, <2>5
  <2>11. ws[3] \in Nat
    BY <1>2, <2>3, <2>8
  <2> QED BY <2>9, <2>10, <2>11
<1>4. t[1] \in Nat /\ t[2] \in Nat /\ t[3] \in Nat
  BY <1>1, DimParts
<1> DEFINE x == t[1] + ws[1]
           wrapX == x >= k.block[1]
           y == t[2] + ws[2] + (IF wrapX THEN 1 ELSE 0)
           wrapY == y >= k.block[2]
           nx == IF wrapX THEN x - k.block[1] ELSE x
           ny == IF wrapY THEN y - k.block[2] ELSE y
           nz == t[3] + ws[3] + (IF wrapY THEN 1 ELSE 0)
<1> HIDE DEF ws, t, k
<1>5. nx \in Nat /\ ny \in Nat /\ nz \in Nat
  BY <1>2, <1>3, <1>4
<1>6. NextThreadIdx(d) = [i \in Axes |-> CASE i = 1 -> nx [] i = 2 -> ny [] i = 3 -> nz]
  BY DEF NextThreadIdx, ws, t, k
<1> HIDE DEF nx, ny, nz
<1> QED BY <1>5, <1>6 DEF Dims, Axes

LEMMA LanesLeft ==
    ASSUME NEW d \in DispatcherType
    PROVE  LaneCount(d) \in 0 .. NumThreads /\ d.block_size_rem - LaneCount(d) \in Nat
BY DispatcherParts, DispatchAssumption DEF LaneCount

LEMMA NextWarpParts ==
    ASSUME NEW d \in DispatcherType, Good(d.cta.kernel), NEW w \in Warps
    PROVE  LET e == NextWarp(d, w) IN
           /\ e \in DispatcherType
           /\ e.has_cta = (d.rank + 1 < CtaSize(d.cta.kernel)) /\ e.rank = d.rank + 1
           /\ e.cta = d.cta /\ e.cur_slot = d.cur_slot
           /\ e.has_pending = d.has_pending /\ e.pending_cta = d.pending_cta
           /\ e.slot_rem_warps = d.slot_rem_warps
           /\ e.wid_to_slot = [d.wid_to_slot EXCEPT ![w] = d.cur_slot]
<1> DEFINE more == d.rank + 1 < CtaSize(d.cta.kernel)
           idx == NextThreadIdx(d)
           rest == d.block_size_rem - LaneCount(d)
           init == [d.warp_init EXCEPT ![w] = TRUE]
           slot == [d.wid_to_slot EXCEPT ![w] = d.cur_slot]
           e1 == [d EXCEPT !.rank = d.rank + 1, !.has_cta = more, !.thread_idx = idx]
           e2 == [e1 EXCEPT !.block_size_rem = rest, !.warp_init = init, !.wid_to_slot = slot]
<1>1. idx \in Dims /\ rest \in Nat /\ more \in BOOLEAN /\ d.rank + 1 \in Nat
  BY NextThreadIdxType, LanesLeft, DispatcherParts
<1>2. init \in [Warps -> BOOLEAN] /\ slot \in [Warps -> Slots \cup {NoSlot}]
  BY DispatcherParts
<1>3. NextWarp(d, w) = [d EXCEPT !.rank = d.rank + 1, !.has_cta = more, !.thread_idx = idx,
                                 !.block_size_rem = rest, !.warp_init[w] = TRUE,
                                 !.wid_to_slot[w] = d.cur_slot]
  BY DEF NextWarp, DispatcherType
<1> HIDE DEF more, idx, rest
<1>4. /\ e1 \in DispatcherType /\ e1.rank = d.rank + 1 /\ e1.has_cta = more
      /\ e1.cta = d.cta /\ e1.cur_slot = d.cur_slot
      /\ e1.has_pending = d.has_pending /\ e1.pending_cta = d.pending_cta
      /\ e1.slot_rem_warps = d.slot_rem_warps
      /\ e1.warp_init = d.warp_init /\ e1.wid_to_slot = d.wid_to_slot
  BY <1>1 DEF DispatcherType
<1>5. NextWarp(d, w) = [e1 EXCEPT !.block_size_rem = rest, !.warp_init[w] = TRUE,
                                  !.wid_to_slot[w] = d.cur_slot]
  BY <1>3
<1> HIDE DEF e1
<1>6. NextWarp(d, w) = e2
  BY <1>4, <1>5 DEF DispatcherType
<1> HIDE DEF init, slot
<1>7. /\ e2 \in DispatcherType /\ e2.wid_to_slot = slot
      /\ e2.rank = e1.rank /\ e2.has_cta = e1.has_cta
      /\ e2.cta = e1.cta /\ e2.cur_slot = e1.cur_slot
      /\ e2.has_pending = e1.has_pending /\ e2.pending_cta = e1.pending_cta
      /\ e2.slot_rem_warps = e1.slot_rem_warps
  BY <1>1, <1>2, <1>4 DEF DispatcherType
<1> QED BY <1>4, <1>6, <1>7 DEF more, slot

LEMMA NextWarpSound ==
    ASSUME NEW d, NEW act, Sound(d, act), d.has_cta, NEW w \in Warps \ act
    PROVE  Sound(NextWarp(d, w), act \cup {w})
<1> DEFINE e == NextWarp(d, w)
           size == CtaSize(d.cta.kernel)
<1>0. d \in DispatcherType /\ Good(d.cta.kernel) /\ w \in Warps /\ w \notin act /\ act \subseteq Warps
  BY DEF Sound
<1>1. /\ e \in DispatcherType
      /\ e.has_cta = (d.rank + 1 < size) /\ e.rank = d.rank + 1
      /\ e.cta = d.cta /\ e.cur_slot = d.cur_slot /\ e.pending_cta = d.pending_cta
      /\ e.slot_rem_warps = d.slot_rem_warps
      /\ e.wid_to_slot = [d.wid_to_slot EXCEPT ![w] = d.cur_slot]
  BY <1>0, NextWarpParts
<1>2. size \in Nat /\ d.rank \in Nat /\ d.rank < size /\ d.cur_slot \in Slots
      /\ d.wid_to_slot \in [Warps -> Slots \cup {NoSlot}]
  BY <1>0, CtaSizePositive, DispatcherParts DEF Sound
<1>3. d.wid_to_slot[w] = NoSlot
  BY <1>0 DEF Sound
<1> HIDE DEF e, size
<1>4. /\ e.wid_to_slot[w] = d.cur_slot
      /\ \A v \in Warps : v # w => e.wid_to_slot[v] = d.wid_to_slot[v]
  BY <1>0, <1>1, <1>2
<1>5. \A v \in Warps : v \in act \cup {w} <=> e.wid_to_slot[v] # NoSlot
  BY <1>0, <1>2, <1>4, WarpFacts DEF Sound
<1>6. Accounts(e)
  <2> SUFFICES ASSUME NEW s \in Slots PROVE e.slot_rem_warps[s] = Cardinality(RunSet(e, s)) + Left(e, s)
    BY DEF Accounts
  <2>0. d.slot_rem_warps[s] = Cardinality(RunSet(d, s)) + Left(d, s) /\ w \notin RunSet(d, s)
    BY <1>3, WarpFacts DEF Sound, Accounts, RunSet
  <2>1. CASE s = d.cur_slot
    <3>1. RunSet(e, s) = RunSet(d, s) \cup {w}
      BY <1>0, <1>4, <2>1 DEF RunSet
    <3>2. Cardinality(RunSet(e, s)) = Cardinality(RunSet(d, s)) + 1 /\ Cardinality(RunSet(d, s)) \in Nat
      <4>1. IsFiniteSet(RunSet(d, s)) /\ Cardinality(RunSet(d, s)) \in Nat
        BY RunFinite
      <4>2. Cardinality(RunSet(d, s) \cup {w})
              = IF w \in RunSet(d, s) THEN Cardinality(RunSet(d, s)) ELSE Cardinality(RunSet(d, s)) + 1
        BY <4>1, FS_AddElement, Zenon
      <4> QED BY <2>0, <3>1, <4>1, <4>2
    <3>3. Left(d, s) = size - d.rank
      BY <2>1 DEF Left, size
    <3>4. Left(e, s) = size - (d.rank + 1)
      <4>1. CtaSize(e.cta.kernel) = size
        BY <1>1 DEF size
      <4>2. CASE d.rank + 1 < size
        BY <1>1, <2>1, <4>1, <4>2 DEF Left
      <4>3. CASE ~(d.rank + 1 < size)
        <5>1. size - (d.rank + 1) = 0
          BY <1>2, <4>3
        <5> QED BY <1>1, <4>3, <5>1 DEF Left
      <4> QED BY <4>2, <4>3
    <3> QED BY <1>1, <1>2, <2>0, <3>2, <3>3, <3>4
  <2>2. CASE s # d.cur_slot
    <3>1. RunSet(e, s) = RunSet(d, s)
      BY <1>3, <1>4, <2>2, WarpFacts DEF RunSet
    <3>2. Left(e, s) = 0 /\ Left(d, s) = 0
      BY <1>1, <2>2 DEF Left
    <3> QED BY <1>1, <2>0, <3>1, <3>2
  <2> QED BY <2>1, <2>2
<1>7. e.has_cta => e.rank < CtaSize(e.cta.kernel)
  BY <1>1 DEF size
<1>8. Sound(e, act \cup {w})
  BY <1>0, <1>1, <1>5, <1>6, <1>7 DEF Sound
<1> QED BY <1>8 DEF e

LEMMA WarpDoneParts ==
    ASSUME NEW d, NEW act, Sound(d, act), NEW w \in act
    PROVE  LET e == WarpDone(d, w)
               s == d.wid_to_slot[w]
           IN
           /\ e \in DispatcherType /\ s \in Slots
           /\ e.has_cta = d.has_cta /\ e.rank = d.rank /\ e.cta = d.cta /\ e.cur_slot = d.cur_slot
           /\ e.has_pending = d.has_pending /\ e.pending_cta = d.pending_cta
           /\ e.slot_rem_warps = [d.slot_rem_warps EXCEPT ![s] = d.slot_rem_warps[s] - 1]
           /\ e.wid_to_slot = [d.wid_to_slot EXCEPT ![w] = NoSlot]
<1> DEFINE s == d.wid_to_slot[w]
           slot == [d.wid_to_slot EXCEPT ![w] = NoSlot]
           rem == [d.slot_rem_warps EXCEPT ![s] = d.slot_rem_warps[s] - 1]
           e == [d EXCEPT !.wid_to_slot = slot, !.slot_rem_warps = rem]
<1>0. d \in DispatcherType /\ w \in Warps
  BY DEF Sound
<1>1. /\ d.wid_to_slot \in [Warps -> Slots \cup {NoSlot}] /\ d.slot_rem_warps \in [Slots -> Nat]
      /\ d.rank \in Nat
  BY <1>0, DispatcherParts
<1>2. s \in Slots /\ s # NoSlot
  BY <1>0, <1>1 DEF Sound
<1>3. d.slot_rem_warps[s] - 1 \in Nat
  <2>1. w \in RunSet(d, s)
    BY <1>0 DEF RunSet
  <2>2. Cardinality(RunSet(d, s)) \in Nat /\ Cardinality(RunSet(d, s)) # 0
    BY <2>1, RunFinite
  <2>3. Left(d, s) \in Nat
    BY <1>1, CtaSizePositive DEF Left, Sound
  <2>4. d.slot_rem_warps[s] = Cardinality(RunSet(d, s)) + Left(d, s)
    BY <1>2 DEF Sound, Accounts
  <2> QED BY <2>2, <2>3, <2>4
<1>4. slot \in [Warps -> Slots \cup {NoSlot}] /\ rem \in [Slots -> Nat]
  BY <1>1, <1>3
<1>5. WarpDone(d, w) = [d EXCEPT !.wid_to_slot[w] = NoSlot, !.slot_rem_warps[s] = d.slot_rem_warps[s] - 1]
  BY <1>0, <1>2 DEF WarpDone, DispatcherType
<1>6. WarpDone(d, w) = e
  BY <1>0, <1>5 DEF DispatcherType
<1> HIDE DEF slot, rem
<1>7. /\ e \in DispatcherType /\ e.wid_to_slot = slot /\ e.slot_rem_warps = rem
      /\ e.has_cta = d.has_cta /\ e.rank = d.rank /\ e.cta = d.cta /\ e.cur_slot = d.cur_slot
      /\ e.has_pending = d.has_pending /\ e.pending_cta = d.pending_cta
  BY <1>0, <1>4 DEF DispatcherType
<1> QED BY <1>2, <1>6, <1>7 DEF slot, rem

LEMMA WarpDoneSound ==
    ASSUME NEW d, NEW act, Sound(d, act), NEW w \in act
    PROVE  Sound(WarpDone(d, w), act \ {w})
<1> DEFINE e == WarpDone(d, w)
           t == d.wid_to_slot[w]
<1>0. d \in DispatcherType /\ w \in Warps /\ act \subseteq Warps
  BY DEF Sound
<1>1. /\ e \in DispatcherType /\ t \in Slots
      /\ e.has_cta = d.has_cta /\ e.rank = d.rank /\ e.cta = d.cta /\ e.cur_slot = d.cur_slot
      /\ e.pending_cta = d.pending_cta
      /\ e.slot_rem_warps = [d.slot_rem_warps EXCEPT ![t] = d.slot_rem_warps[t] - 1]
      /\ e.wid_to_slot = [d.wid_to_slot EXCEPT ![w] = NoSlot]
  BY WarpDoneParts
<1>2. d.wid_to_slot \in [Warps -> Slots \cup {NoSlot}] /\ d.slot_rem_warps \in [Slots -> Nat]
  BY <1>0, DispatcherParts
<1> HIDE DEF e
<1>3. /\ e.wid_to_slot[w] = NoSlot
      /\ \A v \in Warps : v # w => e.wid_to_slot[v] = d.wid_to_slot[v]
  BY <1>0, <1>1, <1>2
<1>4. \A v \in Warps : v \in act \ {w} <=> e.wid_to_slot[v] # NoSlot
  BY <1>0, <1>3 DEF Sound
<1>5. Accounts(e)
  <2> SUFFICES ASSUME NEW s \in Slots PROVE e.slot_rem_warps[s] = Cardinality(RunSet(e, s)) + Left(e, s)
    BY DEF Accounts
  <2>0. /\ d.slot_rem_warps[s] = Cardinality(RunSet(d, s)) + Left(d, s) /\ Left(e, s) = Left(d, s)
        /\ d.slot_rem_warps[s] \in Nat
    BY <1>1, <1>2 DEF Sound, Accounts, Left
  <2>1. CASE s = t
    <3>1. RunSet(e, s) = RunSet(d, s) \ {w} /\ w \in RunSet(d, s)
      BY <1>0, <1>3, <2>1, WarpFacts DEF RunSet
    <3>2. Cardinality(RunSet(e, s)) = Cardinality(RunSet(d, s)) - 1 /\ Cardinality(RunSet(d, s)) \in Nat
      <4>1. IsFiniteSet(RunSet(d, s)) /\ Cardinality(RunSet(d, s)) \in Nat
        BY RunFinite
      <4>2. Cardinality(RunSet(d, s) \ {w})
              = IF w \in RunSet(d, s) THEN Cardinality(RunSet(d, s)) - 1 ELSE Cardinality(RunSet(d, s))
        BY <4>1, FS_RemoveElement, Zenon
      <4> QED BY <3>1, <4>1, <4>2
    <3>3. e.slot_rem_warps[s] = d.slot_rem_warps[s] - 1
      BY <1>1, <1>2, <2>1
    <3>4. Left(d, s) \in Int
      BY <1>0, CtaSizePositive, DispatcherParts DEF Left, Sound
    <3> HIDE DEF t
    <3> QED BY <2>0, <3>2, <3>3, <3>4
  <2>2. CASE s # t
    <3>1. RunSet(e, s) = RunSet(d, s)
      BY <1>0, <1>3, <2>2, WarpFacts DEF RunSet
    <3>2. e.slot_rem_warps[s] = d.slot_rem_warps[s]
      BY <1>1, <1>2, <2>2
    <3> QED BY <2>0, <3>1, <3>2
  <2> QED BY <2>1, <2>2
<1>6. Sound(e, act \ {w})
  BY <1>0, <1>1, <1>4, <1>5 DEF Sound
<1> QED BY <1>6 DEF e

(* find_first over the inactive warps: the choice is one of them. *)
LEMMA LowestFreeInactive ==
    ASSUME NEW act, act \subseteq Warps, act # Warps
    PROVE  LowestFree(act) \in Warps \ act
<1> DEFINE T == Warps \ act
           R == OpToRel(<, Nat)
<1>1. T \subseteq Nat /\ T # {}
  <2>1. Warps \subseteq Nat
    BY WarpFacts DEF Warps
  <2>2. T # {}
    OBVIOUS
  <2> QED BY <2>1, <2>2
<1>2. IsWellFoundedOn(R, Nat)
  BY NatLessThanWellFounded
<1> HIDE DEF R, T
<1>3. PICK x \in T : \A y \in T : ~(<<y, x>> \in R)
  BY <1>1, <1>2, WFMin, Zenon
<1>4. \A y \in T : x <= y
  <2> SUFFICES ASSUME NEW y \in T PROVE x <= y
    OBVIOUS
  <2>1. x \in Nat /\ y \in Nat
    BY <1>1
  <2>2. ~(y < x)
    BY <1>3, <2>1 DEF R, OpToRel
  <2> QED BY <2>1, <2>2
<1>5. \E w \in T : \A v \in T : w <= v
  BY <1>4
<1> QED BY <1>5 DEF LowestFree, T

LEMMA WarpRecordParts ==
    ASSUME NEW d \in DispatcherType, Good(d.cta.kernel), NEW w \in Warps
    PROVE  /\ WarpRecord(d, w) \in WarpType
           /\ WarpRecord(d, w).block_idx = d.cta.block_idx
           /\ WarpRecord(d, w).lmem_addr = d.cur_slot * Stride(d.cta.kernel)
<1> DEFINE size == CtaSize(d.cta.kernel)
           lanes == LaneCount(d)
           addr == d.cur_slot * Stride(d.cta.kernel)
           init == ~d.warp_init[w]
<1>1. d.cta.block_idx \in Dims
  BY DispatcherParts DEF CtaType
<1>2. size \in Nat /\ lanes \in 0 .. NumThreads
  BY CtaSizePositive, LanesLeft
<1>3. addr \in Nat
  <2>1. d.cur_slot \in Nat
    BY DispatcherParts, WarpFacts DEF Slots, Warps
  <2>2. Stride(d.cta.kernel) \in Nat
    BY StrideCovers DEF Good
  <2> QED BY <2>1, <2>2
<1>4. init \in BOOLEAN
  OBVIOUS
<1>5. WarpRecord(d, w) =
        [ block_idx |-> d.cta.block_idx, cta_id |-> d.cur_slot, cta_rank |-> d.rank, cta_size |-> size,
          thread_idx |-> d.thread_idx, lanes |-> lanes, lmem_addr |-> addr, do_init |-> init ]
  BY DEF WarpRecord
<1>6. d.cur_slot \in Slots /\ d.rank \in Nat /\ d.thread_idx \in Dims
  BY DispatcherParts
<1>7. addr = d.cur_slot * Stride(d.cta.kernel)
  OBVIOUS
<1> HIDE DEF size, lanes, addr, init
<1> QED BY <1>1, <1>2, <1>3, <1>4, <1>5, <1>6, <1>7 DEF WarpType

-----------------------------------------------------------------------------
(* Where the active warps of a core are placed: wr is the core's warp      *)
(* table, k the kernel of the launch.                                      *)

Placed(d, act, wr, k) ==
    /\ d.has_cta => d.cta.kernel = k
    /\ d.has_pending => d.pending_cta.kernel = k
    /\ \A w \in act : wr[w].lmem_addr = d.wid_to_slot[w] * Stride(k)
    /\ \A v, w \in act :
          d.wid_to_slot[v] = d.wid_to_slot[w] => wr[v].block_idx = wr[w].block_idx
    /\ \A w \in act :
          d.has_cta /\ d.wid_to_slot[w] = d.cur_slot => wr[w].block_idx = d.cta.block_idx

LEMMA ResetPlaced == \A wr, k : Placed(ResetDispatcher, {}, wr, k)
BY DEF Placed, ResetDispatcher

LEMMA LoadedPlaced ==
    ASSUME NEW d \in DispatcherType, NEW act, NEW wr, NEW k \in KmuType,
           Placed(d, act, wr, k.kernel)
    PROVE  Placed(Loaded(d, k), act, wr, k.kernel)
<1> DEFINE e == Loaded(d, k)
<1>1. /\ e.pending_cta = (IF d.has_pending THEN d.pending_cta ELSE KmuRequest(k))
      /\ e.has_cta = d.has_cta /\ e.cta = d.cta /\ e.cur_slot = d.cur_slot
      /\ e.wid_to_slot = d.wid_to_slot
  BY LoadedParts, Zenon
<1> HIDE DEF e
<1>2. e.pending_cta.kernel = k.kernel
  BY <1>1, KmuRequestType DEF Placed
<1>3. Placed(e, act, wr, k.kernel)
  BY <1>1, <1>2 DEF Placed
<1> QED BY <1>3 DEF e

LEMMA AdmittedPlaced ==
    ASSUME NEW d, NEW act, Sound(d, act), d.has_pending, WindowFree(d, d.pending_cta),
           NEW wr, NEW k, Placed(d, act, wr, k)
    PROVE  Placed(Admitted(d), act, wr, k)
<1> DEFINE e == Admitted(d)
           base == Base(d, d.pending_cta)
<1>0. d \in DispatcherType /\ Good(d.pending_cta.kernel) /\ d.pending_cta \in CtaType
  BY DispatcherParts DEF Sound
<1>1. /\ e.has_cta = TRUE /\ e.has_pending = FALSE /\ e.cta = d.pending_cta
      /\ e.cur_slot = base /\ e.wid_to_slot = d.wid_to_slot
  BY <1>0, AdmittedParts
<1>2. base \in Slots /\ d.slot_rem_warps[base] = 0
  BY <1>0, BaseInWindow DEF WindowFree
<1> HIDE DEF e, base
<1>3. \A w \in act : d.wid_to_slot[w] # base
  BY <1>2, FreeSlot
<1>4. e.cta.kernel = k
  BY <1>1 DEF Placed
<1>5. Placed(e, act, wr, k)
  BY <1>1, <1>3, <1>4 DEF Placed
<1> QED BY <1>5 DEF e

LEMMA NextWarpPlaced ==
    ASSUME NEW d, NEW act, Sound(d, act), d.has_cta, NEW w \in Warps \ act,
           NEW wr \in [Warps -> WarpType], NEW k, Placed(d, act, wr, k)
    PROVE  Placed(NextWarp(d, w), act \cup {w}, [wr EXCEPT ![w] = WarpRecord(d, w)], k)
<1> DEFINE e == NextWarp(d, w)
           r == WarpRecord(d, w)
           wr2 == [wr EXCEPT ![w] = r]
<1>0. d \in DispatcherType /\ Good(d.cta.kernel) /\ w \in Warps /\ w \notin act /\ act \subseteq Warps
  BY DEF Sound
<1>1. /\ e.has_pending = d.has_pending /\ e.pending_cta = d.pending_cta
      /\ e.cta = d.cta /\ e.cur_slot = d.cur_slot
      /\ e.wid_to_slot = [d.wid_to_slot EXCEPT ![w] = d.cur_slot]
  BY <1>0, NextWarpParts
<1>2. d.wid_to_slot \in [Warps -> Slots \cup {NoSlot}]
  BY <1>0, DispatcherParts
<1>3. r.block_idx = d.cta.block_idx /\ r.lmem_addr = d.cur_slot * Stride(k)
  BY <1>0, WarpRecordParts DEF Placed
<1> HIDE DEF e, r
<1>4. wr2[w] = r /\ \A v \in act : wr2[v] = wr[v]
  BY <1>0
<1>5. e.wid_to_slot[w] = d.cur_slot /\ \A v \in act : e.wid_to_slot[v] = d.wid_to_slot[v]
  BY <1>0, <1>1, <1>2
<1> HIDE DEF wr2
<1>6. /\ e.has_cta => e.cta.kernel = k
      /\ e.has_pending => e.pending_cta.kernel = k
  BY <1>1 DEF Placed
<1>7. \A v \in act \cup {w} : wr2[v].lmem_addr = e.wid_to_slot[v] * Stride(k)
  BY <1>3, <1>4, <1>5 DEF Placed
<1>8. \A v \in act \cup {w} : e.wid_to_slot[v] = d.cur_slot => wr2[v].block_idx = d.cta.block_idx
  BY <1>3, <1>4, <1>5 DEF Placed
<1>9. \A v, u \in act \cup {w} :
        e.wid_to_slot[v] = e.wid_to_slot[u] => wr2[v].block_idx = wr2[u].block_idx
  <2> SUFFICES ASSUME NEW v \in act \cup {w}, NEW u \in act \cup {w},
                      e.wid_to_slot[v] = e.wid_to_slot[u]
               PROVE  wr2[v].block_idx = wr2[u].block_idx
    OBVIOUS
  <2>1. CASE v = w \/ u = w
    BY <1>5, <1>8, <2>1
  <2>2. CASE v \in act /\ u \in act
    BY <1>4, <1>5, <2>2 DEF Placed
  <2> QED BY <2>1, <2>2
<1>10. Placed(e, act \cup {w}, wr2, k)
  BY <1>1, <1>6, <1>7, <1>8, <1>9 DEF Placed
<1> QED BY <1>10 DEF e, wr2, r

LEMMA WarpDonePlaced ==
    ASSUME NEW d, NEW act, Sound(d, act), NEW w \in act,
           NEW wr, NEW k, Placed(d, act, wr, k)
    PROVE  Placed(WarpDone(d, w), act \ {w}, wr, k)
<1> DEFINE e == WarpDone(d, w)
           t == d.wid_to_slot[w]
<1>1. /\ e \in DispatcherType /\ t \in Slots
      /\ e.has_cta = d.has_cta /\ e.rank = d.rank /\ e.cta = d.cta /\ e.cur_slot = d.cur_slot
      /\ e.has_pending = d.has_pending /\ e.pending_cta = d.pending_cta
      /\ e.slot_rem_warps = [d.slot_rem_warps EXCEPT ![t] = d.slot_rem_warps[t] - 1]
      /\ e.wid_to_slot = [d.wid_to_slot EXCEPT ![w] = NoSlot]
  BY WarpDoneParts
<1>2. d.wid_to_slot \in [Warps -> Slots \cup {NoSlot}] /\ act \subseteq Warps
  BY DispatcherParts DEF Sound
<1> HIDE DEF e
<1>3. \A v \in act \ {w} : e.wid_to_slot[v] = d.wid_to_slot[v]
  BY <1>1, <1>2
<1>4. Placed(e, act \ {w}, wr, k)
  BY <1>1, <1>3 DEF Placed
<1> QED BY <1>4 DEF e

(* The dispatcher that has a CTA in hand: Holding(c), for a dispatcher d   *)
(* and a KMU k.                                                            *)
Held(d, k) == IF d.has_cta THEN d ELSE Admitted(Loaded(d, k))

LEMMA HeldSound ==
    ASSUME NEW d, NEW act, Sound(d, act), NEW k \in KmuType, Good(k.kernel),
           NEW wr, Placed(d, act, wr, k.kernel),
           d.has_cta \/ WindowFree(d, Loaded(d, k).pending_cta)
    PROVE  /\ Sound(Held(d, k), act) /\ Placed(Held(d, k), act, wr, k.kernel)
           /\ Held(d, k).has_cta /\ Held(d, k) \in DispatcherType
<1>0. d \in DispatcherType
  BY DEF Sound
<1>1. CASE d.has_cta
  BY <1>0, <1>1 DEF Held
<1>2. CASE ~d.has_cta
  <2> DEFINE e == Loaded(d, k)
  <2>1. /\ e.has_cta = d.has_cta /\ e.has_pending = TRUE
        /\ e.tail_slot = d.tail_slot /\ e.slot_rem_warps = d.slot_rem_warps
    BY <1>0, LoadedParts
  <2>2. Sound(e, act) /\ Placed(e, act, wr, k.kernel)
    BY <1>0, LoadedSound, LoadedPlaced
  <2>3. Held(d, k) = Admitted(e)
    BY <1>2 DEF Held
  <2>4. WindowFree(d, e.pending_cta)
    BY <1>2
  <2> HIDE DEF e
  <2>5. WindowFree(e, e.pending_cta)
    BY <2>1, <2>4 DEF WindowFree, Window, Base, TailSlot
  <2>6. Sound(Admitted(e), act)
    BY <1>2, <2>1, <2>2, <2>5, AdmittedSound
  <2>7. Placed(Admitted(e), act, wr, k.kernel)
    BY <2>1, <2>2, <2>5, AdmittedPlaced
  <2>8. Admitted(e).has_cta
    BY <2>2, AdmittedParts DEF Sound
  <2> QED BY <2>3, <2>6, <2>7, <2>8 DEF Sound
<1> QED BY <1>1, <1>2

-----------------------------------------------------------------------------
(* The invariant.                                                          *)

OnCore(c) ==
    /\ Sound(disp[c], active[c])
    /\ Placed(disp[c], active[c], warp[c], kmu.kernel)

DispatchInv ==
    /\ kmu \in KmuType /\ Good(kmu.kernel)
    /\ disp \in [Cores -> DispatcherType]
    /\ active \in [Cores -> SUBSET Warps]
    /\ warp \in [Cores -> [Warps -> WarpType]]
    /\ launches \in 0 .. MaxLaunches
    /\ \A c \in Cores : OnCore(c)

LEMMA IdleWarpType == IdleWarp \in WarpType
<1>1. Zero \in Dims
  BY DEF Zero, Dims
<1>2. 0 \in 0 .. NumThreads /\ 0 \in Slots
  BY DispatchAssumption, WarpFacts
<1> QED BY <1>1, <1>2 DEF IdleWarp, WarpType

LEMMA InitInv == DispatchInit => DispatchInv
<1> SUFFICES ASSUME DispatchInit PROVE DispatchInv
  OBVIOUS
<1>1. kmu \in KmuType /\ Good(kmu.kernel)
  BY ResetKmuType DEF DispatchInit
<1>2. Sound(ResetDispatcher, {}) /\ ResetDispatcher \in DispatcherType
  BY ResetSound DEF Sound
<1>3. /\ disp \in [Cores -> DispatcherType] /\ active \in [Cores -> SUBSET Warps]
      /\ warp \in [Cores -> [Warps -> WarpType]]
  BY <1>2, IdleWarpType DEF DispatchInit
<1>4. launches \in 0 .. MaxLaunches
  BY DispatchAssumption DEF DispatchInit
<1>5. \A c \in Cores : disp[c] = ResetDispatcher /\ active[c] = {}
  BY DEF DispatchInit
<1>6. \A c \in Cores : OnCore(c)
  BY <1>2, <1>5, ResetPlaced DEF OnCore
<1> QED BY <1>1, <1>3, <1>4, <1>6 DEF DispatchInv

LEMMA LaunchInv ==
    ASSUME DispatchInv, NEW k \in Kernels, Launch(k)
    PROVE  DispatchInv'
<1>1. Good(k) /\ k \in Kernel
  BY GoodKernels DEF Good
<1>2. kmu' \in KmuType /\ Good(kmu'.kernel)
  <2> DEFINE run == BlockSize(k) > 0 /\ Volume(k.grid) > 0
  <2>1. run \in BOOLEAN /\ ResetKmu \in KmuType
    BY ResetKmuType
  <2>2. kmu' = [ResetKmu EXCEPT !.kernel = k, !.running = run]
    BY DEF Launch
  <2> HIDE DEF run
  <2>3. kmu' \in KmuType /\ kmu'.kernel = k
    BY <1>1, <2>1, <2>2 DEF KmuType
  <2> QED BY <1>1, <2>3
<1>3. Sound(ResetDispatcher, {}) /\ ResetDispatcher \in DispatcherType
  BY ResetSound DEF Sound
<1>4. /\ disp' \in [Cores -> DispatcherType] /\ active' \in [Cores -> SUBSET Warps]
      /\ warp' \in [Cores -> [Warps -> WarpType]]
  BY <1>3, IdleWarpType DEF Launch
<1>5. launches' \in 0 .. MaxLaunches
  BY DispatchAssumption DEF Launch, DispatchInv
<1>6. \A c \in Cores : disp'[c] = ResetDispatcher /\ active'[c] = {}
  BY DEF Launch
<1>7. \A c \in Cores : OnCore(c)'
  BY <1>3, <1>6, ResetPlaced DEF OnCore
<1> QED BY <1>2, <1>4, <1>5, <1>7 DEF DispatchInv

(* Fetching leaves the kernel of the launch alone. *)
LEMMA AfterLoad ==
    ASSUME DispatchInv, NEW c, kmu' = KmuAfterLoad(c)
    PROVE  kmu' \in KmuType /\ kmu'.kernel = kmu.kernel /\ Good(kmu'.kernel)
BY KmuAdvanceType DEF DispatchInv, KmuAfterLoad

(* A step of core c: the other cores' part of the invariant is untouched.  *)
LEMMA OneCoreMoves ==
    ASSUME DispatchInv, NEW c \in Cores, NEW d, NEW act, NEW wr,
           disp' = [disp EXCEPT ![c] = d], active' = [active EXCEPT ![c] = act],
           warp' = [warp EXCEPT ![c] = wr],
           kmu' \in KmuType, kmu'.kernel = kmu.kernel, launches' = launches,
           wr \in [Warps -> WarpType], Sound(d, act), Placed(d, act, wr, kmu.kernel)
    PROVE  DispatchInv'
<1>1. /\ disp \in [Cores -> DispatcherType] /\ active \in [Cores -> SUBSET Warps]
      /\ warp \in [Cores -> [Warps -> WarpType]] /\ Good(kmu'.kernel)
      /\ launches' \in 0 .. MaxLaunches
  BY DEF DispatchInv
<1>2. d \in DispatcherType /\ act \in SUBSET Warps
  BY DEF Sound
<1>3. /\ disp' \in [Cores -> DispatcherType] /\ active' \in [Cores -> SUBSET Warps]
      /\ warp' \in [Cores -> [Warps -> WarpType]]
  BY <1>1, <1>2
<1>4. ASSUME NEW e \in Cores
      PROVE  OnCore(e)'
  <2>1. CASE e = c
    <3>1. disp'[e] = d /\ active'[e] = act /\ warp'[e] = wr
      BY <1>1, <2>1
    <3> QED BY <3>1 DEF OnCore
  <2>2. CASE e # c
    <3>1. disp'[e] = disp[e] /\ active'[e] = active[e] /\ warp'[e] = warp[e]
      BY <1>1, <2>2
    <3> QED BY <3>1 DEF OnCore, DispatchInv
  <2> QED BY <2>1, <2>2
<1> QED BY <1>1, <1>3, <1>4 DEF DispatchInv

LEMMA StepInv ==
    ASSUME DispatchInv, NEW c \in Cores, DispatchStep(c)
    PROVE  DispatchInv'
<1> DEFINE d == disp[c]
           act == active[c]
           wr == warp[c]
<1>0. /\ kmu \in KmuType /\ Good(kmu.kernel)
      /\ disp \in [Cores -> DispatcherType] /\ active \in [Cores -> SUBSET Warps]
      /\ warp \in [Cores -> [Warps -> WarpType]]
      /\ Sound(d, act) /\ Placed(d, act, wr, kmu.kernel)
  BY DEF DispatchInv, OnCore
<1>1. wr \in [Warps -> WarpType] /\ d \in DispatcherType /\ act \subseteq Warps
  BY <1>0
<1>2. active = [active EXCEPT ![c] = act] /\ warp = [warp EXCEPT ![c] = wr]
  BY <1>0
<1>3. kmu' = KmuAfterLoad(c)
  BY DEF DispatchStep, StartNothing, StepBlocked, StepNoWarp, StartWarp
<1>4. kmu' \in KmuType /\ kmu'.kernel = kmu.kernel
  BY <1>3, AfterLoad
<1>5. Holding(c) = Held(d, kmu)
  BY DEF Holding, Held
<1>6. ~Blocked(c) =>
        /\ Sound(Holding(c), act) /\ Placed(Holding(c), act, wr, kmu.kernel)
        /\ Holding(c).has_cta /\ Holding(c) \in DispatcherType
  <2> SUFFICES ASSUME ~Blocked(c)
               PROVE  /\ Sound(Held(d, kmu), act) /\ Placed(Held(d, kmu), act, wr, kmu.kernel)
                      /\ Held(d, kmu).has_cta /\ Held(d, kmu) \in DispatcherType
    BY <1>5
  <2>1. d.has_cta \/ WindowFree(d, Loaded(d, kmu).pending_cta)
    BY DEF Blocked
  <2> QED BY <1>0, <2>1, HeldSound
<1>7. CASE StepBlocked(c) /\ UNCHANGED <<active, warp, launches, issued>>
  <2> DEFINE e == Loaded(d, kmu)
  <2>1. Sound(e, act) /\ Placed(e, act, wr, kmu.kernel)
    BY <1>0, <1>1, LoadedSound, LoadedPlaced
  <2>2. disp' = [disp EXCEPT ![c] = e] /\ launches' = launches
    BY <1>7 DEF StepBlocked
  <2>3. active' = [active EXCEPT ![c] = act] /\ warp' = [warp EXCEPT ![c] = wr]
    BY <1>2, <1>7
  <2> HIDE DEF e, d, act, wr
  <2> QED BY <1>1, <1>4, <2>1, <2>2, <2>3, OneCoreMoves
<1>8. CASE StepNoWarp(c) /\ UNCHANGED <<active, warp, launches, issued>>
  <2> DEFINE e == Holding(c)
  <2>1. Sound(e, act) /\ Placed(e, act, wr, kmu.kernel)
    BY <1>6, <1>8 DEF StepNoWarp
  <2>2. disp' = [disp EXCEPT ![c] = e] /\ launches' = launches
    BY <1>8 DEF StepNoWarp
  <2>3. active' = [active EXCEPT ![c] = act] /\ warp' = [warp EXCEPT ![c] = wr]
    BY <1>2, <1>8
  <2> HIDE DEF e, d, act, wr
  <2> QED BY <1>1, <1>4, <2>1, <2>2, <2>3, OneCoreMoves
<1>9. CASE StartWarp(c)
  <2> DEFINE h == Holding(c)
             w == LowestFree(act)
             e == NextWarp(h, w)
             act2 == act \cup {w}
             r == WarpRecord(h, w)
             wr2 == [wr EXCEPT ![w] = r]
  <2>1. Sound(h, act) /\ Placed(h, act, wr, kmu.kernel) /\ h.has_cta /\ h \in DispatcherType
    BY <1>6, <1>9 DEF StartWarp
  <2>2. w \in Warps \ act
    BY <1>1, <1>9, LowestFreeInactive DEF StartWarp
  <2>3. disp' = [disp EXCEPT ![c] = e] /\ launches' = launches /\ active' = [active EXCEPT ![c] = act2]
    BY <1>9 DEF StartWarp
  <2>4. warp' = [warp EXCEPT ![c][w] = r]
    BY <1>9 DEF StartWarp
  <2>5. warp' = [warp EXCEPT ![c] = wr2]
    BY <1>0, <2>4
  <2> HIDE DEF h, w, act, wr
  <2>6. r \in WarpType
    BY <2>1, <2>2, WarpRecordParts DEF Sound
  <2>7. Sound(e, act2)
    BY <2>1, <2>2, NextWarpSound
  <2>8. Placed(e, act2, wr2, kmu.kernel)
    BY <1>1, <2>1, <2>2, NextWarpPlaced
  <2> HIDE DEF e, r, act2
  <2>9. wr2 \in [Warps -> WarpType]
    BY <1>1, <2>6
  <2> HIDE DEF wr2
  <2> QED BY <1>4, <2>3, <2>5, <2>7, <2>8, <2>9, OneCoreMoves
<1> QED BY <1>7, <1>8, <1>9 DEF DispatchStep, StartNothing

LEMMA RetireInv ==
    ASSUME DispatchInv, NEW c \in Cores, NEW w, RetireWarp(c, w)
    PROVE  DispatchInv'
<1> DEFINE act == active[c]
           wr == warp[c]
           e == WarpDone(disp[c], w)
           act2 == act \ {w}
<1>0. /\ kmu \in KmuType /\ active \in [Cores -> SUBSET Warps]
      /\ warp \in [Cores -> [Warps -> WarpType]]
      /\ Sound(disp[c], act) /\ Placed(disp[c], act, wr, kmu.kernel)
  BY DEF DispatchInv, OnCore
<1>1. w \in act
  BY DEF RetireWarp
<1>2. Sound(e, act2) /\ Placed(e, act2, wr, kmu.kernel)
  BY <1>0, <1>1, WarpDoneSound, WarpDonePlaced
<1>3. /\ disp' = [disp EXCEPT ![c] = e] /\ active' = [active EXCEPT ![c] = act2]
      /\ launches' = launches /\ kmu' = kmu
  BY DEF RetireWarp
<1>4. warp' = [warp EXCEPT ![c] = wr] /\ wr \in [Warps -> WarpType]
  BY <1>0 DEF RetireWarp
<1> HIDE DEF act, wr, e, act2
<1> QED BY <1>0, <1>2, <1>3, <1>4, OneCoreMoves

LEMMA NextInv == DispatchInv /\ [DispatchNext]_dispatchVars => DispatchInv'
<1> SUFFICES ASSUME DispatchInv, [DispatchNext]_dispatchVars PROVE DispatchInv'
  OBVIOUS
<1>1. CASE UNCHANGED dispatchVars
  BY <1>1 DEF dispatchVars, DispatchInv, OnCore
<1>2. CASE \E k \in Kernels : Launch(k)
  BY <1>2, LaunchInv
<1>3. CASE \E c \in Cores : DispatchStep(c)
  BY <1>3, StepInv
<1>4. CASE \E c \in Cores, w \in Warps : RetireWarp(c, w)
  BY <1>4, RetireInv
<1> QED BY <1>1, <1>2, <1>3, <1>4 DEF DispatchNext

(* The steps alone, without fairness: what a system that runs the          *)
(* dispatchers among other things implements.                              *)
DispatchRuns == DispatchInit /\ [][DispatchNext]_dispatchVars

LEMMA SpecRuns == DispatchSpec => DispatchRuns
BY DEF DispatchSpec, DispatchRuns

LEMMA DispatchInvariant == DispatchRuns => []DispatchInv
BY InitInv, NextInv, PTL DEF DispatchRuns

-----------------------------------------------------------------------------
LEMMA TypesKept == DispatchRuns => []DispatchTypeOK
<1>1. DispatchInv => DispatchTypeOK
  BY DEF DispatchInv, DispatchTypeOK, KmuType
<1> QED BY <1>1, DispatchInvariant, PTL

(***************************************************************************)
(* The registers of the KMU and of the dispatchers keep their types for    *)
(* every kernel: CtaDispatcher never indexes slot_rem_warps_ or            *)
(* wid_to_slot_ out of bounds, and warp_done never takes a count below 0.  *)
(***************************************************************************)
THEOREM DispatchTypeCorrect == DispatchSpec => []DispatchTypeOK
BY TypesKept, SpecRuns, PTL

LEMMA SlotsKept == DispatchRuns => []SlotAccounting
<1>1. DispatchInv => SlotAccounting
  <2> SUFFICES ASSUME DispatchInv, NEW c \in Cores, NEW s \in Slots
               PROVE  disp[c].slot_rem_warps[s] = Cardinality(RunningIn(c, s)) + ToStart(c, s)
    BY DEF SlotAccounting
  <2>1. Accounts(disp[c])
    BY DEF DispatchInv, OnCore, Sound
  <2>2. RunningIn(c, s) = RunSet(disp[c], s) /\ ToStart(c, s) = Left(disp[c], s)
    BY DEF RunningIn, RunSet, ToStart, Left
  <2> QED BY <2>1, <2>2 DEF Accounts
<1> QED BY <1>1, DispatchInvariant, PTL

(***************************************************************************)
(* slot_rem_warps_ counts, at every moment, the warps of the slot that are *)
(* running and those step has still to start: a CTA's slot is never handed *)
(* to another while one of its warps may touch it, and never leaks.        *)
(***************************************************************************)
THEOREM SlotsAccounted == DispatchSpec => []SlotAccounting
BY SlotsKept, SpecRuns, PTL

(* Two slots are at least a stride apart. *)
LEMMA SlotsApart ==
    ASSUME NEW s \in Nat, NEW t \in Nat, NEW x \in Nat, s < t
    PROVE  s * x + x <= t * x
<1>1. PICK n \in Nat : t = s + 1 + n
  <2>1. t - s - 1 \in Nat /\ t = s + 1 + (t - s - 1)
    OBVIOUS
  <2> QED BY <2>1
<1>2. t * x = s * x + x + n * x
  BY <1>1
<1>3. n * x \in Nat /\ s * x \in Nat
  OBVIOUS
<1> QED BY <1>2, <1>3

LEMMA MemoryKept == DispatchRuns => []LmemDisjoint
<1>1. DispatchInv => LmemDisjoint
  <2> SUFFICES ASSUME DispatchInv, NEW c \in Cores, NEW v \in active[c], NEW w \in active[c],
                      warp[c][v].block_idx # warp[c][w].block_idx
               PROVE  \/ warp[c][v].lmem_addr + kmu.kernel.lmem_size <= warp[c][w].lmem_addr
                      \/ warp[c][w].lmem_addr + kmu.kernel.lmem_size <= warp[c][v].lmem_addr
    BY DEF LmemDisjoint
  <2> DEFINE d == disp[c]
             s == d.wid_to_slot[v]
             t == d.wid_to_slot[w]
             x == Stride(kmu.kernel)
             size == kmu.kernel.lmem_size
  <2>0. Sound(d, active[c]) /\ Placed(d, active[c], warp[c], kmu.kernel) /\ kmu.kernel \in Kernel
    BY DEF DispatchInv, OnCore, Good
  <2>1. s \in Nat /\ t \in Nat
    <3>1. d.wid_to_slot \in [Warps -> Slots \cup {NoSlot}] /\ v \in Warps /\ w \in Warps
      BY <2>0, DispatcherParts DEF Sound
    <3> QED BY <3>1, WarpFacts DEF Slots, Warps, NoSlot
  <2>2. x \in Nat /\ x >= size /\ size \in Nat
    BY <2>0, StrideCovers, KernelParts
  <2>3. warp[c][v].lmem_addr = s * x /\ warp[c][w].lmem_addr = t * x /\ s # t
    BY <2>0 DEF Placed
  <2> HIDE DEF s, t, x, size, d
  <2>4. CASE s < t
    BY <2>1, <2>2, <2>3, <2>4, SlotsApart DEF size
  <2>5. CASE t < s
    BY <2>1, <2>2, <2>3, <2>5, SlotsApart DEF size
  <2> QED BY <2>1, <2>3, <2>4, <2>5
<1> QED BY <1>1, DispatchInvariant, PTL

(***************************************************************************)
(* Warps of two CTAs on a core never share local memory: lmem_addr is the  *)
(* warp's slot times the stride, warps in one slot belong to one block,    *)
(* and the stride of next_warp is at least lmem_size.                      *)
(***************************************************************************)
THEOREM LocalMemoryDisjoint == DispatchSpec => []LmemDisjoint
BY MemoryKept, SpecRuns, PTL
-----------------------------------------------------------------------------
(* The threads of a warp: the odometer of next_warp.                       *)

(* The place of coordinates t in a block b, x first. *)
Place(t, b) == t[1] + b[1] * (t[2] + b[2] * t[3])

LEMMA DivUnique ==
    ASSUME NEW m \in Nat, NEW p \in Nat, NEW r \in Nat, r < m, NEW a \in Nat, a = m * p + r
    PROVE  a \div m = p
<1>1. PICK q \in Nat, v \in Nat : a = m * q + v /\ v < m /\ q = a \div m
  <2>1. a \div m \in Nat /\ a % m \in 0 .. m - 1 /\ a = m * (a \div m) + (a % m)
    BY Division
  <2> QED BY <2>1
<1> DEFINE k == p - q
<1>2. k \in Int /\ m * k = v - r
  BY <1>1
<1> HIDE DEF k
<1>3. k >= 1 => m * k >= m
  BY <1>2
<1>4. k <= -1 => m * k <= -m
  BY <1>2
<1>5. m * k \in Int
  BY <1>2
<1>6. k = 0
  BY <1>1, <1>2, <1>3, <1>4, <1>5
<1>7. p = q
  BY <1>1, <1>6 DEF k
<1> QED BY <1>1, <1>7

(* A number below the limit is its own remainder. *)
LEMMA SmallMod ==
    ASSUME NEW m \in Nat, NEW a \in Nat, a < m
    PROVE  a % m = a
<1>1. a \div m \in Nat /\ a % m \in 0 .. m - 1 /\ a = m * (a \div m) + (a % m)
  BY Division
<1>2. a = m * 0 + a
  OBVIOUS
<1>3. a \div m = 0
  BY <1>2, DivUnique
<1>4. m * (a \div m) = 0
  BY <1>3
<1> QED BY <1>1, <1>4

(* The host's division by a face of the block is two divisions. *)
LEMMA DivTwice ==
    ASSUME NEW n \in Nat, NEW a \in Nat, NEW b \in Nat, a > 0, b > 0
    PROVE  n \div (a * b) = (n \div a) \div b
<1>1. PICK q \in Nat, r \in Nat : n = a * q + r /\ r < a /\ q = n \div a
  <2>1. n \div a \in Nat /\ n % a \in 0 .. a - 1 /\ n = a * (n \div a) + (n % a)
    BY Division
  <2> QED BY <2>1
<1>2. PICK p \in Nat, s \in Nat : q = b * p + s /\ s < b /\ p = q \div b
  <2>1. q \div b \in Nat /\ q % b \in 0 .. b - 1 /\ q = b * (q \div b) + (q % b)
    BY Division
  <2> QED BY <2>1
<1>3. n = (a * b) * p + (a * s + r)
  <2>1. a * q = a * (b * p) + a * s
    BY <1>2
  <2>2. a * (b * p) = (a * b) * p
    OBVIOUS
  <2>3. a * s \in Nat /\ (a * b) * p \in Nat
    OBVIOUS
  <2> QED BY <1>1, <2>1, <2>2, <2>3
<1>4. a * s + r < a * b
  <2>1. PICK k \in Nat : b = s + 1 + k
    <3>1. b - s - 1 \in Nat /\ b = s + 1 + (b - s - 1)
      BY <1>2
    <3> QED BY <3>1
  <2>2. a * b = a * s + a + a * k
    BY <2>1
  <2>3. a * k \in Nat /\ a * s \in Nat
    OBVIOUS
  <2> QED BY <1>1, <2>2, <2>3
<1>5. a * b \in Nat /\ a * s + r \in Nat
  OBVIOUS
<1> DEFINE m == a * b
           v == a * s + r
<1>6. m \in Nat /\ v \in Nat /\ v < m /\ n = m * p + v
  BY <1>3, <1>4, <1>5
<1> HIDE DEF m, v
<1>7. n \div m = p
  BY <1>6, DivUnique
<1> QED BY <1>1, <1>2, <1>7 DEF m

(* One warp's threads, fewer than the block has, are WarpStep's digits. *)
LEMMA StepDigits ==
    ASSUME NEW k, Good(k), NumThreads < BlockSize(k)
    PROVE  LET s == WarpStep(k)
               b == k.block
           IN  /\ Place(s, b) = NumThreads
               /\ s[1] \in Nat /\ s[2] \in Nat /\ s[3] \in Nat /\ s[1] < b[1] /\ s[2] < b[2]
<1> DEFINE b1 == k.block[1]
           b2 == k.block[2]
           b3 == k.block[3]
           n == NumThreads
           s == WarpStep(k)
<1>1. b1 \in Nat /\ b2 \in Nat /\ b3 \in Nat /\ b1 > 0 /\ b2 > 0 /\ b3 > 0 /\ n \in Nat
  BY KernelParts, DimParts, DispatchAssumption DEF Good, Axes
<1>2. s[1] = n % b1 /\ s[2] = (n \div b1) % b2 /\ s[3] = (n \div (b1 * b2)) % b3
  BY DEF WarpStep, Axes
<1>3. n < (b1 * b2) * b3
  BY DEF BlockSize, Volume
<1> HIDE DEF b1, b2, b3, n, s
<1>4. PICK q \in Nat, r \in Nat : n = b1 * q + r /\ r < b1 /\ q = n \div b1 /\ r = n % b1
  <2>1. n \div b1 \in Nat /\ n % b1 \in 0 .. b1 - 1 /\ n = b1 * (n \div b1) + (n % b1)
    BY <1>1, Division
  <2> QED BY <1>1, <2>1
<1>5. PICK p \in Nat, t \in Nat : q = b2 * p + t /\ t < b2 /\ p = q \div b2 /\ t = q % b2
  <2>1. q \div b2 \in Nat /\ q % b2 \in 0 .. b2 - 1 /\ q = b2 * (q \div b2) + (q % b2)
    BY <1>1, Division
  <2> QED BY <1>1, <2>1
<1>6. n \div (b1 * b2) = p
  <2>1. n \div (b1 * b2) = (n \div b1) \div b2
    BY <1>1, DivTwice
  <2> QED BY <1>4, <1>5, <2>1, Zenon
<1>7. p < b3
  <2> SUFFICES ASSUME p >= b3 PROVE FALSE
    BY <1>1
  <2>1. PICK j \in Nat : p = b3 + j
    <3>1. p - b3 \in Nat /\ p = b3 + (p - b3)
      BY <1>1
    <3> QED BY <3>1
  <2>2. b1 * q = b1 * (b2 * p) + b1 * t
    BY <1>1, <1>5
  <2>3. b1 * (b2 * p) = (b1 * b2) * p
    BY <1>1
  <2>4. (b1 * b2) * p = (b1 * b2) * b3 + (b1 * b2) * j
    BY <1>1, <2>1
  <2>5. b1 * t \in Nat /\ (b1 * b2) * j \in Nat /\ (b1 * b2) * b3 \in Nat
    BY <1>1
  <2> QED BY <1>1, <1>3, <1>4, <2>2, <2>3, <2>4, <2>5
<1>8. p % b3 = p
  BY <1>1, <1>7, SmallMod
<1>9. s[1] = r /\ s[2] = t /\ s[3] = p
  BY <1>2, <1>4, <1>5, <1>6, <1>8
<1>10. n = r + b1 * (t + b2 * p)
  <2>1. t + b2 * p = q
    BY <1>1, <1>5
  <2>2. b1 * q \in Nat
    BY <1>1
  <2> QED BY <1>4, <2>1, <2>2
<1> QED BY <1>4, <1>5, <1>9, <1>10 DEF Place, b1, b2, b3, n, s

(* The warps of a CTA are as many as its threads need, and no more. *)
LEMMA CtaSizeBounds ==
    ASSUME NEW k, Good(k), NEW r \in Nat, r < CtaSize(k)
    PROVE  /\ r * NumThreads < BlockSize(k) /\ r * NumThreads \in Nat
           /\ (r + 1) * NumThreads = r * NumThreads + NumThreads
           /\ ~(r < CtaSize(k) - 1) => BlockSize(k) <= r * NumThreads + NumThreads
<1> DEFINE n == NumThreads
           B == BlockSize(k)
           x == B + n - 1
           c == CtaSize(k)
<1>1. n \in Nat /\ n > 0 /\ B \in Nat /\ c \in Nat
  BY CtaSizePositive, DispatchAssumption
<1>2. x \in Nat
  BY <1>1
<1>3. c = x \div n
  BY DEF CtaSize
<1>4. PICK v \in Nat : x = n * c + v /\ v < n
  <2> HIDE DEF x, n
  <2>1. x \div n \in Nat /\ x % n \in 0 .. n - 1 /\ x = n * (x \div n) + (x % n)
    BY <1>1, <1>2, Division
  <2> QED BY <1>1, <1>3, <2>1
<1>5. r < c
  OBVIOUS
<1>6. PICK j \in Nat : c = r + 1 + j
  <2>1. c - r - 1 \in Nat /\ c = r + 1 + (c - r - 1)
    BY <1>1, <1>5
  <2> QED BY <2>1
<1> HIDE DEF n, B, c
<1>7. n * c = r * n + n + n * j /\ (r + 1) * n = r * n + n
  BY <1>1, <1>6
<1>8. n * j \in Nat /\ r * n \in Nat
  BY <1>1
<1>9. r * n < B
  BY <1>1, <1>4, <1>7, <1>8
<1>10. ~(r < c - 1) => B <= r * n + n
  <2> SUFFICES ASSUME ~(r < c - 1) PROVE B <= r * n + n
    OBVIOUS
  <2>1. j = 0
    BY <1>1, <1>6
  <2>2. n * j = 0
    BY <1>1, <2>1
  <2> QED BY <1>1, <1>4, <1>7, <1>8, <2>2
<1> QED BY <1>7, <1>8, <1>9, <1>10 DEF n, B, c

(* A place inside the block has its z below the block's. *)
LEMMA HighDigit ==
    ASSUME NEW b1 \in Nat, NEW b2 \in Nat, NEW b3 \in Nat,
           NEW u1 \in Nat, NEW u2 \in Nat, NEW u3 \in Nat,
           u1 + b1 * (u2 + b2 * u3) < (b1 * b2) * b3
    PROVE  u3 < b3
<1> SUFFICES ASSUME u3 >= b3 PROVE FALSE
  OBVIOUS
<1>1. PICK j \in Nat : u3 = b3 + j
  <2>1. u3 - b3 \in Nat /\ u3 = b3 + (u3 - b3)
    OBVIOUS
  <2> QED BY <2>1
<1>2. b2 * u3 = b2 * b3 + b2 * j
  BY <1>1
<1>3. b2 * b3 \in Nat /\ b2 * j \in Nat /\ b2 * u3 \in Nat
  OBVIOUS
<1> DEFINE m == u2 + b2 * j
           f == b2 * b3
<1>4. u2 + b2 * u3 = f + m /\ m \in Nat /\ f \in Nat
  BY <1>2, <1>3
<1>5. b1 * f = (b1 * b2) * b3
  OBVIOUS
<1> HIDE DEF m, f
<1>6. b1 * (u2 + b2 * u3) = b1 * f + b1 * m
  BY <1>4
<1>7. b1 * f \in Nat /\ b1 * m \in Nat
  BY <1>4
<1> QED BY <1>5, <1>6, <1>7

(* next_warp moves thread_idx on by one warp, if the CTA has another. *)
LEMMA NextPlace ==
    ASSUME NEW d \in DispatcherType, Good(d.cta.kernel), d.rank + 1 < CtaSize(d.cta.kernel),
           Place(d.thread_idx, d.cta.kernel.block) = d.rank * NumThreads,
           \A i \in Axes : d.thread_idx[i] < d.cta.kernel.block[i]
    PROVE  /\ Place(NextThreadIdx(d), d.cta.kernel.block) = (d.rank + 1) * NumThreads
           /\ \A i \in Axes : NextThreadIdx(d)[i] < d.cta.kernel.block[i]
<1> DEFINE k == d.cta.kernel
           b == k.block
           b1 == b[1]
           b2 == b[2]
           b3 == b[3]
           s == WarpStep(k)
           t == d.thread_idx
           t1 == t[1]
           t2 == t[2]
           t3 == t[3]
           s1 == s[1]
           s2 == s[2]
           s3 == s[3]
           n == NumThreads
           r == d.rank
           u == NextThreadIdx(d)
           c1 == IF t1 + s1 >= b1 THEN 1 ELSE 0
           y == t2 + s2 + c1
           c2 == IF y >= b2 THEN 1 ELSE 0
           u1 == IF t1 + s1 >= b1 THEN (t1 + s1) - b1 ELSE t1 + s1
           u2 == IF y >= b2 THEN y - b2 ELSE y
           u3 == t3 + s3 + c2
<1>0. /\ r \in Nat /\ n \in Nat /\ n > 0 /\ BlockSize(k) \in Nat /\ t \in Dims /\ b \in Dims
  BY DispatcherParts, CtaSizePositive, KernelParts, DispatchAssumption DEF Good
<1>1. /\ b1 \in Nat /\ b2 \in Nat /\ b3 \in Nat /\ t1 \in Nat /\ t2 \in Nat /\ t3 \in Nat
      /\ t1 < b1 /\ t2 < b2
  BY <1>0, DimParts DEF Axes
<1>2. r + 1 < CtaSize(k) /\ r < CtaSize(k) /\ CtaSize(k) \in Nat
  BY <1>0, CtaSizePositive
<1>3. (r + 1) * n < BlockSize(k) /\ (r + 1) * n = r * n + n /\ r * n \in Nat
  <2>1. (r + 1) * n < BlockSize(k)
    BY <1>0, <1>2, CtaSizeBounds
  <2>2. (r + 1) * n = r * n + n /\ r * n \in Nat
    BY <1>0, <1>2, CtaSizeBounds
  <2> QED BY <2>1, <2>2
<1>4. n < BlockSize(k)
  BY <1>0, <1>3
<1>5. Place(s, b) = n /\ s1 \in Nat /\ s2 \in Nat /\ s3 \in Nat /\ s1 < b1 /\ s2 < b2
  BY <1>4, StepDigits
<1>6. BlockSize(k) = (b1 * b2) * b3
  BY DEF BlockSize, Volume
<1>7. u[1] = u1 /\ u[2] = u2 /\ u[3] = u3
  <2>1. u = [i \in Axes |-> CASE i = 1 -> u1 [] i = 2 -> u2 [] i = 3 -> u3]
    BY DEF NextThreadIdx
  <2> HIDE DEF u, u1, u2, u3
  <2> QED BY <2>1 DEF Axes
<1>8. Place(t, b) = t1 + b1 * (t2 + b2 * t3) /\ Place(s, b) = s1 + b1 * (s2 + b2 * s3)
      /\ Place(t, b) = r * n
  BY DEF Place
<1>9. Place(u, b) = u1 + b1 * (u2 + b2 * u3)
  BY <1>7 DEF Place
<1> HIDE DEF k, b, b1, b2, b3, s, t, t1, t2, t3, s1, s2, s3, n, r, u
<1>10. c1 \in Nat /\ u1 \in Nat /\ u1 < b1 /\ u1 + b1 * c1 = t1 + s1
  BY <1>1, <1>5
<1> HIDE DEF c1
<1>11. y \in Nat /\ (c1 = 0 \/ c1 = 1)
  BY <1>1, <1>5 DEF c1
<1>12. c2 \in Nat /\ u2 \in Nat /\ u2 < b2 /\ u2 + b2 * c2 = t2 + s2 + c1
  BY <1>1, <1>5, <1>11
<1> HIDE DEF u1, y, c2
<1>13. u3 \in Nat /\ u3 = t3 + s3 + c2
  BY <1>1, <1>5, <1>12
<1> HIDE DEF u2, u3
<1>14. u1 + b1 * (u2 + b2 * u3) = (t1 + b1 * (t2 + b2 * t3)) + (s1 + b1 * (s2 + b2 * s3))
  <2> DEFINE p == t2 + b2 * t3
             q == s2 + b2 * s3
             o == u2 + b2 * u3
  <2>1. b2 * u3 = b2 * t3 + b2 * s3 + b2 * c2
    BY <1>1, <1>5, <1>12, <1>13
  <2>2. b2 * t3 \in Nat /\ b2 * s3 \in Nat /\ b2 * c2 \in Nat /\ b2 * u3 \in Nat
    BY <1>1, <1>5, <1>12, <1>13
  <2>3. o = p + q + c1
    BY <1>1, <1>5, <1>10, <1>12, <2>1, <2>2
  <2>4. p \in Nat /\ q \in Nat
    BY <1>1, <1>5, <2>2
  <2> HIDE DEF p, q, o
  <2>5. b1 * o = b1 * p + b1 * q + b1 * c1
    BY <1>1, <1>10, <2>3, <2>4
  <2>6. b1 * p \in Nat /\ b1 * q \in Nat /\ b1 * c1 \in Nat
    BY <1>1, <1>10, <2>4
  <2>7. u1 + b1 * o = (t1 + b1 * p) + (s1 + b1 * q)
    BY <1>1, <1>5, <1>10, <2>5, <2>6
  <2> QED BY <2>7 DEF p, q, o
<1>15. u1 + b1 * (u2 + b2 * u3) = (r + 1) * n
  BY <1>0, <1>3, <1>5, <1>8, <1>14
<1>16. u3 < b3
  BY <1>1, <1>3, <1>6, <1>10, <1>12, <1>13, <1>15, HighDigit
<1>17. u[1] < b[1] /\ u[2] < b[2] /\ u[3] < b[3]
  BY <1>7, <1>10, <1>12, <1>16 DEF b1, b2, b3
<1>18. Place(u, b) = (r + 1) * n /\ \A i \in Axes : u[i] < b[i]
  BY <1>9, <1>15, <1>17 DEF Axes
<1> QED BY <1>18 DEF u, b, k, r, n

(* The place of the CTA in hand, and what a started warp was given. *)
AtRank(d) ==
    /\ Place(d.thread_idx, d.cta.kernel.block) = d.rank * NumThreads
    /\ \A i \in Axes : d.thread_idx[i] < d.cta.kernel.block[i]
    /\ d.block_size_rem = BlockSize(d.cta.kernel) - d.rank * NumThreads

Covers(r, k) ==
    /\ Place(r.thread_idx, k.block) = r.cta_rank * NumThreads
    /\ \A i \in Axes : r.thread_idx[i] < k.block[i]
    /\ r.lanes = IF r.cta_rank < r.cta_size - 1 THEN NumThreads
                 ELSE BlockSize(k) - r.cta_rank * NumThreads

Covered(d, act, wr, k) ==
    /\ d.has_cta => AtRank(d)
    /\ \A w \in act : Covers(wr[w], k)

LEMMA AdmittedThreads ==
    ASSUME NEW d \in DispatcherType
    PROVE  /\ Admitted(d).thread_idx = Zero
           /\ Admitted(d).block_size_rem = BlockSize(d.pending_cta.kernel)
<1> DEFINE base == Base(d, d.pending_cta)
           size == CtaSize(d.pending_cta.kernel)
           tail == (base + 1) % UsableSlots(Stride(d.pending_cta.kernel))
           bs == BlockSize(d.pending_cta.kernel)
<1>1. Admitted(d) = [d EXCEPT !.has_cta = TRUE, !.has_pending = FALSE, !.cta = d.pending_cta,
                              !.rank = 0, !.block_size_rem = bs, !.thread_idx = Zero,
                              !.cur_slot = base, !.slot_rem_warps[base] = size, !.tail_slot = tail]
  BY DEF Admitted
<1> HIDE DEF base, size, tail, bs
<1>2. Admitted(d).thread_idx = Zero /\ Admitted(d).block_size_rem = bs
  BY <1>1 DEF DispatcherType
<1> QED BY <1>2 DEF bs

LEMMA NextWarpThreads ==
    ASSUME NEW d \in DispatcherType, NEW w
    PROVE  /\ NextWarp(d, w).thread_idx = NextThreadIdx(d)
           /\ NextWarp(d, w).block_size_rem = d.block_size_rem - LaneCount(d)
<1> DEFINE idx == NextThreadIdx(d)
           lanes == LaneCount(d)
           more == d.rank + 1 < CtaSize(d.cta.kernel)
<1>1. NextWarp(d, w) = [d EXCEPT !.rank = @ + 1, !.has_cta = more, !.thread_idx = idx,
                                 !.block_size_rem = @ - lanes, !.warp_init[w] = TRUE,
                                 !.wid_to_slot[w] = d.cur_slot]
  BY DEF NextWarp
<1> HIDE DEF idx, lanes, more
<1>2. NextWarp(d, w).thread_idx = idx /\ NextWarp(d, w).block_size_rem = d.block_size_rem - lanes
  BY <1>1 DEF DispatcherType
<1> QED BY <1>2 DEF idx, lanes

LEMMA WarpDoneThreads ==
    ASSUME NEW d \in DispatcherType, NEW w
    PROVE  /\ WarpDone(d, w).has_cta = d.has_cta /\ WarpDone(d, w).cta = d.cta
           /\ WarpDone(d, w).rank = d.rank /\ WarpDone(d, w).thread_idx = d.thread_idx
           /\ WarpDone(d, w).block_size_rem = d.block_size_rem
BY DEF WarpDone, DispatcherType

(* A CTA just admitted stands at thread 0. *)
LEMMA AdmittedAtRank ==
    ASSUME NEW d \in DispatcherType, Good(d.pending_cta.kernel)
    PROVE  AtRank(Admitted(d))
<1> DEFINE e == Admitted(d)
           b == d.pending_cta.kernel.block
<1>1. /\ e.thread_idx = Zero /\ e.block_size_rem = BlockSize(d.pending_cta.kernel)
      /\ e.rank = 0 /\ e.cta = d.pending_cta
  BY AdmittedThreads, AdmittedParts
<1>2. b \in Dims /\ \A i \in Axes : b[i] > 0
  BY KernelParts DEF Good
<1>3. b[1] \in Nat /\ b[2] \in Nat /\ BlockSize(d.pending_cta.kernel) \in Nat /\ NumThreads \in Nat
  BY <1>2, DimParts, CtaSizePositive, DispatchAssumption
<1>4. Zero[1] = 0 /\ Zero[2] = 0 /\ Zero[3] = 0 /\ \A i \in Axes : Zero[i] = 0
  BY DEF Zero, Axes
<1>5. Place(Zero, b) = 0 * NumThreads
  BY <1>3, <1>4 DEF Place
<1>6. BlockSize(d.pending_cta.kernel) = BlockSize(d.pending_cta.kernel) - 0 * NumThreads
  BY <1>3
<1> HIDE DEF e
<1>7. AtRank(e)
  BY <1>1, <1>2, <1>4, <1>5, <1>6 DEF AtRank
<1> QED BY <1>7 DEF e

(* What next_warp hands to the scheduler, and where it leaves the CTA. *)
LEMMA NextWarpCovers ==
    ASSUME NEW d \in DispatcherType, Good(d.cta.kernel), d.rank < CtaSize(d.cta.kernel),
           AtRank(d), NEW w \in Warps
    PROVE  /\ Covers(WarpRecord(d, w), d.cta.kernel)
           /\ NextWarp(d, w).has_cta => AtRank(NextWarp(d, w))
<1> DEFINE k == d.cta.kernel
           e == NextWarp(d, w)
           r == WarpRecord(d, w)
           n == NumThreads
           B == BlockSize(k)
           m == d.rank * n
           c == CtaSize(k)
<1>0. d.rank \in Nat /\ d.rank < c /\ c \in Nat /\ n \in Nat /\ n > 0 /\ B \in Nat
  BY DispatcherParts, CtaSizePositive, DispatchAssumption
<1>1. m \in Nat /\ m < B /\ (d.rank + 1) * n = m + n
  BY <1>0, CtaSizeBounds
<1>2. ~(d.rank < c - 1) => B <= m + n
  BY <1>0, CtaSizeBounds
<1>3. d.rank + 1 < c => m + n < B
  <2> SUFFICES ASSUME d.rank + 1 < c PROVE m + n < B
    OBVIOUS
  <2>1. d.rank + 1 \in Nat
    BY <1>0
  <2>2. (d.rank + 1) * n < B
    BY <2>1, CtaSizeBounds
  <2> QED BY <1>1, <2>2
<1>4. d.block_size_rem = B - m
  BY DEF AtRank
<1>5. LaneCount(d) = IF B - m >= n THEN n ELSE B - m
  BY <1>4 DEF LaneCount
<1>6. LaneCount(d) = IF d.rank < c - 1 THEN n ELSE B - m
  <2> HIDE DEF m, n, B, c
  <2>1. CASE d.rank < c - 1
    BY <1>0, <1>1, <1>3, <1>5, <2>1
  <2>2. CASE ~(d.rank < c - 1)
    <3>1. B - m <= n
      BY <1>0, <1>1, <1>2, <2>2
    <3> QED BY <1>0, <1>1, <1>5, <2>2, <3>1
  <2> QED BY <2>1, <2>2
<1>7. r.thread_idx = d.thread_idx /\ r.cta_rank = d.rank /\ r.cta_size = c /\ r.lanes = LaneCount(d)
  BY DEF WarpRecord
<1>8. Covers(r, k)
  <2> HIDE DEF r
  <2> QED BY <1>6, <1>7 DEF Covers, AtRank
<1>9. ASSUME e.has_cta PROVE AtRank(e)
  <2>1. e.has_cta = (d.rank + 1 < c) /\ e.rank = d.rank + 1 /\ e.cta = d.cta
    BY NextWarpParts
  <2>2. e.thread_idx = NextThreadIdx(d) /\ e.block_size_rem = d.block_size_rem - LaneCount(d)
    BY NextWarpThreads
  <2>3. d.rank + 1 < c
    BY <1>9, <2>1
  <2>4. /\ Place(NextThreadIdx(d), k.block) = (d.rank + 1) * n
        /\ \A i \in Axes : NextThreadIdx(d)[i] < k.block[i]
    BY <2>3, NextPlace DEF AtRank
  <2>5. d.rank < c - 1
    BY <1>0, <2>3
  <2> HIDE DEF e, m, B
  <2>6. d.block_size_rem - LaneCount(d) = B - (m + n)
    BY <1>0, <1>1, <1>4, <1>6, <2>5
  <2>7. d.block_size_rem - LaneCount(d) = B - (d.rank + 1) * n
    BY <1>1, <2>6
  <2> QED BY <2>1, <2>2, <2>4, <2>7 DEF AtRank, B
<1> QED BY <1>8, <1>9

CoverInv == \A c \in Cores : Covered(disp[c], active[c], warp[c], kmu.kernel)

(* The CTA in hand stands at its rank, whether it was just admitted or not. *)
LEMMA HeldAtRank ==
    ASSUME NEW d, NEW act, Sound(d, act), NEW k \in KmuType, Good(k.kernel), d.has_cta => AtRank(d)
    PROVE  AtRank(Held(d, k))
<1>1. CASE d.has_cta
  BY <1>1 DEF Held
<1>2. CASE ~d.has_cta
  <2>1. Sound(Loaded(d, k), act)
    BY LoadedSound
  <2>2. AtRank(Admitted(Loaded(d, k)))
    BY <2>1, AdmittedAtRank DEF Sound
  <2> QED BY <1>2, <2>2 DEF Held
<1> QED BY <1>1, <1>2

LEMMA OneCoreCovers ==
    ASSUME DispatchInv, CoverInv, NEW c \in Cores, NEW d, NEW act, NEW wr,
           disp' = [disp EXCEPT ![c] = d], active' = [active EXCEPT ![c] = act],
           warp' = [warp EXCEPT ![c] = wr], kmu'.kernel = kmu.kernel,
           Covered(d, act, wr, kmu.kernel)
    PROVE  CoverInv'
<1>1. /\ disp \in [Cores -> DispatcherType] /\ active \in [Cores -> SUBSET Warps]
      /\ warp \in [Cores -> [Warps -> WarpType]]
  BY DEF DispatchInv
<1>2. ASSUME NEW e \in Cores
      PROVE  Covered(disp'[e], active'[e], warp'[e], kmu'.kernel)
  <2>1. CASE e = c
    <3>1. disp'[e] = d /\ active'[e] = act /\ warp'[e] = wr
      BY <1>1, <2>1
    <3> QED BY <3>1
  <2>2. CASE e # c
    <3>1. disp'[e] = disp[e] /\ active'[e] = active[e] /\ warp'[e] = warp[e]
      BY <1>1, <2>2
    <3> QED BY <3>1 DEF CoverInv
  <2> QED BY <2>1, <2>2
<1> QED BY <1>2 DEF CoverInv

LEMMA StepCovers ==
    ASSUME DispatchInv, CoverInv, NEW c \in Cores, DispatchStep(c)
    PROVE  CoverInv'
<1> DEFINE d == disp[c]
           act == active[c]
           wr == warp[c]
<1>0. /\ kmu \in KmuType /\ Good(kmu.kernel) /\ d \in DispatcherType
      /\ active \in [Cores -> SUBSET Warps] /\ warp \in [Cores -> [Warps -> WarpType]]
      /\ wr \in [Warps -> WarpType] /\ act \subseteq Warps
      /\ Sound(d, act) /\ Placed(d, act, wr, kmu.kernel)
  BY DEF DispatchInv, OnCore
<1>1. (d.has_cta => AtRank(d)) /\ \A w \in act : Covers(wr[w], kmu.kernel)
  BY DEF CoverInv, Covered
<1>2. active = [active EXCEPT ![c] = act] /\ warp = [warp EXCEPT ![c] = wr]
  BY <1>0
<1>3. kmu' = KmuAfterLoad(c)
  BY DEF DispatchStep, StartNothing, StepBlocked, StepNoWarp, StartWarp
<1>4. kmu'.kernel = kmu.kernel
  BY <1>3, AfterLoad
<1>5. Holding(c) = Held(d, kmu) /\ AtRank(Holding(c))
  <2>1. AtRank(Held(d, kmu))
    BY <1>0, <1>1, HeldAtRank
  <2> QED BY <2>1 DEF Holding, Held
<1>6. CASE StepBlocked(c) /\ UNCHANGED <<active, warp, launches, issued>>
  <2> DEFINE e == Loaded(d, kmu)
  <2>1. ~d.has_cta /\ e.has_cta = d.has_cta
    BY <1>0, <1>6, LoadedParts DEF StepBlocked, Blocked
  <2>2. Covered(e, act, wr, kmu.kernel)
    BY <1>1, <2>1 DEF Covered
  <2>3. disp' = [disp EXCEPT ![c] = e]
    BY <1>6 DEF StepBlocked
  <2>4. active' = [active EXCEPT ![c] = act] /\ warp' = [warp EXCEPT ![c] = wr]
    BY <1>2, <1>6
  <2> HIDE DEF e, d, act, wr
  <2> QED BY <1>4, <2>2, <2>3, <2>4, OneCoreCovers
<1>7. CASE StepNoWarp(c) /\ UNCHANGED <<active, warp, launches, issued>>
  <2> DEFINE e == Holding(c)
  <2>1. Covered(e, act, wr, kmu.kernel)
    BY <1>1, <1>5 DEF Covered
  <2>2. disp' = [disp EXCEPT ![c] = e]
    BY <1>7 DEF StepNoWarp
  <2>3. active' = [active EXCEPT ![c] = act] /\ warp' = [warp EXCEPT ![c] = wr]
    BY <1>2, <1>7
  <2> HIDE DEF e, d, act, wr
  <2> QED BY <1>4, <2>1, <2>2, <2>3, OneCoreCovers
<1>8. CASE StartWarp(c)
  <2> DEFINE h == Holding(c)
             w == LowestFree(act)
             e == NextWarp(h, w)
             act2 == act \cup {w}
             r == WarpRecord(h, w)
             wr2 == [wr EXCEPT ![w] = r]
  <2>1. Sound(h, act) /\ Placed(h, act, wr, kmu.kernel) /\ h.has_cta /\ h \in DispatcherType
    <3>1. d.has_cta \/ WindowFree(d, Loaded(d, kmu).pending_cta)
      BY <1>8 DEF StartWarp, Blocked
    <3>2. /\ Sound(Held(d, kmu), act) /\ Placed(Held(d, kmu), act, wr, kmu.kernel)
          /\ Held(d, kmu).has_cta /\ Held(d, kmu) \in DispatcherType
      BY <1>0, <3>1, HeldSound
    <3> QED BY <1>5, <3>2
  <2>2. w \in Warps /\ w \notin act
    BY <1>0, <1>8, LowestFreeInactive DEF StartWarp
  <2>3. disp' = [disp EXCEPT ![c] = e] /\ active' = [active EXCEPT ![c] = act2]
    BY <1>8 DEF StartWarp
  <2>4. warp' = [warp EXCEPT ![c][w] = r]
    BY <1>8 DEF StartWarp
  <2>5. warp' = [warp EXCEPT ![c] = wr2]
    BY <1>0, <2>4
  <2>6. AtRank(h)
    BY <1>5
  <2> HIDE DEF h, w, act, wr
  <2>7. Good(h.cta.kernel) /\ h.rank < CtaSize(h.cta.kernel) /\ h.cta.kernel = kmu.kernel
    BY <2>1 DEF Sound, Placed
  <2>8. Covers(r, kmu.kernel) /\ (e.has_cta => AtRank(e))
    <3>1. Covers(r, h.cta.kernel) /\ (e.has_cta => AtRank(e))
      BY <2>1, <2>2, <2>6, <2>7, NextWarpCovers
    <3> QED BY <2>7, <3>1
  <2> HIDE DEF e, r
  <2>9. wr2[w] = r /\ \A v \in act : wr2[v] = wr[v]
    BY <1>0, <2>2
  <2> HIDE DEF wr2
  <2>10. Covered(e, act2, wr2, kmu.kernel)
    BY <1>1, <2>8, <2>9 DEF Covered
  <2> HIDE DEF act2
  <2> QED BY <1>4, <2>3, <2>5, <2>10, OneCoreCovers
<1> QED BY <1>6, <1>7, <1>8 DEF DispatchStep, StartNothing

LEMMA RetireCovers ==
    ASSUME DispatchInv, CoverInv, NEW c \in Cores, NEW w, RetireWarp(c, w)
    PROVE  CoverInv'
<1> DEFINE d == disp[c]
           act == active[c]
           wr == warp[c]
           e == WarpDone(d, w)
           act2 == act \ {w}
<1>0. /\ warp \in [Cores -> [Warps -> WarpType]] /\ Sound(d, act) /\ d \in DispatcherType
  BY DEF DispatchInv, OnCore
<1>1. (d.has_cta => AtRank(d)) /\ \A v \in act : Covers(wr[v], kmu.kernel)
  BY DEF CoverInv, Covered
<1>2. w \in act
  BY DEF RetireWarp
<1>3. /\ e.has_cta = d.has_cta /\ e.rank = d.rank /\ e.cta = d.cta
      /\ e.thread_idx = d.thread_idx /\ e.block_size_rem = d.block_size_rem
  BY <1>0, WarpDoneThreads
<1>4. /\ disp' = [disp EXCEPT ![c] = e] /\ active' = [active EXCEPT ![c] = act2]
      /\ kmu' = kmu
  BY DEF RetireWarp
<1>5. warp' = [warp EXCEPT ![c] = wr]
  BY <1>0 DEF RetireWarp
<1> HIDE DEF e, d, act, wr
<1>6. Covered(e, act2, wr, kmu.kernel)
  BY <1>1, <1>3 DEF Covered, AtRank
<1> HIDE DEF act2
<1> QED BY <1>4, <1>5, <1>6, OneCoreCovers

LEMMA CoverInvariant == DispatchRuns => []CoverInv
<1>1. DispatchInit => CoverInv
  BY DEF DispatchInit, CoverInv, Covered, ResetDispatcher
<1>2. DispatchInv /\ CoverInv /\ [DispatchNext]_dispatchVars => CoverInv'
  <2> SUFFICES ASSUME DispatchInv, CoverInv, [DispatchNext]_dispatchVars PROVE CoverInv'
    OBVIOUS
  <2>1. CASE UNCHANGED dispatchVars
    BY <2>1 DEF dispatchVars, CoverInv
  <2>2. CASE \E k \in Kernels : Launch(k)
    BY <2>2 DEF Launch, CoverInv, Covered, ResetDispatcher
  <2>3. CASE \E c \in Cores : DispatchStep(c)
    BY <2>3, StepCovers
  <2>4. CASE \E c \in Cores, w \in Warps : RetireWarp(c, w)
    BY <2>4, RetireCovers
  <2> QED BY <2>1, <2>2, <2>3, <2>4 DEF DispatchNext
<1> QED BY <1>1, <1>2, DispatchInvariant, PTL DEF DispatchRuns

LEMMA ThreadsKept == DispatchRuns => []WarpCoversItsThreads
<1>1. CoverInv => WarpCoversItsThreads
  <2> SUFFICES ASSUME CoverInv, NEW c \in Cores, NEW w \in Dispatched(c)
               PROVE  LET r == warp[c][w]
                          b == kmu.kernel.block
                          t == r.thread_idx
                      IN  /\ t[1] + b[1] * (t[2] + b[2] * t[3]) = r.cta_rank * NumThreads
                          /\ t[1] < b[1] /\ t[2] < b[2] /\ t[3] < b[3]
                          /\ r.lanes = IF r.cta_rank < r.cta_size - 1 THEN NumThreads
                                       ELSE BlockSize(kmu.kernel) - r.cta_rank * NumThreads
    BY DEF WarpCoversItsThreads
  <2>1. Covers(warp[c][w], kmu.kernel)
    BY DEF CoverInv, Covered, Dispatched
  <2> QED BY <2>1 DEF Covers, Place, Axes
<1> QED BY <1>1, CoverInvariant, PTL

(***************************************************************************)
(* For every block shape and warp width: the warp of rank r starts at      *)
(* thread r * NumThreads of its block, with coordinates inside the block,  *)
(* and the lanes of a CTA's warps are its threads, none missing and none   *)
(* twice, although next_warp only ever adds warp_step and carries once per *)
(* axis (the step in z is right only because a second warp exists).        *)
(***************************************************************************)
THEOREM WarpsCoverTheirThreads == DispatchSpec => []WarpCoversItsThreads
BY ThreadsKept, SpecRuns, PTL
-----------------------------------------------------------------------------
(* The walk of the grid.  A three-digit odometer whose digits advance by   *)
(* a step up to a limit; the first digit is the fastest.                   *)

Multiple(x, s) == \E a \in Nat : x = s * a

Reading(p, step, limit) ==
    /\ p \in Dims
    /\ \A i \in Axes : p[i] < limit[i] /\ Multiple(p[i], step[i])

Earlier(x, p) ==
    \/ x[3] < p[3]
    \/ x[3] = p[3] /\ x[2] < p[2]
    \/ x[3] = p[3] /\ x[2] = p[2] /\ x[1] < p[1]

(* Two multiples of a number are at least that number apart. *)
LEMMA MultiplesApart ==
    ASSUME NEW s \in Nat, NEW x \in Nat, NEW p \in Nat, Multiple(x, s), Multiple(p, s), p < x
    PROVE  p + s <= x
<1>1. PICK a \in Nat : x = s * a
  BY DEF Multiple
<1>2. PICK b \in Nat : p = s * b
  BY DEF Multiple
<1>3. b < a
  <2> SUFFICES ASSUME a <= b PROVE FALSE
    BY <1>1, <1>2
  <2>1. PICK n \in Nat : b = a + n
    <3>1. b - a \in Nat /\ b = a + (b - a)
      OBVIOUS
    <3> QED BY <3>1
  <2>2. s * b = s * a + s * n /\ s * n \in Nat /\ s * a \in Nat
    BY <2>1
  <2> QED BY <1>1, <1>2, <2>2
<1>4. PICK n \in Nat : a = b + 1 + n
  <2>1. a - b - 1 \in Nat /\ a = b + 1 + (a - b - 1)
    BY <1>3
  <2> QED BY <2>1
<1>5. s * a = s * b + s + s * n /\ s * n \in Nat
  BY <1>4
<1> QED BY <1>1, <1>2, <1>5

(* One digit: another reading of it is at most p[i], or at least a step    *)
(* beyond; none is beyond a digit that wraps.                              *)
LEMMA OneDigit ==
    ASSUME NEW step \in Dims, NEW limit \in Dims, NEW p, NEW x, NEW i \in Axes,
           step[i] > 0, Multiple(limit[i], step[i]),
           Reading(p, step, limit), Reading(x, step, limit)
    PROVE  /\ p[i] \in Nat /\ x[i] \in Nat /\ step[i] \in Nat /\ limit[i] \in Nat
           /\ p[i] + step[i] <= limit[i]
           /\ x[i] < p[i] + step[i] <=> x[i] <= p[i]
           /\ Wraps(p, step, limit, i) => x[i] <= p[i]
<1>1. p[i] \in Nat /\ x[i] \in Nat /\ step[i] \in Nat /\ limit[i] \in Nat
  BY DEF Reading, Dims
<1>2. p[i] + step[i] <= limit[i]
  BY <1>1, MultiplesApart DEF Reading
<1>3. p[i] < x[i] => p[i] + step[i] <= x[i]
  BY <1>1, MultiplesApart DEF Reading
<1>4. x[i] < limit[i]
  BY DEF Reading
<1> QED BY <1>1, <1>2, <1>3, <1>4 DEF Wraps

(* The next reading is the successor of p: what is before it is p and what *)
(* is before p.  When all digits wrap, p was the last.                     *)
LEMMA AdvanceIsNext ==
    ASSUME NEW step \in Dims, NEW limit \in Dims, NEW p, NEW x,
           \A i \in Axes : step[i] > 0 /\ Multiple(limit[i], step[i]),
           Reading(p, step, limit), Reading(x, step, limit)
    PROVE  /\ ~(\A i \in Axes : Wraps(p, step, limit, i)) =>
                (Earlier(x, Advance(p, step, limit)) <=> Earlier(x, p) \/ x = p)
           /\ (\A i \in Axes : Wraps(p, step, limit, i)) =>
                (Earlier(x, p) \/ x = p) /\ Advance(p, step, limit) = Zero
<1> DEFINE q == Advance(p, step, limit)
           W(i) == Wraps(p, step, limit, i)
<1>1. \A i \in Axes :
        /\ p[i] \in Nat /\ x[i] \in Nat /\ step[i] \in Nat /\ limit[i] \in Nat
        /\ x[i] < p[i] + step[i] <=> x[i] <= p[i]
        /\ W(i) => x[i] <= p[i]
  BY OneDigit
<1>2. x = p <=> x[1] = p[1] /\ x[2] = p[2] /\ x[3] = p[3]
  BY DEF Reading, Dims, Axes
<1>3. /\ q[1] = IF W(1) THEN 0 ELSE p[1] + step[1]
      /\ q[2] = IF ~W(1) THEN p[2] ELSE IF W(2) THEN 0 ELSE p[2] + step[2]
      /\ q[3] = IF ~W(1) \/ ~W(2) THEN p[3] ELSE IF W(3) THEN 0 ELSE p[3] + step[3]
  BY DEF Advance, Axes
<1>4. \A i \in Axes : i = 1 \/ i = 2 \/ i = 3
  BY DEF Axes
<1>5. 1 \in Axes /\ 2 \in Axes /\ 3 \in Axes
  BY DEF Axes
<1>6. (\A i \in Axes : W(i)) => q = Zero
  BY DEF Advance, Zero
<1> HIDE DEF q, W
<1>7. PICK x1 \in Nat, x2 \in Nat, x3 \in Nat, p1 \in Nat, p2 \in Nat, p3 \in Nat,
           s1 \in Nat, s2 \in Nat, s3 \in Nat :
        /\ x1 = x[1] /\ x2 = x[2] /\ x3 = x[3] /\ p1 = p[1] /\ p2 = p[2] /\ p3 = p[3]
        /\ s1 = step[1] /\ s2 = step[2] /\ s3 = step[3]
  BY <1>1, <1>5
<1>8. /\ x1 < p1 + s1 <=> x1 <= p1
      /\ x2 < p2 + s2 <=> x2 <= p2
      /\ x3 < p3 + s3 <=> x3 <= p3
      /\ (W(1) => x1 <= p1) /\ (W(2) => x2 <= p2) /\ (W(3) => x3 <= p3)
  BY <1>1, <1>5, <1>7
<1>9. /\ x = p <=> x1 = p1 /\ x2 = p2 /\ x3 = p3
      /\ Earlier(x, p) <=> x3 < p3 \/ (x3 = p3 /\ x2 < p2) \/ (x3 = p3 /\ x2 = p2 /\ x1 < p1)
      /\ Earlier(x, q) <=> x3 < q[3] \/ (x3 = q[3] /\ x2 < q[2]) \/ (x3 = q[3] /\ x2 = q[2] /\ x1 < q[1])
  BY <1>2, <1>7 DEF Earlier
<1>10. CASE ~W(1)
  <2>1. q[1] = p1 + s1 /\ q[2] = p2 /\ q[3] = p3 /\ ~(\A i \in Axes : W(i))
    BY <1>3, <1>5, <1>7, <1>10
  <2>2. Earlier(x, q) <=> Earlier(x, p) \/ x = p
    BY <1>7, <1>8, <1>9, <2>1
  <2> QED BY <2>1, <2>2 DEF q, W
<1>11. CASE W(1) /\ ~W(2)
  <2>1. q[1] = 0 /\ q[2] = p2 + s2 /\ q[3] = p3 /\ ~(\A i \in Axes : W(i))
    BY <1>3, <1>5, <1>7, <1>11
  <2>2. x1 <= p1 /\ ~(x1 < 0)
    BY <1>7, <1>8, <1>11
  <2>3. Earlier(x, q) <=> x3 < p3 \/ (x3 = p3 /\ x2 <= p2)
    BY <1>8, <1>9, <2>1, <2>2
  <2>4. Earlier(x, q) <=> Earlier(x, p) \/ x = p
    BY <1>7, <1>9, <2>2, <2>3
  <2> QED BY <2>1, <2>4 DEF q, W
<1>12. CASE W(1) /\ W(2) /\ ~W(3)
  <2>1. q[1] = 0 /\ q[2] = 0 /\ q[3] = p3 + s3 /\ ~(\A i \in Axes : W(i))
    BY <1>3, <1>5, <1>7, <1>12
  <2>2. x1 <= p1 /\ x2 <= p2 /\ ~(x1 < 0) /\ ~(x2 < 0)
    BY <1>7, <1>8, <1>12
  <2>3. Earlier(x, q) <=> x3 <= p3
    BY <1>8, <1>9, <2>1, <2>2
  <2>4. Earlier(x, q) <=> Earlier(x, p) \/ x = p
    BY <1>7, <1>9, <2>2, <2>3
  <2> QED BY <2>1, <2>4 DEF q, W
<1>13. CASE W(1) /\ W(2) /\ W(3)
  <2>1. \A i \in Axes : W(i)
    BY <1>4, <1>13
  <2>2. x1 <= p1 /\ x2 <= p2 /\ x3 <= p3
    BY <1>8, <1>13
  <2>3. Earlier(x, p) \/ x = p
    BY <1>7, <1>9, <2>2
  <2> QED BY <1>6, <2>1, <2>3 DEF q, W
<1> QED BY <1>10, <1>11, <1>12, <1>13

LEMMA AdvanceReads ==
    ASSUME NEW step \in Dims, NEW limit \in Dims, NEW p,
           \A i \in Axes : step[i] > 0 /\ Multiple(limit[i], step[i]), Reading(p, step, limit)
    PROVE  Reading(Advance(p, step, limit), step, limit)
<1> SUFFICES ASSUME NEW i \in Axes
             PROVE  /\ Advance(p, step, limit)[i] < limit[i]
                    /\ Multiple(Advance(p, step, limit)[i], step[i])
  BY AdvanceType DEF Reading
<1>1. /\ p[i] \in Nat /\ step[i] \in Nat /\ limit[i] \in Nat /\ p[i] + step[i] <= limit[i]
      /\ p[i] < limit[i]
  BY OneDigit DEF Reading
<1>2. Multiple(p[i], step[i])
  BY DEF Reading
<1>3. Multiple(0, step[i])
  <2>1. 0 = step[i] * 0 /\ 0 \in Nat
    BY <1>1
  <2> QED BY <2>1 DEF Multiple
<1>4. Multiple(p[i] + step[i], step[i])
  <2>1. PICK a \in Nat : p[i] = step[i] * a
    BY <1>2 DEF Multiple
  <2>2. p[i] + step[i] = step[i] * (a + 1) /\ a + 1 \in Nat
    BY <1>1, <2>1
  <2> QED BY <2>2 DEF Multiple
<1>5. \/ Advance(p, step, limit)[i] = p[i]
      \/ Advance(p, step, limit)[i] = 0
      \/ Advance(p, step, limit)[i] = p[i] + step[i] /\ p[i] + step[i] # limit[i]
  BY DEF Advance, Wraps
<1> QED BY <1>1, <1>2, <1>3, <1>4, <1>5
(* The walk over a grid that is a whole number of clusters: a block is a   *)
(* corner of a cluster and a member in it.                                 *)
Tiled(k) == \A i \in Axes : k.grid[i] % k.cluster[i] = 0

Corner(k, b) == [i \in Axes |-> k.cluster[i] * (b[i] \div k.cluster[i])]

Member(k, b) == [i \in Axes |-> b[i] % k.cluster[i]]

(* The KMU has handed out the block: the walk is past it, or over. *)
Handed(k, b) ==
    k.running => \/ Earlier(Corner(k.kernel, b), k.origin)
                 \/ Corner(k.kernel, b) = k.origin /\ Earlier(Member(k.kernel, b), k.intra)

WalkOk(k) ==
    /\ k \in KmuType /\ Good(k.kernel) /\ Tiled(k.kernel)
    /\ k.running => /\ Reading(k.origin, k.kernel.cluster, k.kernel.grid)
                    /\ Reading(k.intra, One, k.kernel.cluster)

LEMMA BlocksAre ==
    ASSUME NEW k \in Kernel, NEW b
    PROVE  b \in Blocks(k) <=> b \in Dims /\ \A i \in Axes : b[i] < k.grid[i]
<1>1. k.grid[1] \in Nat /\ k.grid[2] \in Nat /\ k.grid[3] \in Nat
  BY KernelParts, DimParts
<1>2. ASSUME b \in Blocks(k) PROVE b \in Dims /\ \A i \in Axes : b[i] < k.grid[i]
  <2>1. PICK x \in 0 .. k.grid[1] - 1, y \in 0 .. k.grid[2] - 1, z \in 0 .. k.grid[3] - 1 : b = <<x, y, z>>
    BY <1>2 DEF Blocks
  <2>2. b[1] = x /\ b[2] = y /\ b[3] = z /\ x \in Nat /\ y \in Nat /\ z \in Nat
    BY <1>1, <2>1
  <2>3. x < k.grid[1] /\ y < k.grid[2] /\ z < k.grid[3]
    BY <1>1, <2>1
  <2>4. b \in Dims
    BY <2>1, <2>2 DEF Dims, Axes
  <2> QED BY <2>2, <2>3, <2>4 DEF Axes
<1>3. ASSUME b \in Dims, \A i \in Axes : b[i] < k.grid[i] PROVE b \in Blocks(k)
  <2>1. b[1] \in 0 .. k.grid[1] - 1 /\ b[2] \in 0 .. k.grid[2] - 1 /\ b[3] \in 0 .. k.grid[3] - 1
    BY <1>1, <1>3, DimParts DEF Axes
  <2>2. b = <<b[1], b[2], b[3]>>
    BY <1>3 DEF Dims, Axes
  <2> QED BY <2>1, <2>2 DEF Blocks
<1> QED BY <1>2, <1>3

LEMMA TiledSteps ==
    ASSUME NEW k, Good(k), Tiled(k)
    PROVE  /\ k.cluster \in Dims /\ k.grid \in Dims /\ One \in Dims
           /\ \A i \in Axes : k.cluster[i] > 0 /\ Multiple(k.grid[i], k.cluster[i])
           /\ \A i \in Axes : One[i] > 0 /\ Multiple(k.cluster[i], One[i])
<1>1. k.cluster \in Dims /\ k.grid \in Dims /\ One \in Dims
  BY KernelParts DEF Good, One, Dims
<1>2. ASSUME NEW i \in Axes PROVE k.cluster[i] > 0 /\ Multiple(k.grid[i], k.cluster[i])
  <2>1. k.cluster[i] \in Nat /\ k.grid[i] \in Nat /\ k.cluster[i] > 0
    BY <1>1 DEF Dims, Good
  <2>2. /\ k.grid[i] \div k.cluster[i] \in Nat
        /\ k.grid[i] = k.cluster[i] * (k.grid[i] \div k.cluster[i]) + (k.grid[i] % k.cluster[i])
    BY <2>1, Division
  <2>3. k.grid[i] % k.cluster[i] = 0
    BY DEF Tiled
  <2>4. PICK a \in Nat : a = k.grid[i] \div k.cluster[i]
    BY <2>2
  <2>5. k.grid[i] = k.cluster[i] * a + 0
    BY <2>2, <2>3, <2>4
  <2>6. k.grid[i] = k.cluster[i] * a
    BY <2>1, <2>5
  <2> QED BY <2>1, <2>6 DEF Multiple
<1>3. ASSUME NEW i \in Axes PROVE One[i] > 0 /\ Multiple(k.cluster[i], One[i])
  <2>1. One[i] = 1 /\ k.cluster[i] \in Nat
    BY <1>1 DEF One, Dims
  <2>2. k.cluster[i] = 1 * k.cluster[i]
    BY <2>1
  <2> QED BY <2>1, <2>2 DEF Multiple
<1> QED BY <1>1, <1>2, <1>3

(* Corner and member of a block of the grid are readings of the odometers. *)
LEMMA BlockDigits ==
    ASSUME NEW k, Good(k), Tiled(k), NEW b \in Blocks(k)
    PROVE  /\ Reading(Corner(k, b), k.cluster, k.grid)
           /\ Reading(Member(k, b), One, k.cluster)
           /\ \A i \in Axes : b[i] = Corner(k, b)[i] + Member(k, b)[i]
<1>1. k.cluster \in Dims /\ k.grid \in Dims /\ k \in Kernel
  BY TiledSteps DEF Good
<1>2. b \in Dims /\ \A i \in Axes : b[i] < k.grid[i]
  BY <1>1, BlocksAre
<1>3. ASSUME NEW i \in Axes
      PROVE  /\ Corner(k, b)[i] \in Nat /\ Corner(k, b)[i] < k.grid[i]
             /\ Multiple(Corner(k, b)[i], k.cluster[i])
             /\ Member(k, b)[i] \in Nat /\ Member(k, b)[i] < k.cluster[i]
             /\ Multiple(Member(k, b)[i], One[i])
             /\ b[i] = Corner(k, b)[i] + Member(k, b)[i]
  <2>1. /\ k.cluster[i] \in Nat /\ k.cluster[i] > 0 /\ b[i] \in Nat /\ k.grid[i] \in Nat
        /\ b[i] < k.grid[i]
    BY <1>1, <1>2 DEF Dims, Good
  <2>2. PICK c \in Nat, q \in Nat, m \in Nat :
          /\ c = k.cluster[i] /\ q = b[i] \div k.cluster[i] /\ m = b[i] % k.cluster[i]
          /\ m < c /\ b[i] = c * q + m
    <3>1. /\ b[i] \div k.cluster[i] \in Nat /\ b[i] % k.cluster[i] \in 0 .. k.cluster[i] - 1
          /\ b[i] = k.cluster[i] * (b[i] \div k.cluster[i]) + (b[i] % k.cluster[i])
      BY <2>1, Division
    <3>2. b[i] % k.cluster[i] \in Nat /\ b[i] % k.cluster[i] < k.cluster[i]
      BY <2>1, <3>1
    <3> QED BY <2>1, <3>1, <3>2
  <2>3. Corner(k, b)[i] = c * q /\ Member(k, b)[i] = m
    BY <2>2 DEF Corner, Member
  <2>4. c * q \in Nat /\ c * q <= b[i]
    <3>1. PICK e \in Nat : e = c * q
      BY <2>2
    <3>2. b[i] = e + m
      BY <2>2, <3>1
    <3> QED BY <3>1, <3>2
  <2>5. One[i] = 1 /\ m = 1 * m
    BY DEF One
  <2>6. c * q < k.grid[i]
    BY <2>1, <2>4
  <2>7. Multiple(c * q, c) /\ Multiple(m, 1)
    BY <2>5 DEF Multiple
  <2> QED BY <2>2, <2>3, <2>4, <2>5, <2>6, <2>7
<1>4. Corner(k, b) \in Dims /\ Member(k, b) \in Dims
  BY <1>3 DEF Corner, Member, Dims
<1> QED BY <1>3, <1>4 DEF Reading

(* The block the KMU hands out is the one its two odometers read. *)
LEMMA DigitsOfBlock ==
    ASSUME NEW k, Good(k), Tiled(k), NEW o, NEW m, NEW b, b = [i \in Axes |-> o[i] + m[i]],
           Reading(o, k.cluster, k.grid), Reading(m, One, k.cluster)
    PROVE  b \in Blocks(k) /\ Corner(k, b) = o /\ Member(k, b) = m
<1>1. k.cluster \in Dims /\ k.grid \in Dims /\ k \in Kernel
  BY TiledSteps DEF Good
<1>2. ASSUME NEW i \in Axes
      PROVE  /\ b[i] \in Nat /\ b[i] < k.grid[i]
             /\ Corner(k, b)[i] = o[i] /\ Member(k, b)[i] = m[i]
  <2>1. /\ o[i] \in Nat /\ k.grid[i] \in Nat /\ k.cluster[i] \in Nat /\ k.cluster[i] > 0
        /\ o[i] + k.cluster[i] <= k.grid[i]
    BY <1>1, TiledSteps, OneDigit
  <2>2. m[i] \in Nat /\ m[i] < k.cluster[i]
    BY DEF Reading, Dims
  <2>3. b[i] = o[i] + m[i]
    OBVIOUS
  <2>4. b[i] \in Nat /\ b[i] < k.grid[i]
    BY <2>1, <2>2, <2>3
  <2>5. PICK a \in Nat : o[i] = k.cluster[i] * a
    BY DEF Reading, Multiple
  <2>6. b[i] = k.cluster[i] * a + m[i]
    BY <2>3, <2>5
  <2>7. b[i] \div k.cluster[i] = a
    BY <2>1, <2>2, <2>4, <2>6, DivUnique
  <2>8. PICK r \in Nat : r = b[i] % k.cluster[i] /\ b[i] = k.cluster[i] * (b[i] \div k.cluster[i]) + r
    <3>1. /\ b[i] % k.cluster[i] \in 0 .. k.cluster[i] - 1
          /\ b[i] = k.cluster[i] * (b[i] \div k.cluster[i]) + (b[i] % k.cluster[i])
      BY <2>1, <2>4, Division
    <3> QED BY <2>1, <3>1
  <2>9. b[i] = o[i] + r
    BY <2>5, <2>7, <2>8
  <2>10. r = m[i]
    BY <2>1, <2>2, <2>3, <2>8, <2>9
  <2>11. Corner(k, b)[i] = o[i]
    BY <2>5, <2>7 DEF Corner
  <2> QED BY <2>4, <2>8, <2>10, <2>11 DEF Member
<1>3. o \in Dims /\ m \in Dims
  BY DEF Reading
<1>4. Corner(k, b) = o /\ Member(k, b) = m
  BY <1>2, <1>3 DEF Corner, Member, Dims
<1>5. b \in Dims
  BY <1>2 DEF Dims
<1> QED BY <1>1, <1>2, <1>4, <1>5, BlocksAre

LEMMA NotBeforeItself ==
    ASSUME NEW p \in Dims
    PROVE  ~Earlier(p, p) /\ ~Earlier(p, Zero)
<1>1. p[1] \in Nat /\ p[2] \in Nat /\ p[3] \in Nat
  BY DimParts
<1>2. Zero[1] = 0 /\ Zero[2] = 0 /\ Zero[3] = 0
  BY DEF Zero, Axes
<1> QED BY <1>1, <1>2 DEF Earlier

LEMMA KmuAdvanceParts ==
    ASSUME NEW k \in KmuType
    PROVE  LET cl == k.kernel.cluster
               clusterDone == \A i \in Axes : Wraps(k.intra, One, cl, i)
               gridDone == \A i \in Axes : Wraps(k.origin, cl, k.kernel.grid, i)
           IN  /\ KmuAdvance(k).kernel = k.kernel
               /\ KmuAdvance(k).intra = Advance(k.intra, One, cl)
               /\ KmuAdvance(k).origin =
                    IF clusterDone THEN Advance(k.origin, cl, k.kernel.grid) ELSE k.origin
               /\ KmuAdvance(k).running = ~(clusterDone /\ gridDone)
<1> DEFINE cl == k.kernel.cluster
           clusterDone == \A i \in Axes : Wraps(k.intra, One, cl, i)
           gridDone == \A i \in Axes : Wraps(k.origin, cl, k.kernel.grid, i)
           intra == Advance(k.intra, One, cl)
           origin == IF clusterDone THEN Advance(k.origin, cl, k.kernel.grid) ELSE k.origin
           running == ~(clusterDone /\ gridDone)
<1>1. KmuAdvance(k) = [k EXCEPT !.intra = intra, !.origin = origin, !.running = running]
  BY DEF KmuAdvance
<1> HIDE DEF intra, origin, running
<1>2. /\ KmuAdvance(k).kernel = k.kernel /\ KmuAdvance(k).intra = intra
      /\ KmuAdvance(k).origin = origin /\ KmuAdvance(k).running = running
  BY <1>1 DEF KmuType
<1> QED BY <1>2 DEF intra, origin, running

(* One step of the KMU hands out one block, which no step before did. *)
LEMMA WalkStep ==
    ASSUME NEW k, WalkOk(k), k.running, NEW b0, b0 = KmuRequest(k).block_idx
    PROVE  /\ WalkOk(KmuAdvance(k)) /\ b0 \in Blocks(k.kernel) /\ ~Handed(k, b0)
           /\ \A b \in Blocks(k.kernel) : Handed(KmuAdvance(k), b) <=> Handed(k, b) \/ b = b0
<1> DEFINE ker == k.kernel
           cl == k.kernel.cluster
           n == KmuAdvance(k)
           clusterDone == \A i \in Axes : Wraps(k.intra, One, cl, i)
           gridDone == \A i \in Axes : Wraps(k.origin, cl, k.kernel.grid, i)
<1>1. /\ k \in KmuType /\ Good(ker) /\ Tiled(ker)
      /\ Reading(k.origin, cl, ker.grid) /\ Reading(k.intra, One, cl)
  BY DEF WalkOk
<1>2. /\ cl \in Dims /\ ker.grid \in Dims /\ One \in Dims
      /\ \A i \in Axes : cl[i] > 0 /\ Multiple(ker.grid[i], cl[i])
      /\ \A i \in Axes : One[i] > 0 /\ Multiple(cl[i], One[i])
  BY <1>1, TiledSteps
<1>3. /\ n.kernel = ker /\ n.intra = Advance(k.intra, One, cl)
      /\ n.origin = IF clusterDone THEN Advance(k.origin, cl, ker.grid) ELSE k.origin
      /\ n.running = ~(clusterDone /\ gridDone)
  BY <1>1, KmuAdvanceParts
<1>4. n \in KmuType
  BY <1>1, KmuAdvanceType
<1>5. Reading(n.intra, One, cl) /\ Reading(n.origin, cl, ker.grid)
  BY <1>1, <1>2, <1>3, AdvanceReads
<1>6. WalkOk(n)
  BY <1>1, <1>3, <1>4, <1>5 DEF WalkOk
<1>7. b0 \in Blocks(ker) /\ Corner(ker, b0) = k.origin /\ Member(ker, b0) = k.intra
  <2>1. b0 = [i \in Axes |-> k.origin[i] + k.intra[i]]
    BY DEF KmuRequest
  <2> QED BY <1>1, <2>1, DigitsOfBlock
<1>8. ~Handed(k, b0)
  <2>1. k.origin \in Dims /\ k.intra \in Dims
    BY <1>1 DEF Reading
  <2> QED BY <1>7, <2>1, NotBeforeItself DEF Handed
<1>9. ASSUME NEW b \in Blocks(ker) PROVE Handed(n, b) <=> Handed(k, b) \/ b = b0
  <2>1. PICK o, m : o = Corner(ker, b) /\ m = Member(ker, b)
    OBVIOUS
  <2>2. Reading(o, cl, ker.grid) /\ Reading(m, One, cl) /\ \A i \in Axes : b[i] = o[i] + m[i]
    BY <1>1, <2>1, BlockDigits
  <2>3. b = b0 <=> o = k.origin /\ m = k.intra
    <3>1. b = b0 => o = k.origin /\ m = k.intra
      BY <1>7, <2>1
    <3>2. ASSUME o = k.origin, m = k.intra PROVE b = b0
      <4>1. b \in Dims
        BY <1>1, BlocksAre DEF Good
      <4>2. b = [i \in Axes |-> o[i] + m[i]]
        BY <2>2, <4>1 DEF Dims
      <4> QED BY <3>2, <4>2 DEF KmuRequest
    <3> QED BY <3>1, <3>2
  <2>4. Handed(k, b) <=> Earlier(o, k.origin) \/ (o = k.origin /\ Earlier(m, k.intra))
    BY <2>1 DEF Handed
  <2>5. Handed(n, b) <=> (n.running => Earlier(o, n.origin) \/ (o = n.origin /\ Earlier(m, n.intra)))
    BY <1>3, <2>1 DEF Handed
  <2>6. /\ ~clusterDone => (Earlier(m, Advance(k.intra, One, cl)) <=> Earlier(m, k.intra) \/ m = k.intra)
        /\ clusterDone => (Earlier(m, k.intra) \/ m = k.intra) /\ Advance(k.intra, One, cl) = Zero
    <3>1. PICK p, st, lim : p = k.intra /\ st = One /\ lim = cl
      OBVIOUS
    <3>2. /\ st \in Dims /\ lim \in Dims /\ Reading(p, st, lim) /\ Reading(m, st, lim)
          /\ \A i \in Axes : st[i] > 0 /\ Multiple(lim[i], st[i])
      BY <1>1, <1>2, <2>2, <3>1
    <3>3. /\ ~(\A i \in Axes : Wraps(p, st, lim, i)) =>
               (Earlier(m, Advance(p, st, lim)) <=> Earlier(m, p) \/ m = p)
          /\ (\A i \in Axes : Wraps(p, st, lim, i)) =>
               (Earlier(m, p) \/ m = p) /\ Advance(p, st, lim) = Zero
      BY <3>2, AdvanceIsNext
    <3> QED BY <3>1, <3>3
  <2>7. /\ ~gridDone => (Earlier(o, Advance(k.origin, cl, ker.grid)) <=> Earlier(o, k.origin) \/ o = k.origin)
        /\ gridDone => (Earlier(o, k.origin) \/ o = k.origin)
    <3>1. PICK p, st, lim : p = k.origin /\ st = cl /\ lim = ker.grid
      OBVIOUS
    <3>2. /\ st \in Dims /\ lim \in Dims /\ Reading(p, st, lim) /\ Reading(o, st, lim)
          /\ \A i \in Axes : st[i] > 0 /\ Multiple(lim[i], st[i])
      BY <1>1, <1>2, <2>2, <3>1
    <3>3. /\ ~(\A i \in Axes : Wraps(p, st, lim, i)) =>
               (Earlier(o, Advance(p, st, lim)) <=> Earlier(o, p) \/ o = p)
          /\ (\A i \in Axes : Wraps(p, st, lim, i)) =>
               (Earlier(o, p) \/ o = p) /\ Advance(p, st, lim) = Zero
      BY <3>2, AdvanceIsNext
    <3> QED BY <3>1, <3>3
  <2>8. ~Earlier(m, Zero)
    BY <2>2, NotBeforeItself DEF Reading
  <2> HIDE DEF clusterDone, gridDone, n
  <2>9. CASE ~clusterDone
    <3>1. n.running /\ n.origin = k.origin /\ (Earlier(m, n.intra) <=> Earlier(m, k.intra) \/ m = k.intra)
      BY <1>3, <2>6, <2>9
    <3> QED BY <2>3, <2>4, <2>5, <3>1
  <2>10. CASE clusterDone /\ ~gridDone
    <3>1. /\ n.running /\ n.intra = Zero
          /\ Earlier(o, n.origin) <=> Earlier(o, k.origin) \/ o = k.origin
      BY <1>3, <2>6, <2>7, <2>10
    <3>2. Handed(n, b) <=> Earlier(o, k.origin) \/ o = k.origin
      BY <2>5, <2>8, <3>1
    <3> QED BY <2>3, <2>4, <2>6, <2>10, <3>2
  <2>11. CASE clusterDone /\ gridDone
    <3>1. ~n.running
      BY <1>3, <2>11
    <3> QED BY <2>3, <2>4, <2>5, <2>6, <2>7, <2>11, <3>1
  <2> QED BY <2>9, <2>10, <2>11
<1> QED BY <1>6, <1>7, <1>8, <1>9
-----------------------------------------------------------------------------
(* Who starts what.  A block is with a dispatcher while it is stashed or    *)
(* has warps left; Waits says which of its warps are those.                *)

Has(d, b) ==
    \/ d.has_cta /\ d.cta.block_idx = b
    \/ ~d.has_cta /\ d.has_pending /\ d.pending_cta.block_idx = b

Waits(d, b, r) == Has(d, b) /\ (d.has_cta => r >= d.rank)

Pairs(k) == Blocks(k) \X Ranks(k)

(* A warp has been started, once, exactly when its block was handed out    *)
(* and no dispatcher still has the warp before it; a block is with one     *)
(* dispatcher at most.                                                     *)
Once(k, dd, is) ==
    /\ WalkOk(k) /\ dd \in [Cores -> DispatcherType]
    /\ is \in [Pairs(k.kernel) -> {0, 1}]
    /\ \A c \in Cores : ~(dd[c].has_cta /\ dd[c].has_pending)
    /\ \A c \in Cores : \A b : Has(dd[c], b) => b \in Blocks(k.kernel) /\ Handed(k, b)
    /\ \A c, e \in Cores : \A b : Has(dd[c], b) /\ Has(dd[e], b) => c = e
    /\ \A b \in Blocks(k.kernel), r \in Ranks(k.kernel) :
          is[<<b, r>>] = 1 <=> Handed(k, b) /\ \A c \in Cores : ~Waits(dd[c], b, r)

(* What a dispatcher does short of fetching a CTA or starting a warp.      *)
LEMMA OnceKept ==
    ASSUME NEW k, NEW dd, NEW is, Once(k, dd, is), NEW c \in Cores, NEW d2 \in DispatcherType,
           ~(d2.has_cta /\ d2.has_pending),
           \A b : Has(d2, b) <=> Has(dd[c], b),
           \A b : \A r \in Nat : Waits(d2, b, r) <=> Waits(dd[c], b, r)
    PROVE  Once(k, [dd EXCEPT ![c] = d2], is)
<1> DEFINE new == [dd EXCEPT ![c] = d2]
<1>1. new \in [Cores -> DispatcherType] /\ \A e \in Cores : new[e] = IF e = c THEN d2 ELSE dd[e]
  BY DEF Once
<1> HIDE DEF new
<1>2. \A e \in Cores : \A b : Has(new[e], b) <=> Has(dd[e], b)
  BY <1>1
<1>3. \A e \in Cores : \A b : \A r \in Nat : Waits(new[e], b, r) <=> Waits(dd[e], b, r)
  BY <1>1
<1>4. \A e \in Cores : ~(new[e].has_cta /\ new[e].has_pending)
  BY <1>1 DEF Once
<1>5. Ranks(k.kernel) \subseteq Nat
  <2>1. CtaSize(k.kernel) \in Nat
    BY CtaSizePositive DEF Once, WalkOk
  <2> QED BY <2>1 DEF Ranks
<1>6. \A b \in Blocks(k.kernel), r \in Ranks(k.kernel) :
        is[<<b, r>>] = 1 <=> Handed(k, b) /\ \A e \in Cores : ~Waits(new[e], b, r)
  BY <1>3, <1>5 DEF Once
<1>7. Once(k, new, is)
  BY <1>1, <1>2, <1>4, <1>6 DEF Once
<1> QED BY <1>7 DEF new

(* A dispatcher with nothing in hand takes the block the KMU hands out. *)
LEMMA OnceFetched ==
    ASSUME NEW k, NEW dd, NEW is, Once(k, dd, is), NEW c \in Cores, NEW d2 \in DispatcherType,
           k.running, \A b : ~Has(dd[c], b), NEW b0, b0 = KmuRequest(k).block_idx,
           ~d2.has_cta, \A b : Has(d2, b) <=> b = b0
    PROVE  Once(KmuAdvance(k), [dd EXCEPT ![c] = d2], is)
<1> DEFINE new == [dd EXCEPT ![c] = d2]
<1>0. WalkOk(k)
  BY DEF Once
<1>1. new \in [Cores -> DispatcherType] /\ \A e \in Cores : new[e] = IF e = c THEN d2 ELSE dd[e]
  BY DEF Once
<1>2. PICK k2 : k2 = KmuAdvance(k)
  OBVIOUS
<1>3. /\ WalkOk(k2) /\ b0 \in Blocks(k.kernel) /\ ~Handed(k, b0)
      /\ \A b \in Blocks(k.kernel) : Handed(k2, b) <=> Handed(k, b) \/ b = b0
  BY <1>0, <1>2, WalkStep
<1>4. k2.kernel = k.kernel
  BY <1>0, <1>2, KmuAdvanceParts DEF WalkOk
<1> HIDE DEF new
<1>5. \A e \in Cores : \A b : Has(new[e], b) <=> Has(dd[e], b) \/ (e = c /\ b = b0)
  BY <1>1
<1>6. \A e \in Cores : \A b : Has(dd[e], b) => b \in Blocks(k.kernel) /\ Handed(k, b) /\ b # b0
  BY <1>3 DEF Once
<1>7. \A e \in Cores : ~(new[e].has_cta /\ new[e].has_pending)
  BY <1>1 DEF Once
<1>8. \A e \in Cores : \A b : Has(new[e], b) => b \in Blocks(k.kernel) /\ Handed(k2, b)
  BY <1>3, <1>5, <1>6
<1>9. \A e, f \in Cores : \A b : Has(new[e], b) /\ Has(new[f], b) => e = f
  <2>1. \A e, f \in Cores : \A b : Has(dd[e], b) /\ Has(dd[f], b) => e = f
    BY DEF Once
  <2> QED BY <1>5, <1>6, <2>1
<1>10. ASSUME NEW b \in Blocks(k.kernel), NEW r \in Ranks(k.kernel)
       PROVE  is[<<b, r>>] = 1 <=> Handed(k2, b) /\ \A e \in Cores : ~Waits(new[e], b, r)
  <2>1. is[<<b, r>>] = 1 <=> Handed(k, b) /\ \A e \in Cores : ~Waits(dd[e], b, r)
    BY DEF Once
  <2>2. CASE b = b0
    <3>1. Waits(new[c], b, r)
      BY <1>1, <2>2 DEF Waits
    <3> QED BY <1>3, <2>1, <2>2, <3>1
  <2>3. CASE b # b0
    <3>1. Handed(k2, b) <=> Handed(k, b)
      BY <1>3, <2>3
    <3>2. \A e \in Cores : Waits(new[e], b, r) <=> Waits(dd[e], b, r)
      BY <1>1, <2>3 DEF Waits
    <3> QED BY <2>1, <3>1, <3>2
  <2> QED BY <2>2, <2>3
<1>11. is \in [Pairs(k2.kernel) -> {0, 1}]
  BY <1>4 DEF Once
<1>12. Once(k2, new, is)
  BY <1>1, <1>3, <1>4, <1>7, <1>8, <1>9, <1>10, <1>11 DEF Once
<1> QED BY <1>2, <1>12 DEF new

(* The dispatcher starts the warp of its current rank. *)
LEMMA OnceStarted ==
    ASSUME NEW k, NEW dd, NEW is, Once(k, dd, is), NEW c \in Cores, NEW d2 \in DispatcherType,
           NEW b0, NEW r0 \in Ranks(k.kernel), Waits(dd[c], b0, r0),
           ~(d2.has_cta /\ d2.has_pending), \A b : Has(d2, b) => Has(dd[c], b),
           \A b : \A r \in Ranks(k.kernel) :
               Waits(d2, b, r) <=> Waits(dd[c], b, r) /\ <<b, r>> # <<b0, r0>>
    PROVE  Once(k, [dd EXCEPT ![c] = d2], [is EXCEPT ![<<b0, r0>>] = @ + 1])
<1> DEFINE new == [dd EXCEPT ![c] = d2]
           n == [is EXCEPT ![<<b0, r0>>] = @ + 1]
<1>0. is \in [Pairs(k.kernel) -> {0, 1}] /\ Has(dd[c], b0)
  BY DEF Once, Waits
<1>1. new \in [Cores -> DispatcherType] /\ \A e \in Cores : new[e] = IF e = c THEN d2 ELSE dd[e]
  BY DEF Once
<1>2. b0 \in Blocks(k.kernel) /\ Handed(k, b0) /\ \A e \in Cores : e # c => ~Has(dd[e], b0)
  BY <1>0 DEF Once
<1>3. <<b0, r0>> \in Pairs(k.kernel) /\ is[<<b0, r0>>] # 1
  BY <1>2 DEF Once, Pairs
<1>4. is[<<b0, r0>>] = 0
  BY <1>0, <1>3
<1>5. /\ n \in [Pairs(k.kernel) -> {0, 1}] /\ n[<<b0, r0>>] = 1
      /\ \A br \in Pairs(k.kernel) : br # <<b0, r0>> => n[br] = is[br]
  BY <1>0, <1>3, <1>4
<1> HIDE DEF new, n
<1>6. \A e \in Cores : \A b : Has(new[e], b) => Has(dd[e], b)
  BY <1>1
<1>7. \A e \in Cores : ~(new[e].has_cta /\ new[e].has_pending)
  BY <1>1 DEF Once
<1>8. ASSUME NEW b \in Blocks(k.kernel), NEW r \in Ranks(k.kernel)
      PROVE  n[<<b, r>>] = 1 <=> Handed(k, b) /\ \A e \in Cores : ~Waits(new[e], b, r)
  <2>1. CASE <<b, r>> = <<b0, r0>>
    <3>1. b = b0 /\ r = r0
      BY <2>1
    <3>2. \A e \in Cores : ~Waits(new[e], b, r)
      BY <1>1, <1>2, <3>1 DEF Waits
    <3> QED BY <1>2, <1>5, <3>1, <3>2
  <2>2. CASE <<b, r>> # <<b0, r0>>
    <3>1. n[<<b, r>>] = is[<<b, r>>]
      BY <1>5, <2>2 DEF Pairs
    <3>2. \A e \in Cores : Waits(new[e], b, r) <=> Waits(dd[e], b, r)
      BY <1>1, <2>2
    <3> QED BY <3>1, <3>2 DEF Once
  <2> QED BY <2>1, <2>2
<1>9. Once(k, new, n)
  BY <1>1, <1>5, <1>6, <1>7, <1>8 DEF Once
<1> QED BY <1>9 DEF new, n
LEMMA LoadedOnce ==
    ASSUME NEW k, NEW dd, NEW is, Once(k, dd, is), NEW c \in Cores, ~dd[c].has_cta,
           dd[c].has_pending \/ k.running
    PROVE  Once(IF dd[c].has_pending THEN k ELSE KmuAdvance(k),
                [dd EXCEPT ![c] = Loaded(dd[c], k)], is)
<1>0. k \in KmuType /\ dd \in [Cores -> DispatcherType] /\ dd[c] \in DispatcherType
  BY DEF Once, WalkOk
<1>1. PICK d2 : d2 = Loaded(dd[c], k)
  OBVIOUS
<1>2. /\ d2 \in DispatcherType /\ ~d2.has_cta /\ d2.has_pending
      /\ d2.pending_cta = (IF dd[c].has_pending THEN dd[c].pending_cta ELSE KmuRequest(k))
  <2>1. PICK d \in DispatcherType : d = dd[c]
    BY <1>0
  <2>2. /\ Loaded(d, k) \in DispatcherType /\ Loaded(d, k).has_cta = d.has_cta
        /\ Loaded(d, k).has_pending = TRUE
        /\ Loaded(d, k).pending_cta = (IF d.has_pending THEN d.pending_cta ELSE KmuRequest(k))
    BY <1>0, LoadedParts
  <2> QED BY <1>1, <2>1, <2>2
<1>3. CASE dd[c].has_pending
  <2>1. d2 = dd[c]
    BY <1>1, <1>3 DEF Loaded
  <2>2. [dd EXCEPT ![c] = d2] = dd
    BY <1>0, <2>1
  <2> QED BY <1>1, <1>3, <2>2
<1>4. CASE ~dd[c].has_pending
  <2>1. k.running /\ \A b : ~Has(dd[c], b)
    BY <1>4 DEF Has
  <2>2. PICK b0 : b0 = KmuRequest(k).block_idx
    OBVIOUS
  <2>3. \A b : Has(d2, b) <=> b = b0
    BY <1>2, <1>4, <2>2 DEF Has
  <2>4. Once(KmuAdvance(k), [dd EXCEPT ![c] = d2], is)
    BY <1>2, <2>1, <2>2, <2>3, OnceFetched
  <2> QED BY <1>1, <1>4, <2>4
<1> QED BY <1>3, <1>4

LEMMA AdmittedOnce ==
    ASSUME NEW k, NEW dd, NEW is, Once(k, dd, is), NEW c \in Cores,
           ~dd[c].has_cta, dd[c].has_pending, Good(dd[c].pending_cta.kernel)
    PROVE  Once(k, [dd EXCEPT ![c] = Admitted(dd[c])], is)
<1>0. dd[c] \in DispatcherType
  BY DEF Once
<1>1. PICK d2 : d2 = Admitted(dd[c])
  OBVIOUS
<1>2. /\ d2 \in DispatcherType /\ d2.has_cta /\ ~d2.has_pending
      /\ d2.cta = dd[c].pending_cta /\ d2.rank = 0
  BY <1>0, <1>1, AdmittedParts
<1>3. \A b : Has(d2, b) <=> Has(dd[c], b)
  BY <1>2 DEF Has
<1>4. \A b : \A r \in Nat : Waits(d2, b, r) <=> Waits(dd[c], b, r)
  BY <1>2, <1>3 DEF Waits
<1>5. Once(k, [dd EXCEPT ![c] = d2], is)
  BY <1>2, <1>3, <1>4, OnceKept
<1> QED BY <1>1, <1>5

LEMMA HeldOnce ==
    ASSUME NEW k, NEW dd, NEW is, Once(k, dd, is), NEW c \in Cores,
           Good(dd[c].pending_cta.kernel),
           dd[c].has_cta \/ dd[c].has_pending \/ k.running
    PROVE  Once(IF dd[c].has_cta \/ dd[c].has_pending THEN k ELSE KmuAdvance(k),
                [dd EXCEPT ![c] = Held(dd[c], k)], is)
<1>0. dd \in [Cores -> DispatcherType] /\ dd[c] \in DispatcherType /\ k \in KmuType /\ Good(k.kernel)
  BY DEF Once, WalkOk
<1>1. CASE dd[c].has_cta
  <2>1. [dd EXCEPT ![c] = Held(dd[c], k)] = dd
    BY <1>0, <1>1 DEF Held
  <2> QED BY <1>1, <2>1
<1>2. CASE ~dd[c].has_cta
  <2>1. PICK d2, n, k2 : /\ d2 = Loaded(dd[c], k) /\ n = [dd EXCEPT ![c] = d2]
                         /\ k2 = IF dd[c].has_pending THEN k ELSE KmuAdvance(k)
    OBVIOUS
  <2>2. Once(k2, n, is)
    BY <1>2, <2>1, LoadedOnce
  <2>3. /\ ~d2.has_cta /\ d2.has_pending
        /\ d2.pending_cta = (IF dd[c].has_pending THEN dd[c].pending_cta ELSE KmuRequest(k))
    <3>1. PICK d \in DispatcherType : d = dd[c]
      BY <1>0
    <3>2. /\ Loaded(d, k).has_cta = d.has_cta /\ Loaded(d, k).has_pending = TRUE
          /\ Loaded(d, k).pending_cta = (IF d.has_pending THEN d.pending_cta ELSE KmuRequest(k))
      BY <1>0, LoadedParts
    <3> QED BY <1>2, <2>1, <3>1, <3>2
  <2>4. Good(d2.pending_cta.kernel)
    <3>1. KmuRequest(k).kernel = k.kernel
      BY DEF KmuRequest
    <3> QED BY <1>0, <2>3, <3>1
  <2>5. n[c] = d2
    BY <1>0, <2>1
  <2>6. Once(k2, [n EXCEPT ![c] = Admitted(d2)], is)
    BY <2>2, <2>3, <2>4, <2>5, AdmittedOnce
  <2>7. [n EXCEPT ![c] = Admitted(d2)] = [dd EXCEPT ![c] = Held(dd[c], k)]
    <3>1. Held(dd[c], k) = Admitted(d2)
      BY <1>2, <2>1 DEF Held
    <3> QED BY <1>0, <2>1, <3>1
  <2> QED BY <1>2, <2>1, <2>6, <2>7
<1> QED BY <1>1, <1>2

LEMMA NextWarpOnce ==
    ASSUME NEW k, NEW dd, NEW is, Once(k, dd, is), NEW c \in Cores, NEW w \in Warps,
           dd[c].has_cta, dd[c].cta.kernel = k.kernel, dd[c].rank < CtaSize(k.kernel)
    PROVE  Once(k, [dd EXCEPT ![c] = NextWarp(dd[c], w)],
                [is EXCEPT ![<<dd[c].cta.block_idx, dd[c].rank>>] = @ + 1])
<1>0. dd[c] \in DispatcherType /\ ~dd[c].has_pending /\ Good(k.kernel)
  BY DEF Once, WalkOk
<1>1. PICK d2, b0, r0 : d2 = NextWarp(dd[c], w) /\ b0 = dd[c].cta.block_idx /\ r0 = dd[c].rank
  OBVIOUS
<1>2. PICK size \in Nat : size = CtaSize(k.kernel)
  BY <1>0, CtaSizePositive
<1>3. /\ d2 \in DispatcherType /\ d2.has_cta = (r0 + 1 < size) /\ d2.rank = r0 + 1
      /\ d2.cta = dd[c].cta /\ ~d2.has_pending
  <2>1. PICK d \in DispatcherType : d = dd[c]
    BY <1>0
  <2>2. /\ NextWarp(d, w) \in DispatcherType
        /\ NextWarp(d, w).has_cta = (d.rank + 1 < CtaSize(d.cta.kernel))
        /\ NextWarp(d, w).rank = d.rank + 1 /\ NextWarp(d, w).cta = d.cta
        /\ NextWarp(d, w).has_pending = d.has_pending
    BY <1>0, <2>1, NextWarpParts
  <2> QED BY <1>0, <1>1, <1>2, <2>1, <2>2
<1>4. r0 \in Nat /\ r0 < size
  BY <1>0, <1>1, <1>2, DispatcherParts
<1>5. \A r : r \in Ranks(k.kernel) <=> r \in Nat /\ r < size
  BY <1>2 DEF Ranks
<1>6. r0 \in Ranks(k.kernel) /\ Waits(dd[c], b0, r0)
  BY <1>1, <1>4, <1>5 DEF Waits, Has
<1>7. \A b : Has(d2, b) => Has(dd[c], b)
  BY <1>3 DEF Has
<1>8. ASSUME NEW b, NEW r \in Ranks(k.kernel)
      PROVE  Waits(d2, b, r) <=> Waits(dd[c], b, r) /\ <<b, r>> # <<b0, r0>>
  <2>1. r \in Nat /\ r < size
    BY <1>5
  <2>2. Waits(dd[c], b, r) <=> b = b0 /\ r >= r0
    BY <1>1 DEF Waits, Has
  <2>3. Waits(d2, b, r) <=> r0 + 1 < size /\ b = b0 /\ r >= r0 + 1
    BY <1>1, <1>3 DEF Waits, Has
  <2>4. r >= r0 /\ r # r0 <=> r0 + 1 < size /\ r >= r0 + 1
    BY <1>4, <2>1
  <2> QED BY <2>2, <2>3, <2>4
<1>9. Once(k, [dd EXCEPT ![c] = d2], [is EXCEPT ![<<b0, r0>>] = @ + 1])
  BY <1>3, <1>6, <1>7, <1>8, OnceStarted
<1> QED BY <1>1, <1>9

LEMMA WarpDoneOnce ==
    ASSUME NEW k, NEW dd, NEW is, Once(k, dd, is), NEW c \in Cores, NEW act, NEW w \in act,
           Sound(dd[c], act)
    PROVE  Once(k, [dd EXCEPT ![c] = WarpDone(dd[c], w)], is)
<1>1. PICK d2 : d2 = WarpDone(dd[c], w)
  OBVIOUS
<1>2. /\ d2 \in DispatcherType
      /\ d2.has_cta = dd[c].has_cta /\ d2.rank = dd[c].rank /\ d2.cta = dd[c].cta
      /\ d2.has_pending = dd[c].has_pending /\ d2.pending_cta = dd[c].pending_cta
  <2>1. PICK d : d = dd[c]
    OBVIOUS
  <2>2. /\ WarpDone(d, w) \in DispatcherType
        /\ WarpDone(d, w).has_cta = d.has_cta /\ WarpDone(d, w).rank = d.rank
        /\ WarpDone(d, w).cta = d.cta /\ WarpDone(d, w).has_pending = d.has_pending
        /\ WarpDone(d, w).pending_cta = d.pending_cta
    <3>1. Sound(d, act) /\ d \in DispatcherType
      BY <2>1 DEF Sound
    <3>2. WarpDone(d, w) \in DispatcherType
      BY <3>1, WarpDoneSound DEF Sound
    <3> QED BY <3>1, <3>2 DEF WarpDone, DispatcherType
  <2> QED BY <1>1, <2>1, <2>2
<1>3. ~(d2.has_cta /\ d2.has_pending)
  BY <1>2 DEF Once
<1>4. \A b : Has(d2, b) <=> Has(dd[c], b)
  BY <1>2 DEF Has
<1>5. \A b : \A r \in Nat : Waits(d2, b, r) <=> Waits(dd[c], b, r)
  BY <1>2, <1>4 DEF Waits
<1>6. Once(k, [dd EXCEPT ![c] = d2], is)
  BY <1>2, <1>3, <1>4, <1>5, OnceKept
<1> QED BY <1>1, <1>6
OnceInv == Once(kmu, disp, issued)

LEMMA NothingHad == \A b : ~Has(ResetDispatcher, b)
BY DEF Has, ResetDispatcher

(* A launch: the walk stands at the first block, or the grid is empty.     *)
LEMMA FreshOnce ==
    ASSUME NEW k, NEW dd, WalkOk(k), dd = [c \in Cores |-> ResetDispatcher],
           \A b \in Blocks(k.kernel) : ~Handed(k, b)
    PROVE  Once(k, dd, NothingIssued(k.kernel))
<1>1. ResetDispatcher \in DispatcherType
  BY ResetSound DEF Sound
<1>2. dd \in [Cores -> DispatcherType] /\ \A c \in Cores : dd[c] = ResetDispatcher
  BY <1>1
<1>3. \A c \in Cores : \A b : ~Has(dd[c], b)
  BY <1>2, NothingHad
<1>4. \A c \in Cores : ~dd[c].has_cta
  BY <1>2 DEF ResetDispatcher
<1>5. /\ NothingIssued(k.kernel) \in [Pairs(k.kernel) -> {0, 1}]
      /\ \A br \in Pairs(k.kernel) : NothingIssued(k.kernel)[br] = 0
  BY DEF NothingIssued, Pairs
<1>6. \A b \in Blocks(k.kernel), r \in Ranks(k.kernel) : NothingIssued(k.kernel)[<<b, r>>] = 0
  BY <1>5 DEF Pairs
<1> HIDE DEF NothingIssued
<1> QED BY <1>2, <1>3, <1>4, <1>5, <1>6 DEF Once

LEMMA ZeroReads ==
    ASSUME NEW step \in Dims, NEW limit \in Dims, \A i \in Axes : limit[i] > 0
    PROVE  Reading(Zero, step, limit)
<1>1. Zero \in Dims /\ \A i \in Axes : Zero[i] = 0
  BY DEF Zero, Dims
<1>2. ASSUME NEW i \in Axes PROVE Multiple(0, step[i])
  <2>1. 0 = step[i] * 0
    BY DEF Dims
  <2> QED BY <2>1 DEF Multiple
<1> QED BY <1>1, <1>2 DEF Reading

LEMMA InitOnce == DispatchInit => OnceInv
<1> SUFFICES ASSUME DispatchInit PROVE OnceInv
  OBVIOUS
<1>1. kmu = ResetKmu /\ kmu.kernel = NoCta.kernel /\ ~kmu.running /\ kmu \in KmuType
  BY ResetKmuType DEF DispatchInit, ResetKmu
<1>2. Tiled(NoCta.kernel)
  BY DEF Tiled, NoCta, Zero, One, Axes
<1>3. WalkOk(kmu)
  BY <1>1, <1>2, GoodNoCta DEF WalkOk
<1>4. Blocks(kmu.kernel) = {}
  <2>1. NoCta.kernel.grid[1] = 0
    BY DEF NoCta, Zero, Axes
  <2>2. 0 .. NoCta.kernel.grid[1] - 1 = {}
    BY <2>1
  <2> QED BY <1>1, <2>2 DEF Blocks
<1>5. disp = [c \in Cores |-> ResetDispatcher] /\ issued = NothingIssued(kmu.kernel)
  BY <1>1 DEF DispatchInit
<1> QED BY <1>3, <1>4, <1>5, FreshOnce DEF OnceInv

LEMMA LaunchOnce ==
    ASSUME DispatchInv, NEW k \in Kernels, Launch(k)
    PROVE  OnceInv'
<1>1. Good(k) /\ Tiled(k) /\ k \in Kernel
  BY GoodKernels, DispatchAssumption DEF Good, Tiled
<1>2. PICK m : m = kmu'
  OBVIOUS
<1>3. m \in KmuType /\ m.kernel = k /\ m.origin = Zero /\ m.intra = Zero
      /\ m.running = (BlockSize(k) > 0 /\ Volume(k.grid) > 0)
  <2> DEFINE run == BlockSize(k) > 0 /\ Volume(k.grid) > 0
  <2>1. run \in BOOLEAN /\ ResetKmu \in KmuType
    BY ResetKmuType
  <2>2. m = [ResetKmu EXCEPT !.kernel = k, !.running = run]
    BY <1>2 DEF Launch
  <2>3. ResetKmu.origin = Zero /\ ResetKmu.intra = Zero
    BY DEF ResetKmu
  <2> HIDE DEF run
  <2>4. m \in KmuType /\ m.kernel = k /\ m.origin = ResetKmu.origin /\ m.intra = ResetKmu.intra /\ m.running = run
    BY <1>1, <2>1, <2>2 DEF KmuType
  <2> QED BY <2>3, <2>4 DEF run
<1>4. k.cluster \in Dims /\ k.grid \in Dims /\ One \in Dims /\ \A i \in Axes : k.cluster[i] > 0
  BY <1>1, TiledSteps
<1>5. PICK g1 \in Nat, g2 \in Nat, g3 \in Nat : g1 = k.grid[1] /\ g2 = k.grid[2] /\ g3 = k.grid[3]
  BY <1>4, DimParts
<1>6. m.running => g1 > 0 /\ g2 > 0 /\ g3 > 0
  <2> SUFFICES ASSUME m.running PROVE g1 # 0 /\ g2 # 0 /\ g3 # 0
    BY <1>5
  <2>1. g1 * g2 * g3 > 0
    BY <1>3, <1>5 DEF Volume
  <2> QED BY <1>5, <2>1
<1>7. m.running => \A i \in Axes : k.grid[i] > 0
  BY <1>5, <1>6 DEF Axes
<1>8. WalkOk(m)
  BY <1>1, <1>3, <1>4, <1>7, ZeroReads DEF WalkOk
<1>9. ASSUME NEW b \in Blocks(k) PROVE ~Handed(m, b)
  <2>1. \A i \in Axes : b[i] \in Nat /\ b[i] < k.grid[i]
    BY <1>1, BlocksAre DEF Dims
  <2>2. g1 > 0 /\ g2 > 0 /\ g3 > 0
    BY <1>5, <2>1 DEF Axes
  <2>3. m.running
    <3>1. g1 * g2 > 0
      BY <1>5, <2>2, ProductPositive
    <3>2. PICK n \in Nat : n = g1 * g2
      BY <1>5
    <3>3. n * g3 > 0
      BY <1>5, <2>2, <3>1, <3>2, ProductPositive
    <3>4. Volume(k.grid) > 0
      BY <1>5, <3>2, <3>3 DEF Volume
    <3>5. BlockSize(k) > 0
      BY <1>1, VolumePositive, KernelParts DEF BlockSize, Good
    <3> QED BY <1>3, <3>4, <3>5
  <2>4. Corner(k, b) \in Dims /\ Member(k, b) \in Dims
    BY <1>1, BlockDigits DEF Reading
  <2> QED BY <1>3, <2>3, <2>4, NotBeforeItself DEF Handed
<1>10. disp' = [c \in Cores |-> ResetDispatcher] /\ issued' = NothingIssued(k)
  BY DEF Launch
<1>11. Once(m, disp', NothingIssued(m.kernel))
  BY <1>3, <1>8, <1>9, <1>10, FreshOnce
<1> QED BY <1>2, <1>3, <1>10, <1>11 DEF OnceInv
LEMMA StepOnce ==
    ASSUME DispatchInv, OnceInv, NEW c \in Cores, DispatchStep(c)
    PROVE  OnceInv'
<1>1. PICK k, dd, is, act : k = kmu /\ dd = disp /\ is = issued /\ act = active[c]
  OBVIOUS
<1>2. Once(k, dd, is) /\ dd \in [Cores -> DispatcherType] /\ k \in KmuType /\ Good(k.kernel)
  BY <1>1 DEF OnceInv, Once, WalkOk
<1>3. /\ Sound(dd[c], act) /\ Placed(dd[c], act, warp[c], k.kernel) /\ act \subseteq Warps
      /\ Good(dd[c].pending_cta.kernel) /\ dd[c] \in DispatcherType
  BY <1>1 DEF DispatchInv, OnCore, Sound
<1>4. HasWork(c) /\ kmu' = KmuAfterLoad(c)
  BY DEF DispatchStep, StartNothing, StepBlocked, StepNoWarp, StartWarp
<1>5. dd[c].has_cta \/ dd[c].has_pending \/ k.running
  BY <1>1, <1>4 DEF HasWork, FetchesCta
<1>6. PICK k2 : k2 = IF dd[c].has_cta \/ dd[c].has_pending THEN k ELSE KmuAdvance(k)
  OBVIOUS
<1>7. kmu' = k2 /\ k2.kernel = k.kernel
  BY <1>1, <1>2, <1>4, <1>6, KmuAdvanceParts DEF KmuAfterLoad, FetchesCta
<1>8. PICK h : h = Holding(c)
  OBVIOUS
<1>9. h = Held(dd[c], k)
  BY <1>1, <1>8 DEF Holding, Held
<1>10. Once(k2, [dd EXCEPT ![c] = h], is)
  BY <1>2, <1>3, <1>5, <1>6, <1>9, HeldOnce
<1>11. CASE StepBlocked(c) /\ UNCHANGED <<active, warp, launches, issued>>
  <2>1. ~dd[c].has_cta /\ disp' = [dd EXCEPT ![c] = Loaded(dd[c], k)] /\ issued' = is
    BY <1>1, <1>11 DEF StepBlocked, Blocked
  <2>2. Once(k2, [dd EXCEPT ![c] = Loaded(dd[c], k)], is)
    BY <1>2, <1>5, <1>6, <2>1, LoadedOnce
  <2> QED BY <1>7, <2>1, <2>2 DEF OnceInv
<1>12. CASE StepNoWarp(c) /\ UNCHANGED <<active, warp, launches, issued>>
  <2>1. disp' = [dd EXCEPT ![c] = h] /\ issued' = is
    BY <1>1, <1>8, <1>12 DEF StepNoWarp
  <2> QED BY <1>7, <1>10, <2>1 DEF OnceInv
<1>13. CASE StartWarp(c)
  <2>1. PICK w, n : w = LowestFree(act) /\ n = [dd EXCEPT ![c] = h]
    OBVIOUS
  <2>2. /\ disp' = [dd EXCEPT ![c] = NextWarp(h, w)]
        /\ issued' = [is EXCEPT ![<<h.cta.block_idx, h.rank>>] = @ + 1]
    BY <1>1, <1>8, <1>13, <2>1 DEF StartWarp
  <2>3. w \in Warps
    BY <1>1, <1>3, <1>13, <2>1, LowestFreeInactive DEF StartWarp
  <2>4. dd[c].has_cta \/ WindowFree(dd[c], Loaded(dd[c], k).pending_cta)
    BY <1>1, <1>13 DEF StartWarp, Blocked
  <2>5. Sound(h, act) /\ Placed(h, act, warp[c], k.kernel) /\ h.has_cta
    BY <1>2, <1>3, <1>9, <2>4, HeldSound
  <2>6. h.cta.kernel = k2.kernel /\ h.rank < CtaSize(k2.kernel)
    BY <1>7, <2>5 DEF Sound, Placed
  <2>7. n[c] = h /\ [n EXCEPT ![c] = NextWarp(h, w)] = [dd EXCEPT ![c] = NextWarp(h, w)]
    BY <1>2, <2>1
  <2>8. Once(k2, n, is)
    BY <1>10, <2>1
  <2>9. Once(k2, [n EXCEPT ![c] = NextWarp(n[c], w)],
             [is EXCEPT ![<<n[c].cta.block_idx, n[c].rank>>] = @ + 1])
    BY <2>3, <2>5, <2>6, <2>7, <2>8, NextWarpOnce
  <2> QED BY <1>7, <2>2, <2>7, <2>9 DEF OnceInv
<1> QED BY <1>11, <1>12, <1>13 DEF DispatchStep, StartNothing

LEMMA RetireOnce ==
    ASSUME DispatchInv, OnceInv, NEW c \in Cores, NEW w, RetireWarp(c, w)
    PROVE  OnceInv'
<1>1. PICK k, dd, is, act : k = kmu /\ dd = disp /\ is = issued /\ act = active[c]
  OBVIOUS
<1>2. Once(k, dd, is) /\ Sound(dd[c], act) /\ w \in act
  BY <1>1 DEF OnceInv, DispatchInv, OnCore, RetireWarp
<1>3. kmu' = k /\ issued' = is /\ disp' = [dd EXCEPT ![c] = WarpDone(dd[c], w)]
  BY <1>1 DEF RetireWarp
<1>4. Once(k, [dd EXCEPT ![c] = WarpDone(dd[c], w)], is)
  BY <1>2, WarpDoneOnce
<1> QED BY <1>3, <1>4 DEF OnceInv

LEMMA OnceInvariant == DispatchRuns => []OnceInv
<1>1. DispatchInit => OnceInv
  BY InitOnce
<1>2. DispatchInv /\ OnceInv /\ [DispatchNext]_dispatchVars => OnceInv'
  <2> SUFFICES ASSUME DispatchInv, OnceInv, [DispatchNext]_dispatchVars PROVE OnceInv'
    OBVIOUS
  <2>1. CASE UNCHANGED dispatchVars
    BY <2>1 DEF dispatchVars, OnceInv
  <2>2. CASE \E k \in Kernels : Launch(k)
    BY <2>2, LaunchOnce
  <2>3. CASE \E c \in Cores : DispatchStep(c)
    BY <2>3, StepOnce
  <2>4. CASE \E c \in Cores, w \in Warps : RetireWarp(c, w)
    BY <2>4, RetireOnce
  <2> QED BY <2>1, <2>2, <2>3, <2>4 DEF DispatchNext
<1> QED BY <1>1, <1>2, DispatchInvariant, PTL DEF DispatchRuns

LEMMA StartsKept == DispatchRuns => []EachWarpOnce
<1>1. OnceInv => EachWarpOnce
  <2> SUFFICES ASSUME OnceInv PROVE EachWarpOnce
    OBVIOUS
  <2>1. issued \in [Pairs(kmu.kernel) -> {0, 1}] /\ Once(kmu, disp, issued)
    BY DEF OnceInv, Once
  <2>2. \A br \in DOMAIN issued : issued[br] <= 1
    BY <2>1
  <2>3. ASSUME Idle, NEW br \in DOMAIN issued PROVE issued[br] = 1
    <3>1. PICK b \in Blocks(kmu.kernel), r \in Ranks(kmu.kernel) : br = <<b, r>>
      BY <2>1, <2>3 DEF Pairs
    <3>2. ~kmu.running /\ \A c \in Cores : ~disp[c].has_cta /\ ~disp[c].has_pending
      BY <2>3, DispatchAssumption DEF Idle, DispatcherRunning
    <3>3. Handed(kmu, b) /\ \A c \in Cores : ~Waits(disp[c], b, r)
      BY <3>2 DEF Handed, Waits, Has
    <3> QED BY <2>1, <3>1, <3>3 DEF Once
  <2> QED BY <2>2, <2>3 DEF EachWarpOnce
<1> QED BY <1>1, OnceInvariant, PTL

(***************************************************************************)
(* For every grid, cluster shape, number of cores and interleaving of      *)
(* CtaDispatcher::step: no warp of a CTA is started twice, and a launch    *)
(* over which no core has work left has started every warp of every block. *)
(***************************************************************************)
THEOREM EachWarpStartsOnce == DispatchSpec => []EachWarpOnce
BY StartsKept, SpecRuns, PTL
=============================================================================

--------------------------- MODULE CacheBankProofs ---------------------------
(***************************************************************************)
(* Proofs about CacheBank, for any lines, sectors, harts, sizes, latencies *)
(* and traffic.                                                            *)
(***************************************************************************)
EXTENDS CacheBank, TLAPS, FiniteSetTheorems, FunctionTheorems, SequenceTheorems, WellFoundedInduction

-----------------------------------------------------------------------------
(* Smallest elements and ranks in an order.                                *)

\* Min of a set of numbers is the least of them.
LEMMA MinIn ==
  ASSUME NEW T \in SUBSET Nat, T # {}
  PROVE  Min(T) \in T /\ \A y \in T : Min(T) <= y
<1> DEFINE R == OpToRel(<, Nat)
<1>1. IsWellFoundedOn(R, Nat)
  BY NatLessThanWellFounded
<1> HIDE DEF R
<1>2. PICK x \in T : \A y \in T : ~(<<y, x>> \in R)
  BY <1>1, WFMin, Zenon
<1>3. \A y \in T : x <= y
  <2> SUFFICES ASSUME NEW y \in T PROVE x <= y
    OBVIOUS
  <2>1. x \in Nat /\ y \in Nat
    OBVIOUS
  <2>2. ~(y < x)
    BY <1>2, <2>1 DEF R, OpToRel
  <2> QED BY <2>1, <2>2
<1>4. \E w \in T : \A v \in T : w <= v
  BY <1>3
<1> QED BY <1>4 DEF Min

\* Before(D, R, x) is what comes before x in the order R of D.
Before(D, R, x) == {y \in D : <<y, x>> \in R}
StrictOrder(D, R) ==
  /\ \A x \in D : <<x, x>> \notin R
  /\ \A x, y \in D : x # y => <<x, y>> \in R \/ <<y, x>> \in R
  /\ \A x, y, z \in D : <<x, y>> \in R /\ <<y, z>> \in R => <<x, z>> \in R

\* In a finite ordered set there is an element for every rank.
LEMMA RankOnto ==
  ASSUME NEW D, IsFiniteSet(D), NEW R, StrictOrder(D, R), NEW n \in 1 .. Cardinality(D)
  PROVE  \E x \in D : Cardinality(Before(D, R, x)) = n - 1
<1> DEFINE N == 0 .. Cardinality(D) - 1
           f == [x \in D |-> Cardinality(Before(D, R, x))]
<1>1. Cardinality(D) \in Nat
  BY FS_CardinalityType
<1>2. ASSUME NEW x \in D
      PROVE  /\ IsFiniteSet(Before(D, R, x)) /\ Cardinality(Before(D, R, x)) \in Nat
             /\ Cardinality(Before(D, R, x)) < Cardinality(D)
  <2>1. Before(D, R, x) \subseteq D \ {x}
    BY DEF Before, StrictOrder
  <2>2. IsFiniteSet(D \ {x}) /\ Cardinality(D \ {x}) = Cardinality(D) - 1
    BY FS_RemoveElement
  <2>3. IsFiniteSet(Before(D, R, x)) /\ Cardinality(Before(D, R, x)) <= Cardinality(D \ {x})
    BY <2>1, <2>2, FS_Subset
  <2> QED BY <2>2, <2>3, <1>1, FS_CardinalityType
<1>3. ASSUME NEW x \in D, NEW y \in D, <<x, y>> \in R
      PROVE  Cardinality(Before(D, R, x)) < Cardinality(Before(D, R, y))
  <2>1. Before(D, R, x) \cup {x} \subseteq Before(D, R, y) /\ x \notin Before(D, R, x)
    BY <1>3 DEF Before, StrictOrder
  <2>2. Cardinality(Before(D, R, x) \cup {x}) = Cardinality(Before(D, R, x)) + 1
    BY <2>1, <1>2, FS_AddElement
  <2>3. Cardinality(Before(D, R, x) \cup {x}) <= Cardinality(Before(D, R, y))
    BY <2>1, <1>2, FS_Subset
  <2> QED BY <2>2, <2>3, <1>2
<1>4. f \in Injection(D, N)
  <2>1. f \in [D -> N]
    BY <1>1, <1>2
  <2>2. ASSUME NEW x \in D, NEW y \in D, x # y PROVE f[x] # f[y]
    <3>1. <<x, y>> \in R \/ <<y, x>> \in R
      BY <2>2 DEF StrictOrder
    <3>2. Cardinality(Before(D, R, x)) # Cardinality(Before(D, R, y))
      BY <3>1, <1>2, <1>3
    <3> QED BY <3>2
  <2> QED BY <2>1, <2>2 DEF Injection, IsInjective
<1>5. IsFiniteSet(N) /\ Cardinality(N) = Cardinality(D)
  <2>1. 0 \in Int /\ Cardinality(D) - 1 \in Int /\ 0 <= Cardinality(D) - 1
    BY <1>1
  <2> QED BY <2>1, <1>1, FS_Interval
<1>6. f \in Surjection(D, N)
  BY <1>4, <1>5, FS_Injection
<1>7. n - 1 \in N
  BY <1>1
<1>8. \E x \in D : f[x] = n - 1
  BY <1>6, <1>7 DEF Surjection
<1> QED BY <1>8
-----------------------------------------------------------------------------
(* Types.  The bytes another cache writes are never in what the bank marks  *)
(* dirty or sends below as its own.                                         *)

Own == Bytes \ config.foreign
DataType == [Bytes -> Nat]
SectorType == [valid : BOOLEAN, dirty : SUBSET Own, data : DataType]
LineType == [tag : Tags \cup {NoTag}, lru : Nat, sec : [Sectors -> SectorType]]
RequestType ==
  {r \in [id : Nat \ {0}, op : Ops, addr : Addr, en : SUBSET Bytes, hart : Harts,
          strsp : BOOLEAN, seq : Nat, skip : BOOLEAN] : r.op # "LD" => r.en \subseteq Own}
EntryType == {NoEntry} \cup [type : {"Core", "Replay"}, req : RequestType]
StageType ==
  [type : {"Core", "Replay"}, req : RequestType, age : Nat]
    \cup [type : {"AmoProbe"}, req : {r \in RequestType : r.op \notin {"LD", "ST"}}, age : Nat]
    \cup [type : {"Fill"}, addr : Addr, data : DataType, age : Nat]
MemReqType ==
  {q \in [op : Ops, addr : (Tags \cup {NoTag}) \X Sectors, tag : Nat, data : DataType,
          en : SUBSET Bytes] : /\ q.op # "LD" => q.en \subseteq Own
                               /\ q.op # "ST" => q.addr \in Addr}
StoreType == {q \in MemReqType : q.op = "ST"}
RspType == [tag : Nat, data : DataType]

WayType == way \in [Way -> LineType] /\ repl \in [fifo : Nat, rand : Nat]
MshrType == mshr \in [Entries -> EntryType]
PipeType == pipe \in Seq(StageType)
MemType ==
  /\ memReq \in Seq(MemReqType) /\ memRsp \in Seq(RspType)
  /\ dram \in SUBSET RspType /\ IsFiniteSet(dram)
  /\ ram \in [Addr -> DataType]
CoreType ==
  /\ coreReq \in Seq(RequestType) /\ issued \in Seq(RequestType)
  /\ admSeq \in Nat /\ passthru \in [Pids -> Nat]
PendingType == pending \in [mshr : Int, probes : Int, fills : Int]
TypeInv ==
  config \in Configs /\ WayType /\ MshrType /\ PipeType /\ MemType /\ CoreType /\ PendingType

\* The types depend on the configuration, which never changes.
LEMMA TypesFrame ==
  ASSUME config' = config
  PROVE  /\ Own' = Own /\ SectorType' = SectorType /\ LineType' = LineType
         /\ RequestType' = RequestType /\ EntryType' = EntryType /\ StageType' = StageType
         /\ MemReqType' = MemReqType /\ StoreType' = StoreType
         /\ Way' = Way /\ Entries' = Entries /\ MshrSize' = MshrSize
<1>1. Own' = Own
  BY DEF Own
<1>2. SectorType' = SectorType /\ RequestType' = RequestType /\ MemReqType' = MemReqType
  BY <1>1 DEF SectorType, RequestType, MemReqType
<1>3. LineType' = LineType /\ EntryType' = EntryType /\ StoreType' = StoreType
  BY <1>2 DEF LineType, EntryType, StoreType
<1>4. StageType' = StageType
  BY <1>2 DEF StageType
<1> QED BY <1>1, <1>2, <1>3, <1>4 DEF Way, Entries, MshrSize

LEMMA ConfigFacts ==
  ASSUME config \in Configs
  PROVE  /\ config.ways \in Nat \ {0} /\ MshrSize \in Nat \ {0}
         /\ config.write_back \in BOOLEAN /\ config.is_llc \in BOOLEAN
         /\ config.traffic \subseteq Request /\ config.foreign \subseteq Bytes
         /\ \A r \in config.traffic : r.op # "LD" => r.en \subseteq Own
         /\ Way \subseteq Nat /\ IsFiniteSet(Way) /\ Cardinality(Way) = config.ways
         /\ Entries \subseteq Nat /\ IsFiniteSet(Entries) /\ Cardinality(Entries) = MshrSize
         /\ config.repl \in {"FIFO", "RANDOM", "PLRU"}
<1>1. /\ config.ways \in Nat \ {0} /\ config.mshr_size \in Nat \ {0}
      /\ config.write_back \in BOOLEAN /\ config.is_llc \in BOOLEAN
      /\ config.traffic \subseteq Request /\ config.foreign \subseteq Bytes
      /\ \A r \in config.traffic : r.op # "LD" => r.en \cap config.foreign = {}
      /\ config.repl \in {"FIFO", "RANDOM", "PLRU"}
  BY CacheAssumption
<1>2. \A r \in config.traffic : r.op # "LD" => r.en \subseteq Own
  BY <1>1 DEF Request, Own
<1>3. 1 \in Int /\ config.mshr_size \in Int /\ ~(1 > config.mshr_size)
  BY <1>1
<1>4. IsFiniteSet(1 .. config.mshr_size) /\ Cardinality(1 .. config.mshr_size) = config.mshr_size
  BY <1>3, FS_Interval
<1>5. config.ways \in Int /\ ~(1 > config.ways)
  BY <1>1
<1>6. IsFiniteSet(1 .. config.ways) /\ Cardinality(1 .. config.ways) = config.ways
  BY <1>3, <1>5, FS_Interval
<1> QED BY <1>1, <1>2, <1>4, <1>6 DEF Way, Entries, MshrSize

LEMMA ConstantFacts ==
  /\ PassSize \in Nat \ {0} /\ Latency \in Nat \ {0} /\ PipeDepth \in Nat \ {0}
  /\ Depth \in Nat \ {0} /\ MaxReqs \in Nat \ {0}
  /\ Sectors \subseteq Int /\ IsFiniteSet(Sectors)
BY CacheAssumption

LEMMA InitTypes == Init => TypeInv
<1> SUFFICES ASSUME Init PROVE TypeInv
  OBVIOUS
<1>1. Zero \in DataType /\ NoEntry \in EntryType
  BY DEF Zero, DataType, EntryType
<1>2. EmptySector \in SectorType
  BY <1>1 DEF EmptySector, SectorType
<1>3. WayType
  BY <1>2 DEF Init, WayType, LineType
<1>4. MshrType
  BY <1>1 DEF Init, MshrType
<1>5. PipeType /\ CoreType /\ PendingType
  BY ConstantFacts DEF Init, PipeType, CoreType, PendingType
<1>6. MemType
  BY <1>1, FS_EmptySet DEF Init, MemType
<1> QED BY <1>3, <1>4, <1>5, <1>6 DEF Init, TypeInv
-----------------------------------------------------------------------------
(* The tag array.                                                           *)

LEMMA MergeType ==
  ASSUME NEW d \in DataType, NEW en, NEW id \in Nat
  PROVE  Merge(d, en, id) \in DataType
BY DEF DataType, Merge

LEMMA ZeroType == Zero \in DataType /\ EmptySector \in SectorType
BY DEF Zero, DataType, EmptySector, SectorType

\* A sector of a line is replaced by another.
LEMMA SectorStep ==
  ASSUME WayType, NEW w, NEW s, NEW x \in SectorType
  PROVE  [way EXCEPT ![w].sec[s] = x] \in [Way -> LineType]
<1>1. ASSUME w \in Way PROVE [way[w] EXCEPT !.sec[s] = x] \in LineType
  BY <1>1 DEF WayType, LineType
<1> QED BY <1>1 DEF WayType

LEMMA MergeSectorType ==
  ASSUME WayType, NEW a, NEW r \in RequestType, r.op # "LD"
  PROVE  MergeSector(a, r) \in [Way -> LineType]
<1> DEFINE w == Line(a)
           x == [valid |-> TRUE,
                 dirty |-> IF config.write_back THEN way[w].sec[a[2]].dirty \cup r.en
                           ELSE way[w].sec[a[2]].dirty,
                 data  |-> Merge(way[w].sec[a[2]].data, r.en, r.id)]
<1>1. r.en \subseteq Own /\ r.id \in Nat
  BY DEF RequestType
<1>2. CASE w \in Way /\ a[2] \in Sectors
  <2>1. way[w].sec[a[2]] \in SectorType
    BY <1>2 DEF WayType, LineType
  <2>2. x \in SectorType
    <3>1. Merge(way[w].sec[a[2]].data, r.en, r.id) \in DataType
      BY <2>1, <1>1, MergeType DEF SectorType
    <3> QED BY <3>1, <2>1, <1>1 DEF SectorType
  <2>3. MergeSector(a, r) = [way EXCEPT ![w].sec[a[2]] = x]
    BY DEF MergeSector
  <2> HIDE DEF x, w
  <2>4. [way EXCEPT ![w].sec[a[2]] = x] \in [Way -> LineType]
    BY <2>2, SectorStep
  <2> QED BY <2>3, <2>4
<1>3. CASE w \notin Way
  BY <1>3 DEF MergeSector, WayType
<1>4. CASE w \in Way /\ a[2] \notin Sectors
  <2>1. [way[w] EXCEPT !.sec[a[2]] = x] \in LineType
    BY <1>4 DEF WayType, LineType
  <2> QED BY <2>1 DEF MergeSector, WayType
<1> QED BY <1>2, <1>3, <1>4

LEMMA UpdateLruType ==
  ASSUME NEW wy \in [Way -> LineType], NEW hit
  PROVE  UpdateLru(wy, hit) \in [Way -> LineType]
<1>1. ASSUME NEW w \in Way, NEW n \in Nat PROVE [wy[w] EXCEPT !.lru = n] \in LineType
  BY DEF LineType
<1>2. \A w \in Way : wy[w].lru \in Nat
  BY DEF LineType
<1> QED BY <1>1, <1>2 DEF UpdateLru

\* What is written back from a dirty sector is a store of its own bytes.
LEMMA WriteBackType ==
  ASSUME WayType, NEW w \in Way, NEW s \in Sectors
  PROVE  WriteBack(w, s) \in StoreType
<1>1. way[w] \in LineType /\ way[w].sec[s] \in SectorType
  BY DEF WayType, LineType
<1> QED BY <1>1 DEF WriteBack, Write, StoreType, MemReqType, LineType, SectorType, Own, Ops

\* The sectors of a line have an increasing enumeration.
LEMMA InOrderType ==
  ASSUME NEW D \in SUBSET Sectors
  PROVE  /\ Cardinality(D) \in Nat
         /\ InOrder(D) \in [1 .. Cardinality(D) -> D]
<1> DEFINE R == {x \in D \X D : x[1] < x[2]}
           n == Cardinality(D)
           f == [i \in 1 .. n |-> CHOOSE x \in D : Cardinality(Before(D, R, x)) = i - 1]
<1>1. IsFiniteSet(D) /\ n \in Nat /\ D \subseteq Int
  BY ConstantFacts, FS_Subset, FS_CardinalityType
<1>2. StrictOrder(D, R)
  BY <1>1 DEF StrictOrder
<1>3. ASSUME NEW i \in 1 .. n PROVE f[i] \in D /\ Cardinality(Before(D, R, f[i])) = i - 1
  <2>1. \E x \in D : Cardinality(Before(D, R, x)) = i - 1
    BY <1>1, <1>2, RankOnto
  <2> QED BY <2>1
<1>4. ASSUME NEW i \in 1 .. n, NEW j \in 1 .. n, i < j PROVE f[i] < f[j]
  <2> DEFINE x == f[i]
             y == f[j]
  <2>1. x \in D /\ y \in D /\ Cardinality(Before(D, R, x)) = i - 1
                           /\ Cardinality(Before(D, R, y)) = j - 1
    BY <1>3
  <2> HIDE DEF x, y, f
  <2>2. ASSUME ~(x < y) PROVE FALSE
    <3>1. Before(D, R, y) \subseteq Before(D, R, x)
      <4>1. x \in Int /\ y \in Int /\ y <= x
        BY <2>1, <2>2, <1>1
      <4>2. ASSUME NEW z \in D, <<z, y>> \in R PROVE <<z, x>> \in R
        <5>1. z \in Int /\ z < y
          BY <4>2, <1>1
        <5> QED BY <5>1, <4>1, <2>1
      <4> QED BY <4>2 DEF Before
    <3>2. IsFiniteSet(Before(D, R, x))
      BY <1>1, FS_Subset DEF Before
    <3>3. Cardinality(Before(D, R, y)) <= Cardinality(Before(D, R, x))
      BY <3>1, <3>2, FS_Subset
    <3> QED BY <3>3, <2>1, <1>4
  <2> QED BY <2>2 DEF x, y
<1>5. f \in [1 .. n -> D] /\ DOMAIN f = 1 .. n
  BY <1>3
<1> HIDE DEF f
<1>6. \E g \in [1 .. n -> D] : \A i, j \in DOMAIN g : i < j => g[i] < g[j]
  BY <1>4, <1>5
<1> QED BY <1>1, <1>6 DEF InOrder

LEMMA WriteBacksType ==
  ASSUME WayType, NEW w \in Way
  PROVE  WriteBacks(w) \in Seq(StoreType)
<1> DEFINE D == {s \in Sectors : way[w].sec[s].valid /\ way[w].sec[s].dirty # {}}
           order == InOrder(D)
<1>1. Cardinality(D) \in Nat /\ order \in [1 .. Cardinality(D) -> D]
  BY InOrderType
<1>2. \A i \in 1 .. Cardinality(D) : WriteBack(w, order[i]) \in StoreType
  BY <1>1, WriteBackType
<1>3. WriteBacks(w) = [i \in 1 .. Cardinality(D) |-> WriteBack(w, order[i])]
  BY <1>1 DEF WriteBacks
<1> HIDE DEF order, D
<1> QED BY <1>1, <1>2, <1>3
\* Max of a finite set of numbers is one of them.
LEMMA MaxIn ==
  ASSUME NEW T, T \subseteq Int, IsFiniteSet(T), T # {}
  PROVE  Max(T) \in T
<1> DEFINE R == {x \in T \X T : x[1] < x[2]}
<1>1. T \subseteq Int /\ IsFiniteSet(T)
  OBVIOUS
<1>2. StrictOrder(T, R)
  BY <1>1 DEF StrictOrder
<1>3. Cardinality(T) \in Nat /\ Cardinality(T) # 0
  BY <1>1, FS_CardinalityType, FS_EmptySet
<1>4. PICK x \in T : Cardinality(Before(T, R, x)) = Cardinality(T) - 1
  <2>1. Cardinality(T) \in 1 .. Cardinality(T)
    BY <1>3
  <2> HIDE DEF R
  <2> QED BY <1>1, <1>2, <2>1, RankOnto
<1>5. Before(T, R, x) = T \ {x}
  <2>1. Before(T, R, x) \subseteq T \ {x}
    BY <1>2 DEF Before, StrictOrder
  <2>2. IsFiniteSet(T \ {x}) /\ Cardinality(T \ {x}) = Cardinality(T) - 1
    BY <1>1, FS_RemoveElement
  <2> QED BY <2>1, <2>2, <1>4, FS_Subset
<1>6. ASSUME NEW y \in T PROVE x >= y
  <2>1. x \in Int /\ y \in Int
    BY <1>1
  <2>2. y # x => y < x
    BY <1>5 DEF Before
  <2> QED BY <2>1, <2>2
<1>7. \E w \in T : \A v \in T : w >= v
  BY <1>6
<1> QED BY <1>7 DEF Max

\* Some line is the oldest.
LEMMA SomeOldest ==
  ASSUME config \in Configs, WayType
  PROVE  \E w \in Way : \A v \in Way : way[v].lru <= way[w].lru
<1> DEFINE age == [w \in Way |-> way[w].lru]
           R == {x \in Way \X Way : age[x[1]] < age[x[2]] \/ (age[x[1]] = age[x[2]] /\ x[1] < x[2])}
<1>1. \A w \in Way : age[w] = way[w].lru /\ age[w] \in Nat
  BY DEF WayType, LineType
<1> HIDE DEF age
<1>2. Way \subseteq Nat /\ IsFiniteSet(Way) /\ Cardinality(Way) = config.ways
      /\ config.ways \in Nat \ {0}
  BY ConfigFacts
<1>3. StrictOrder(Way, R)
  <2>0. \A x, y \in Way : <<x, y>> \in R <=> age[x] < age[y] \/ (age[x] = age[y] /\ x < y)
    OBVIOUS
  <2> HIDE DEF R
  <2>1. \A x \in Way : <<x, x>> \notin R
    BY <1>1, <1>2, <2>0
  <2>2. \A x, y \in Way : x # y => <<x, y>> \in R \/ <<y, x>> \in R
    BY <1>1, <1>2, <2>0
  <2>3. ASSUME NEW x \in Way, NEW y \in Way, NEW z \in Way, <<x, y>> \in R, <<y, z>> \in R
        PROVE  <<x, z>> \in R
    <3>1. /\ age[x] \in Nat /\ age[y] \in Nat /\ age[z] \in Nat
          /\ x \in Nat /\ y \in Nat /\ z \in Nat
      BY <1>1, <1>2
    <3>2. age[x] < age[y] \/ (age[x] = age[y] /\ x < y)
      BY <2>0, <2>3
    <3>3. age[y] < age[z] \/ (age[y] = age[z] /\ y < z)
      BY <2>0, <2>3
    <3>4. age[x] < age[z] \/ (age[x] = age[z] /\ x < z)
      BY <3>1, <3>2, <3>3
    <3> QED BY <2>0, <3>4
  <2> QED BY <2>1, <2>2, <2>3 DEF StrictOrder
<1>4. PICK x \in Way : Cardinality(Before(Way, R, x)) = config.ways - 1
  <2>1. Cardinality(Way) \in 1 .. Cardinality(Way)
    BY <1>2
  <2> HIDE DEF R
  <2>2. \E x \in Way : Cardinality(Before(Way, R, x)) = Cardinality(Way) - 1
    BY <1>2, <1>3, <2>1, RankOnto
  <2> QED BY <1>2, <2>2
<1>5. Before(Way, R, x) = Way \ {x}
  <2>1. Before(Way, R, x) \subseteq Way \ {x}
    BY <1>1, <1>2 DEF Before
  <2>2. IsFiniteSet(Way \ {x}) /\ Cardinality(Way \ {x}) = Cardinality(Way) - 1
    BY <1>2, FS_RemoveElement
  <2> QED BY <2>1, <2>2, <1>2, <1>4, FS_Subset
<1>6. ASSUME NEW v \in Way PROVE age[v] <= age[x]
  <2>1. CASE v = x
    BY <2>1, <1>1
  <2>2. CASE v # x
    <3>1. <<v, x>> \in R
      BY <2>2, <1>5 DEF Before
    <3> QED BY <3>1, <1>1
  <2> QED BY <2>1, <2>2
<1> QED BY <1>1, <1>6

LEMMA VictimInWay ==
  ASSUME config \in Configs, WayType
  PROVE  SelectVictim \in Way
<1> DEFINE free == {w \in Way : ~AnyValid(w)}
           oldest == {w \in Way : \A v \in Way : way[v].lru <= way[w].lru}
<1>1. Way \subseteq Nat /\ config.ways \in Nat \ {0} /\ Way = 1 .. config.ways
      /\ config.repl \in {"FIFO", "RANDOM", "PLRU"}
  BY ConfigFacts DEF Way
<1>2. free # {} => Min(free) \in Way
  BY <1>1, MinIn
<1>3. Max(oldest) \in Way
  <2>1. oldest # {} /\ oldest \subseteq Int /\ IsFiniteSet(oldest)
    BY SomeOldest, <1>1, ConfigFacts, FS_Subset
  <2> QED BY <2>1, MaxIn
<1>4. \A k \in Nat : (k % config.ways) + 1 \in Way
  BY <1>1
<1>5. repl.fifo \in Nat /\ repl.rand \in Nat
  BY DEF WayType
<1> HIDE DEF free, oldest
<1> QED BY <1>1, <1>2, <1>3, <1>4, <1>5 DEF SelectVictim, free, oldest
\* The flush walk cleans sectors and sends stores of their own bytes.
LEMMA WalkStep ==
  ASSUME config \in Configs, WayType, memReq \in Seq(MemReqType), Walk
  PROVE  /\ way' \in [Way -> LineType]
         /\ \E st \in Seq(StoreType) : memReq' = memReq \o st
<1> DEFINE D == DirtySectors
           ahead(x) == Cardinality({y \in DirtySectors : WalkBefore(y, x)})
           sent == {x \in DirtySectors : MemRoom(ahead(x) + 1)}
           nth(i) == CHOOSE x \in sent : ahead(x) = i - 1
           st == [i \in 1 .. Cardinality(sent) |-> WriteBack(nth(i)[1], nth(i)[2])]
           R == {x \in D \X D : WalkBefore(x[1], x[2])}
<1>1. D \subseteq Way \X Sectors /\ IsFiniteSet(D) /\ Way \subseteq Int /\ Sectors \subseteq Int
  <2>1. IsFiniteSet(Way) /\ IsFiniteSet(Sectors) /\ Way \subseteq Int /\ Sectors \subseteq Int
    BY ConfigFacts, ConstantFacts
  <2>2. D \subseteq Way \X Sectors
    BY DEF DirtySectors
  <2> QED BY <2>1, <2>2, FS_Product, FS_Subset
<1>2. StrictOrder(D, R)
  <2> HIDE DEF D
  <2>0. \A S, T : \A x \in S \X T : x[1] \in S /\ x[2] \in T /\ x = <<x[1], x[2]>>
    OBVIOUS
  <2>1. \A x \in D : x[1] \in Int /\ x[2] \in Int /\ x = <<x[1], x[2]>>
    BY <1>1, <2>0
  <2>2. \A x \in D : <<x, x>> \notin R
    BY <2>1 DEF WalkBefore
  <2>3. ASSUME NEW x \in D, NEW y \in D, x # y PROVE <<x, y>> \in R \/ <<y, x>> \in R
    <3>1. x[1] # y[1] \/ x[2] # y[2]
      BY <2>1, <2>3
    <3> QED BY <3>1, <2>1 DEF WalkBefore
  <2>4. \A x, y, z \in D : <<x, y>> \in R /\ <<y, z>> \in R => <<x, z>> \in R
    BY <2>1 DEF WalkBefore
  <2> HIDE DEF R
  <2> QED BY <2>2, <2>3, <2>4 DEF StrictOrder
<1>3. ASSUME NEW x \in D
      PROVE  /\ IsFiniteSet(Before(D, R, x)) /\ ahead(x) = Cardinality(Before(D, R, x))
             /\ ahead(x) \in Nat
  <2>1. Before(D, R, x) = {y \in D : WalkBefore(y, x)}
    BY DEF Before
  <2>2. IsFiniteSet(Before(D, R, x))
    BY <1>1, FS_Subset DEF Before
  <2> QED BY <2>1, <2>2, FS_CardinalityType
<1>4. ASSUME NEW x \in sent, NEW y \in D, <<y, x>> \in R PROVE y \in sent
  <2>1. Before(D, R, y) \subseteq Before(D, R, x)
    BY <1>2, <1>4 DEF Before, StrictOrder
  <2>2. ahead(y) <= ahead(x)
    BY <2>1, <1>3, FS_Subset
  <2>3. Len(memReq) \in Nat /\ Depth \in Nat /\ Len(memReq) + (ahead(x) + 1) <= Depth
    BY ConstantFacts DEF MemRoom
  <2>4. Len(memReq) + (ahead(y) + 1) <= Depth
    <3>1. x \in D /\ ahead(x) \in Nat /\ ahead(y) \in Nat
      BY <1>3
    <3> HIDE DEF ahead
    <3> QED BY <3>1, <2>2, <2>3
  <2> QED BY <2>4 DEF MemRoom
<1>5. IsFiniteSet(sent) /\ Cardinality(sent) \in Nat /\ sent \subseteq D
  BY <1>1, FS_Subset, FS_CardinalityType
<1>6. ASSUME NEW i \in 1 .. Cardinality(sent) PROVE nth(i) \in sent
  <2>1. StrictOrder(sent, R)
    BY <1>2, <1>5 DEF StrictOrder
  <2>2. \A x \in sent : Before(sent, R, x) = Before(D, R, x)
    BY <1>4, <1>5 DEF Before
  <2> HIDE DEF sent, R, D, ahead
  <2>3. PICK x \in sent : Cardinality(Before(sent, R, x)) = i - 1
    BY <2>1, <1>5, RankOnto
  <2>4. ahead(x) = i - 1
    BY <2>2, <2>3, <1>3, <1>5
  <2>5. \E z \in sent : ahead(z) = i - 1
    BY <2>4
  <2> QED BY <2>5
<1>7. st \in Seq(StoreType)
  <2>1. ASSUME NEW i \in 1 .. Cardinality(sent) PROVE WriteBack(nth(i)[1], nth(i)[2]) \in StoreType
    <3>1. nth(i) \in Way \X Sectors
      BY <1>1, <1>5, <1>6
    <3> HIDE DEF nth
    <3> QED BY <3>1, WriteBackType
  <2> HIDE DEF nth, sent
  <2> QED BY <2>1, <1>5
<1>9. memReq' = memReq \o st
  BY DEF Walk
<1>10. way' \in [Way -> LineType]
  <2>1. way' = [w \in Way |-> [way[w] EXCEPT !.sec =
                 [s \in Sectors |-> IF <<w, s>> \in sent THEN [way[w].sec[s] EXCEPT !.dirty = {}]
                                    ELSE way[w].sec[s]]]]
    BY DEF Walk
  <2> HIDE DEF sent
  <2>2. ASSUME NEW w \in Way
        PROVE [s \in Sectors |-> IF <<w, s>> \in sent THEN [way[w].sec[s] EXCEPT !.dirty = {}]
                                 ELSE way[w].sec[s]] \in [Sectors -> SectorType]
    <3>1. \A s \in Sectors : way[w].sec[s] \in SectorType
      BY DEF WayType, LineType
    <3>2. \A s \in Sectors : [way[w].sec[s] EXCEPT !.dirty = {}] \in SectorType
      BY <3>1 DEF SectorType
    <3> QED BY <3>1, <3>2
  <2>3. ASSUME NEW w \in Way, NEW f \in [Sectors -> SectorType]
        PROVE  [way[w] EXCEPT !.sec = f] \in LineType
    BY DEF WayType, LineType
  <2> QED BY <2>1, <2>2, <2>3
<1> QED BY <1>7, <1>9, <1>10
-----------------------------------------------------------------------------
(* What is under way to the bank, by tag.                                   *)

Asking == {i \in DOMAIN memReq : memReq[i].op # "ST"}
ReqTags == {memReq[i].tag : i \in Asking}
MemTags == {d.tag : d \in dram}
RspTags == {memRsp[i].tag : i \in DOMAIN memRsp}
Flying == ReqTags \cup MemTags \cup RspTags

\* No tag is under way twice.
Once ==
  /\ \A i, j \in Asking : memReq[i].tag = memReq[j].tag => i = j
  /\ \A d, e \in dram : d.tag = e.tag => d = e
  /\ \A i, j \in DOMAIN memRsp : memRsp[i].tag = memRsp[j].tag => i = j
  /\ ReqTags \cap MemTags = {} /\ ReqTags \cap RspTags = {} /\ MemTags \cap RspTags = {}

\* Stores sent below bring nothing back.
LEMMA SendStores ==
  ASSUME MemType, Once, NEW st \in Seq(StoreType), memReq' = memReq \o st,
         UNCHANGED <<memRsp, dram>>
  PROVE  /\ memReq' \in Seq(MemReqType) /\ Once' /\ Flying' = Flying
         /\ ReqTags' = ReqTags /\ Asking' = Asking
<1>1. memReq \in Seq(MemReqType) /\ st \in Seq(MemReqType)
  BY SeqMonotonic DEF MemType, StoreType
<1>2. /\ memReq' \in Seq(MemReqType) /\ Len(memReq') = Len(memReq) + Len(st)
      /\ \A i \in 1 .. Len(memReq) + Len(st) :
           memReq'[i] = IF i <= Len(memReq) THEN memReq[i] ELSE st[i - Len(memReq)]
  BY <1>1, ConcatProperties
<1>3. Len(memReq) \in Nat /\ Len(st) \in Nat /\ DOMAIN memReq = 1 .. Len(memReq)
      /\ DOMAIN memReq' = 1 .. Len(memReq')
  BY <1>1, <1>2
<1>4. \A k \in 1 .. Len(st) : st[k].op = "ST"
  BY DEF StoreType
<1>5. /\ \A i \in DOMAIN memReq : i \in DOMAIN memReq' /\ memReq'[i] = memReq[i]
      /\ \A i \in DOMAIN memReq' \ DOMAIN memReq : memReq'[i].op = "ST"
  <2>1. \A i \in DOMAIN memReq : i \in DOMAIN memReq' /\ memReq'[i] = memReq[i]
    BY <1>2, <1>3
  <2>2. ASSUME NEW i \in DOMAIN memReq' \ DOMAIN memReq PROVE memReq'[i].op = "ST"
    <3>1. i - Len(memReq) \in 1 .. Len(st) /\ memReq'[i] = st[i - Len(memReq)]
      BY <1>2, <1>3
    <3> QED BY <3>1, <1>4
  <2> QED BY <2>1, <2>2
<1>6. Asking' = Asking
  BY <1>5 DEF Asking
<1>7. \A i \in Asking : memReq'[i] = memReq[i]
  BY <1>5 DEF Asking
<1>8. ReqTags' = ReqTags /\ MemTags' = MemTags /\ RspTags' = RspTags
  BY <1>6, <1>7 DEF ReqTags, MemTags, RspTags
<1>9. Once'
  <2>1. memRsp' = memRsp /\ dram' = dram
    OBVIOUS
  <2>2. \A i, j \in Asking' : memReq'[i].tag = memReq'[j].tag => i = j
    <3> SUFFICES ASSUME NEW i \in Asking', NEW j \in Asking', memReq'[i].tag = memReq'[j].tag
                 PROVE  i = j
      OBVIOUS
    <3>1. i \in Asking /\ j \in Asking
      BY <1>6
    <3>2. memReq[i].tag = memReq[j].tag
      BY <3>1, <1>7
    <3> QED BY <3>1, <3>2 DEF Once
  <2> QED BY <2>1, <2>2, <1>8 DEF Once
<1> QED BY <1>2, <1>6, <1>8, <1>9 DEF Flying

\* A request that wants an answer is sent under a new tag.
LEMMA SendAsk ==
  ASSUME MemType, Once, NEW q \in MemReqType, q.op # "ST", q.tag \notin Flying,
         memReq' = Append(memReq, q), UNCHANGED <<memRsp, dram>>
  PROVE  memReq' \in Seq(MemReqType) /\ Once' /\ Flying' = Flying \cup {q.tag}
<1> DEFINE n == Len(memReq)
<1>1. /\ memReq \in Seq(MemReqType) /\ n \in Nat /\ DOMAIN memReq = 1 .. n
      /\ memReq' \in Seq(MemReqType) /\ DOMAIN memReq' = 1 .. n + 1
      /\ \A i \in 1 .. n : memReq'[i] = memReq[i]
      /\ memReq'[n + 1] = q
  BY DEF MemType
<1>2. Asking' = Asking \cup {n + 1} /\ n + 1 \notin Asking
  BY <1>1 DEF Asking
<1>3. \A i \in Asking : memReq'[i] = memReq[i]
  BY <1>1 DEF Asking
<1> HIDE DEF n
<1>4. ReqTags' = ReqTags \cup {q.tag} /\ MemTags' = MemTags /\ RspTags' = RspTags
  BY <1>1, <1>2, <1>3 DEF ReqTags, MemTags, RspTags
<1>5. \A i \in Asking : memReq[i].tag # q.tag
  BY DEF Flying, ReqTags
<1>6. \A i, j \in Asking' : memReq'[i].tag = memReq'[j].tag => i = j
  <2> SUFFICES ASSUME NEW i \in Asking', NEW j \in Asking', memReq'[i].tag = memReq'[j].tag
               PROVE  i = j
    OBVIOUS
  <2>1. \A k \in Asking' : k # n + 1 => k \in Asking /\ memReq'[k] = memReq[k]
    BY <1>2, <1>3
  <2>2. memReq'[n + 1].tag = q.tag
    BY <1>1
  <2>3. CASE i # n + 1 /\ j # n + 1
    BY <2>1, <2>3 DEF Once
  <2>4. CASE i = n + 1 \/ j = n + 1
    BY <2>1, <2>2, <2>4, <1>5
  <2> QED BY <2>3, <2>4
<1>7. Once'
  <2>1. memRsp' = memRsp /\ dram' = dram
    OBVIOUS
  <2>2. q.tag \notin MemTags /\ q.tag \notin RspTags
    BY DEF Flying
  <2> QED BY <2>1, <2>2, <1>4, <1>6 DEF Once
<1> QED BY <1>1, <1>4, <1>7 DEF Flying

\* The tags of the tail of the requests are those after the first.
LEMMA TailAsking ==
  ASSUME MemType, memReq # << >>, memReq' = Tail(memReq)
  PROVE  /\ memReq' \in Seq(MemReqType) /\ Head(memReq) \in MemReqType
         /\ 1 \in DOMAIN memReq /\ memReq[1] = Head(memReq)
         /\ \A i \in DOMAIN memReq' : i + 1 \in DOMAIN memReq /\ memReq'[i] = memReq[i + 1]
                                      /\ i + 1 # 1
         /\ \A i \in DOMAIN memReq : i # 1 => i - 1 \in DOMAIN memReq' /\ (i - 1) + 1 = i
         /\ \A i, j \in DOMAIN memReq' : i + 1 = j + 1 => i = j
<1>1. memReq \in Seq(MemReqType)
  BY DEF MemType
<1>2. /\ Head(memReq) \in MemReqType /\ Tail(memReq) \in Seq(MemReqType)
      /\ Len(Tail(memReq)) = Len(memReq) - 1
      /\ \A i \in 1 .. Len(Tail(memReq)) : Tail(memReq)[i] = memReq[i + 1]
      /\ Len(memReq) \in Nat \ {0} /\ DOMAIN memReq = 1 .. Len(memReq)
      /\ DOMAIN Tail(memReq) = 1 .. Len(Tail(memReq)) /\ Head(memReq) = memReq[1]
  BY <1>1, HeadTailProperties, LenProperties, EmptySeq
<1> QED BY <1>2

\* Memory takes a request: its answer is under way instead.
LEMMA AcceptMoves ==
  ASSUME MemType, Once, MemAccept
  PROVE  MemType' /\ Once' /\ Flying' = Flying
<1> DEFINE q == Head(memReq)
           d == [tag |-> q.tag, data |-> ram[q.addr]]
<1>1. memReq # << >> /\ memReq' = Tail(memReq) /\ memRsp' = memRsp
      /\ dram' = IF q.op = "ST" THEN dram ELSE dram \cup {d}
  BY DEF MemAccept
<1>2. q \in MemReqType /\ memReq' \in Seq(MemReqType)
  BY <1>1, TailAsking
<1>3. q.op # "ST" => d \in RspType
  BY <1>2 DEF MemReqType, MemType, RspType
<1>4. ram' \in [Addr -> DataType]
  <2>1. \A f \in DataType : [b \in Bytes |-> IF b \in q.en THEN q.data[b] ELSE f[b]] \in DataType
    BY <1>2 DEF MemReqType, DataType
  <2> QED BY <2>1 DEF MemAccept, MemType
<1>5. MemType'
  <2>1. dram' \in SUBSET RspType
    BY <1>1, <1>3 DEF MemType
  <2>2. IsFiniteSet(dram')
    BY <1>1, FS_AddElement DEF MemType
  <2>3. memRsp' \in Seq(RspType)
    BY <1>1 DEF MemType
  <2> HIDE DEF q, d
  <2>4. MemReqType' = MemReqType
    BY TypesFrame DEF MemAccept, bank
  <2> QED BY <1>2, <1>4, <2>1, <2>2, <2>3, <2>4 DEF MemType
<1>6. \A i \in Asking' : i + 1 \in Asking /\ memReq'[i] = memReq[i + 1] /\ i + 1 # 1
  BY <1>1, TailAsking DEF Asking
<1>7. \A i \in Asking : i # 1 => i - 1 \in Asking' /\ (i - 1) + 1 = i
  BY <1>1, TailAsking DEF Asking
<1>8. \A i, j \in Asking' : i + 1 = j + 1 => i = j
  BY <1>1, TailAsking DEF Asking
<1>9. 1 \in Asking <=> q.op # "ST"
  BY <1>1, TailAsking DEF Asking
<1>10. memReq[1] = q
  BY <1>1, TailAsking
<1>11. \A i, j \in Asking' : memReq'[i].tag = memReq'[j].tag => i = j
  BY <1>6, <1>8 DEF Once
<1>12. RspTags' = RspTags
  BY <1>1 DEF RspTags
<1>15. d.tag = q.tag
  OBVIOUS
<1> HIDE DEF q, d
<1>13. CASE q.op = "ST"
  <2>1. ReqTags' = ReqTags
    BY <1>6, <1>7, <1>9, <1>13 DEF ReqTags
  <2>2. MemTags' = MemTags
    BY <1>1, <1>13 DEF MemTags
  <2> QED BY <2>1, <2>2, <1>5, <1>11, <1>12, <1>1, <1>13 DEF Once, Flying
<1>14. CASE q.op # "ST"
  <2>1. q.tag \in ReqTags /\ q.tag \notin MemTags /\ q.tag \notin RspTags
    BY <1>9, <1>10, <1>14 DEF ReqTags, Once
  <2>2. \A i \in Asking : i # 1 => memReq[i].tag # q.tag
    BY <1>9, <1>10, <1>14 DEF Once
  <2>3. ReqTags' = ReqTags \ {q.tag}
    BY <1>6, <1>7, <2>2, <1>10 DEF ReqTags
  <2>4. MemTags' = MemTags \cup {q.tag}
    BY <1>1, <1>14, <1>15 DEF MemTags
  <2>5. \A x, y \in dram' : x.tag = y.tag => x = y
    BY <1>1, <1>14, <1>15, <2>1 DEF Once, MemTags
  <2> QED BY <2>1, <2>3, <2>4, <2>5, <1>5, <1>11, <1>12, <1>1 DEF Once, Flying
<1> QED BY <1>13, <1>14
\* Memory sends an answer.
LEMMA RespondMoves ==
  ASSUME MemType, Once, MemRespond
  PROVE  MemType' /\ Once' /\ Flying' = Flying
<1>1. PICK d \in dram : memRsp' = Append(memRsp, d) /\ dram' = dram \ {d}
  BY DEF MemRespond
<1>2. memReq' = memReq /\ ram' = ram /\ config' = config
  BY DEF MemRespond, bank
<1> DEFINE n == Len(memRsp)
<1>3. /\ n \in Nat /\ DOMAIN memRsp = 1 .. n /\ memRsp' \in Seq(RspType)
      /\ DOMAIN memRsp' = 1 .. n + 1 /\ memRsp'[n + 1] = d
      /\ \A i \in 1 .. n : memRsp'[i] = memRsp[i]
  BY <1>1 DEF MemType
<1>4. MemType'
  <2>1. dram' \in SUBSET RspType /\ IsFiniteSet(dram')
    BY <1>1, FS_RemoveElement DEF MemType
  <2>2. MemReqType' = MemReqType
    BY <1>2, TypesFrame
  <2> QED BY <1>2, <1>3, <2>1, <2>2 DEF MemType
<1>5. DOMAIN memRsp' = DOMAIN memRsp \cup {n + 1} /\ n + 1 \notin DOMAIN memRsp
  BY <1>3
<1>6. \A i \in DOMAIN memRsp : memRsp'[i] = memRsp[i]
  BY <1>3
<1> HIDE DEF n
<1>7. Asking' = Asking /\ ReqTags' = ReqTags
  BY <1>2 DEF Asking, ReqTags
<1>8. d.tag \in MemTags /\ d.tag \notin ReqTags /\ d.tag \notin RspTags
  BY DEF MemTags, Once
<1>9. RspTags' = RspTags \cup {d.tag}
  BY <1>3, <1>5, <1>6 DEF RspTags
<1>10. MemTags' = MemTags \ {d.tag}
  BY <1>1 DEF MemTags, Once
<1>11. \A i \in DOMAIN memRsp : memRsp[i].tag # d.tag
  BY <1>8 DEF RspTags
<1>12. \A i, j \in DOMAIN memRsp' : memRsp'[i].tag = memRsp'[j].tag => i = j
  <2> SUFFICES ASSUME NEW i \in DOMAIN memRsp', NEW j \in DOMAIN memRsp',
                      memRsp'[i].tag = memRsp'[j].tag
               PROVE  i = j
    OBVIOUS
  <2>1. \A k \in DOMAIN memRsp' : k # n + 1 => k \in DOMAIN memRsp /\ memRsp'[k] = memRsp[k]
    BY <1>5, <1>6
  <2>2. CASE i # n + 1 /\ j # n + 1
    BY <2>1, <2>2 DEF Once
  <2>3. CASE i = n + 1 \/ j = n + 1
    BY <2>1, <2>3, <1>3, <1>11
  <2> QED BY <2>2, <2>3
<1>13. \A x, y \in dram' : x.tag = y.tag => x = y
  BY <1>1 DEF Once
<1>14. \A i, j \in Asking' : memReq'[i].tag = memReq'[j].tag => i = j
  BY <1>2, <1>7 DEF Once
<1>15. Once'
  BY <1>7, <1>8, <1>9, <1>10, <1>12, <1>13, <1>14 DEF Once
<1> QED BY <1>4, <1>7, <1>8, <1>9, <1>10, <1>15 DEF Flying

\* The bank takes a response: its tag is no longer under way.
LEMMA TakeResponse ==
  ASSUME MemType, Once, memRsp # << >>, memRsp' = Tail(memRsp), UNCHANGED <<memReq, dram>>
  PROVE  /\ memRsp' \in Seq(RspType) /\ Rsp \in RspType /\ Rsp.tag \in Flying
         /\ Once' /\ Flying' = Flying \ {Rsp.tag}
<1>1. /\ Rsp \in RspType /\ memRsp' \in Seq(RspType)
      /\ 1 \in DOMAIN memRsp /\ memRsp[1] = Rsp
      /\ \A i \in DOMAIN memRsp' : i + 1 \in DOMAIN memRsp /\ memRsp'[i] = memRsp[i + 1] /\ i + 1 # 1
      /\ \A i \in DOMAIN memRsp : i # 1 => i - 1 \in DOMAIN memRsp' /\ (i - 1) + 1 = i
      /\ \A i, j \in DOMAIN memRsp' : i + 1 = j + 1 => i = j
  <2>1. memRsp \in Seq(RspType)
    BY DEF MemType
  <2>2. /\ Head(memRsp) \in RspType /\ Tail(memRsp) \in Seq(RspType)
        /\ Len(Tail(memRsp)) = Len(memRsp) - 1
        /\ \A i \in 1 .. Len(Tail(memRsp)) : Tail(memRsp)[i] = memRsp[i + 1]
        /\ Len(memRsp) \in Nat \ {0} /\ DOMAIN memRsp = 1 .. Len(memRsp)
        /\ DOMAIN Tail(memRsp) = 1 .. Len(Tail(memRsp)) /\ Head(memRsp) = memRsp[1]
    BY <2>1, HeadTailProperties, LenProperties, EmptySeq
  <2> QED BY <2>2 DEF Rsp
<1>2. Asking' = Asking /\ ReqTags' = ReqTags /\ MemTags' = MemTags
  BY DEF Asking, ReqTags, MemTags
<1>3. Rsp.tag \in RspTags /\ Rsp.tag \notin ReqTags /\ Rsp.tag \notin MemTags
  BY <1>1 DEF RspTags, Once
<1>4. \A i \in DOMAIN memRsp : i # 1 => memRsp[i].tag # Rsp.tag
  BY <1>1 DEF Once
<1>5. RspTags' = RspTags \ {Rsp.tag}
  BY <1>1, <1>4 DEF RspTags
<1>6. \A i, j \in DOMAIN memRsp' : memRsp'[i].tag = memRsp'[j].tag => i = j
  BY <1>1 DEF Once
<1>7. \A i, j \in Asking' : memReq'[i].tag = memReq'[j].tag => i = j
  BY <1>2 DEF Once
<1>8. Once'
  BY <1>2, <1>3, <1>5, <1>6, <1>7 DEF Once
<1> QED BY <1>1, <1>2, <1>3, <1>5, <1>8 DEF Flying
-----------------------------------------------------------------------------
(* The pipeline, as counts and as the set of sectors with a fill in it.      *)

Fills == {i \in DOMAIN pipe : pipe[i].type = "Fill"}
FillAddrs == {pipe[i].addr : i \in Fills}
FillsDiffer == \A i, j \in Fills : pipe[i].addr = pipe[j].addr => i = j

LEMMA PipelinedFinite ==
  ASSUME PipeType, NEW t
  PROVE  IsFiniteSet(Pipelined(t)) /\ Cardinality(Pipelined(t)) \in Nat
<1>1. DOMAIN pipe = 1 .. Len(pipe) /\ Len(pipe) \in Nat
  BY DEF PipeType
<1>2. IsFiniteSet(1 .. Len(pipe))
  BY <1>1, FS_Interval
<1>3. Pipelined(t) \subseteq 1 .. Len(pipe)
  BY <1>1 DEF Pipelined
<1> QED BY <1>2, <1>3, FS_Subset, FS_CardinalityType

\* The head leaves: every other stage moves up.
LEMMA PopShift ==
  ASSUME PipeType, pipe # << >>, pipe' = Tail(pipe)
  PROVE  /\ pipe' \in Seq(StageType) /\ Head(pipe) \in StageType
         /\ 1 \in DOMAIN pipe /\ pipe[1] = Head(pipe)
         /\ \A i \in DOMAIN pipe' : i + 1 \in DOMAIN pipe /\ pipe'[i] = pipe[i + 1] /\ i + 1 # 1
                                    /\ i \in Nat
         /\ \A i \in DOMAIN pipe : i # 1 => i - 1 \in DOMAIN pipe' /\ (i - 1) + 1 = i
                                            /\ pipe'[i - 1] = pipe[i]
         /\ \A i, j \in DOMAIN pipe' : i + 1 = j + 1 => i = j
         /\ DOMAIN pipe \subseteq Nat /\ \A i \in DOMAIN pipe : i >= 1
<1>1. pipe \in Seq(StageType)
  BY DEF PipeType
<1>2. /\ Head(pipe) \in StageType /\ Tail(pipe) \in Seq(StageType)
      /\ Len(Tail(pipe)) = Len(pipe) - 1
      /\ \A i \in 1 .. Len(Tail(pipe)) : Tail(pipe)[i] = pipe[i + 1]
      /\ Len(pipe) \in Nat \ {0} /\ DOMAIN pipe = 1 .. Len(pipe)
      /\ DOMAIN Tail(pipe) = 1 .. Len(Tail(pipe)) /\ Head(pipe) = pipe[1]
  BY <1>1, HeadTailProperties, LenProperties, EmptySeq
<1> QED BY <1>2

LEMMA PopCount ==
  ASSUME PipeType, pipe # << >>, pipe' = Tail(pipe), NEW t
  PROVE  Cardinality(Pipelined(t)') = Cardinality(Pipelined(t))
                                       - (IF Head(pipe).type = t THEN 1 ELSE 0)
<1> DEFINE Rest == Pipelined(t) \ {1}
           f == [i \in Pipelined(t)' |-> i + 1]
<1>1. 1 \in Pipelined(t) <=> Head(pipe).type = t
  BY PopShift DEF Pipelined
<1>2. IsFiniteSet(Pipelined(t)) /\ Cardinality(Pipelined(t)) \in Nat
  BY PipelinedFinite
<1>3. IsFiniteSet(Rest) /\ Cardinality(Rest) = Cardinality(Pipelined(t))
                              - (IF Head(pipe).type = t THEN 1 ELSE 0)
  BY <1>1, <1>2, FS_RemoveElement
<1>4. \A i \in Pipelined(t)' : i + 1 \in Rest
  BY PopShift DEF Pipelined
<1>5. \A i \in Rest : i - 1 \in Pipelined(t)' /\ (i - 1) + 1 = i
  BY PopShift DEF Pipelined
<1>6. \A i, j \in Pipelined(t)' : i + 1 = j + 1 => i = j
  BY PopShift DEF Pipelined
<1> HIDE DEF Rest
<1>7. f \in Bijection(Pipelined(t)', Rest)
  <2>1. f \in [Pipelined(t)' -> Rest]
    BY <1>4
  <2>2. \A i, j \in Pipelined(t)' : f[i] = f[j] => i = j
    BY <1>6
  <2>3. \A k \in Rest : \E i \in Pipelined(t)' : f[i] = k
    BY <1>5
  <2> QED BY <2>1, <2>2, <2>3 DEF Bijection, Injection, Surjection, IsInjective
<1>8. ExistsBijection(Rest, Pipelined(t)')
  BY <1>7, Fun_ExistsBijSymmetric DEF ExistsBijection
<1> QED BY <1>3, <1>8, FS_Bijection

LEMMA PopFills ==
  ASSUME PipeType, pipe # << >>, pipe' = Tail(pipe), FillsDiffer
  PROVE  /\ FillsDiffer'
         /\ FillAddrs' = IF Head(pipe).type = "Fill" THEN FillAddrs \ {Head(pipe).addr}
                         ELSE FillAddrs
         /\ Head(pipe).type = "Fill" => Head(pipe).addr \in FillAddrs
<1>1. \A i \in Fills' : i + 1 \in Fills /\ i + 1 # 1
                                    /\ pipe'[i] = pipe[i + 1]
  BY PopShift DEF Fills
<1>2. \A i \in Fills : i # 1 => i - 1 \in Fills' /\ pipe'[i - 1] = pipe[i]
  BY PopShift DEF Fills
<1>3. \A i, j \in Fills' : i + 1 = j + 1 => i = j
  BY PopShift DEF Fills
<1>4. FillsDiffer'
  <2> SUFFICES ASSUME NEW i \in Fills', NEW j \in Fills', pipe'[i].addr = pipe'[j].addr
               PROVE  i = j
    BY Zenon DEF FillsDiffer
  <2>1. i + 1 \in Fills /\ j + 1 \in Fills /\ pipe[i + 1].addr = pipe[j + 1].addr
    BY <1>1
  <2>2. i + 1 = j + 1
    BY <2>1, Zenon DEF FillsDiffer
  <2> QED BY <2>2, <1>3
<1>5. 1 \in Fills <=> Head(pipe).type = "Fill"
  BY PopShift DEF Fills
<1>6. pipe[1] = Head(pipe)
  BY PopShift
<1>9. ASSUME NEW a \in FillAddrs' PROVE \E i \in Fills : i # 1 /\ a = pipe[i].addr
  <2>1. PICK i \in Fills' : a = pipe'[i].addr
    BY Zenon DEF FillAddrs
  <2> QED BY <2>1, <1>1
<1>10. ASSUME NEW i \in Fills, i # 1 PROVE pipe[i].addr \in FillAddrs'
  <2>1. i - 1 \in Fills' /\ pipe'[i - 1].addr = pipe[i].addr
    BY <1>2, <1>10
  <2> QED BY <2>1, Zenon DEF FillAddrs
<1>11. \A i \in Fills : pipe[i].addr \in FillAddrs
  BY Zenon DEF FillAddrs
<1>12. \A a \in FillAddrs : \E i \in Fills : a = pipe[i].addr
  BY Zenon DEF FillAddrs
<1>7. CASE Head(pipe).type = "Fill"
  <2>1. \A i \in Fills : i # 1 => pipe[i].addr # Head(pipe).addr
    BY <1>5, <1>6, <1>7, Zenon DEF FillsDiffer
  <2>2. FillAddrs' = FillAddrs \ {Head(pipe).addr}
    BY <1>6, <1>9, <1>10, <1>11, <1>12, <2>1
  <2>3. Head(pipe).addr \in FillAddrs
    BY <1>5, <1>6, <1>7, <1>11
  <2> QED BY <1>4, <1>7, <2>2, <2>3
<1>8. CASE Head(pipe).type # "Fill"
  <2>0. \A i \in Fills : i # 1
    BY <1>5, <1>8, Zenon
  <2>1. FillAddrs' \subseteq FillAddrs
    BY <1>9, <1>11, Zenon
  <2>2. FillAddrs \subseteq FillAddrs'
    BY <2>0, <1>10, <1>12, Zenon
  <2> QED BY <1>4, <1>8, <2>1, <2>2, Zenon
<1> QED BY <1>7, <1>8

\* A stage enters.
LEMMA PushShift ==
  ASSUME PipeType, NEW x \in StageType, pipe' = Append(pipe, x)
  PROVE  /\ pipe' \in Seq(StageType) /\ Len(pipe) \in Nat
         /\ DOMAIN pipe = 1 .. Len(pipe) /\ DOMAIN pipe' = 1 .. Len(pipe) + 1
         /\ pipe'[Len(pipe) + 1] = x
         /\ \A i \in DOMAIN pipe : i \in DOMAIN pipe' /\ pipe'[i] = pipe[i]
         /\ DOMAIN pipe' = DOMAIN pipe \cup {Len(pipe) + 1} /\ Len(pipe) + 1 \notin DOMAIN pipe
<1>1. /\ pipe' \in Seq(StageType) /\ Len(pipe) \in Nat /\ DOMAIN pipe = 1 .. Len(pipe)
      /\ DOMAIN pipe' = 1 .. Len(pipe) + 1 /\ pipe'[Len(pipe) + 1] = x
      /\ \A i \in 1 .. Len(pipe) : pipe'[i] = pipe[i]
  BY DEF PipeType
<1> QED BY <1>1

LEMMA PushCount ==
  ASSUME PipeType, NEW x \in StageType, pipe' = Append(pipe, x), NEW t
  PROVE  /\ Pipelined(t)' = IF x.type = t THEN Pipelined(t) \cup {Len(pipe) + 1} ELSE Pipelined(t)
         /\ Cardinality(Pipelined(t)') = Cardinality(Pipelined(t)) + (IF x.type = t THEN 1 ELSE 0)
<1>1. Pipelined(t)' = IF x.type = t THEN Pipelined(t) \cup {Len(pipe) + 1} ELSE Pipelined(t)
  BY PushShift DEF Pipelined
<1>2. Len(pipe) + 1 \notin Pipelined(t)
  BY PushShift DEF Pipelined
<1>3. IsFiniteSet(Pipelined(t)) /\ Cardinality(Pipelined(t)) \in Nat
  BY PipelinedFinite
<1> DEFINE P == Pipelined(t)
           Q == Pipelined(t)'
<1>4. Q = IF x.type = t THEN P \cup {Len(pipe) + 1} ELSE P
  BY <1>1
<1> HIDE DEF P, Q
<1>5. Cardinality(Q) = Cardinality(P) + (IF x.type = t THEN 1 ELSE 0)
  <2>1. IsFiniteSet(P) /\ Len(pipe) + 1 \notin P /\ Cardinality(P) \in Nat
    BY <1>2, <1>3 DEF P
  <2>2. x.type = t => Cardinality(Q) = Cardinality(P) + 1
    BY <1>4, <2>1, FS_AddElement
  <2> QED BY <1>4, <2>1, <2>2
<1> QED BY <1>1, <1>5 DEF P, Q

LEMMA PushFills ==
  ASSUME PipeType, NEW x \in StageType, pipe' = Append(pipe, x), FillsDiffer,
         x.type = "Fill" => x.addr \notin FillAddrs
  PROVE  /\ FillsDiffer'
         /\ FillAddrs' = IF x.type = "Fill" THEN FillAddrs \cup {x.addr} ELSE FillAddrs
<1> DEFINE n == Len(pipe) + 1
<1>1. Fills' = IF x.type = "Fill" THEN Fills \cup {n} ELSE Fills
  BY PushShift DEF Fills
<1>2. \A i \in Fills : pipe'[i] = pipe[i]
  BY PushShift DEF Fills
<1>3. pipe'[n] = x
  BY PushShift
<1> HIDE DEF n
<1>4. CASE x.type = "Fill"
  <2>0. Fills' = Fills \cup {n}
    BY <1>1, <1>4
  <2>1. \A i \in Fills : pipe[i].addr # x.addr
    BY <1>4 DEF FillAddrs
  <2>2. FillsDiffer'
    <3> SUFFICES ASSUME NEW i \in Fills', NEW j \in Fills', pipe'[i].addr = pipe'[j].addr
                 PROVE  i = j
      BY Zenon DEF FillsDiffer
    <3>1. CASE i \in Fills /\ j \in Fills
      <4>1. pipe[i].addr = pipe[j].addr
        BY <3>1, <1>2
      <4> QED BY <3>1, <4>1, Zenon DEF FillsDiffer
    <3>2. CASE ~(i \in Fills /\ j \in Fills)
      BY <3>2, <2>0, <2>1, <1>2, <1>3
    <3> QED BY <3>1, <3>2
  <2>3. FillAddrs' = {pipe'[i].addr : i \in Fills \cup {n}}
    BY <2>0, Zenon DEF FillAddrs
  <2>4. FillAddrs' = FillAddrs \cup {x.addr}
    BY <2>3, <1>2, <1>3 DEF FillAddrs
  <2> QED BY <1>4, <2>2, <2>4
<1>5. CASE x.type # "Fill"
  <2>0. Fills' = Fills
    BY <1>1, <1>5
  <2>2. FillsDiffer'
    <3> SUFFICES ASSUME NEW i \in Fills', NEW j \in Fills', pipe'[i].addr = pipe'[j].addr
                 PROVE  i = j
      BY Zenon DEF FillsDiffer
    <3>1. pipe[i].addr = pipe[j].addr
      BY <2>0, <1>2
    <3> QED BY <3>1, <2>0, Zenon DEF FillsDiffer
  <2>3. FillAddrs' = {pipe'[i].addr : i \in Fills}
    BY <2>0, Zenon DEF FillAddrs
  <2>4. FillAddrs' = FillAddrs
    BY <2>3, <1>2 DEF FillAddrs
  <2> QED BY <1>5, <2>2, <2>4
<1> QED BY <1>4, <1>5

\* The stages age, and nothing else changes in them.
LEMMA AgeStep ==
  ASSUME PipeType,
         pipe' = [i \in DOMAIN pipe |-> [pipe[i] EXCEPT !.age = Min({@ + 1, Latency})]]
  PROVE  /\ pipe' \in Seq(StageType) /\ DOMAIN pipe' = DOMAIN pipe
         /\ \A i \in DOMAIN pipe : pipe'[i].type = pipe[i].type
         /\ \A i \in Fills : pipe'[i].addr = pipe[i].addr
         /\ \A i \in DOMAIN pipe : pipe[i].type # "Fill" => pipe'[i].req = pipe[i].req
<1>1. pipe \in Seq(StageType) /\ DOMAIN pipe = 1 .. Len(pipe) /\ Len(pipe) \in Nat
  BY DEF PipeType
<1>2. ASSUME NEW x \in StageType, NEW n \in Nat
      PROVE  /\ [x EXCEPT !.age = n] \in StageType /\ [x EXCEPT !.age = n].type = x.type
             /\ x.type = "Fill" => [x EXCEPT !.age = n].addr = x.addr
             /\ x.type # "Fill" => [x EXCEPT !.age = n].req = x.req
  BY DEF StageType
<1>3. \A x \in StageType : x.age \in Nat
  BY DEF StageType
<1>4. \A i \in DOMAIN pipe : pipe[i] \in StageType
  BY <1>1
<1>5. ASSUME NEW i \in DOMAIN pipe PROVE Min({pipe[i].age + 1, Latency}) \in Nat
  <2>1. pipe[i].age + 1 \in Nat /\ Latency \in Nat
    BY <1>3, <1>4, ConstantFacts
  <2> QED BY <2>1, MinIn
<1>6. \A i \in DOMAIN pipe : pipe'[i] = [pipe[i] EXCEPT !.age = Min({pipe[i].age + 1, Latency})]
  OBVIOUS
<1>7. \A i \in DOMAIN pipe : pipe'[i] \in StageType
  BY <1>2, <1>4, <1>5, <1>6
<1>8. DOMAIN pipe' = DOMAIN pipe
  OBVIOUS
<1>9. pipe' \in Seq(StageType)
  <2>1. pipe' \in [1 .. Len(pipe) -> StageType]
    BY <1>1, <1>7, <1>8
  <2>2. \A n \in Nat : \A f \in [1 .. n -> StageType] : f \in Seq(StageType)
    OBVIOUS
  <2> QED BY <2>1, <2>2, <1>1
<1> QED BY <1>2, <1>4, <1>5, <1>6, <1>8, <1>9 DEF Fills

LEMMA AgeFrame ==
  ASSUME DOMAIN pipe' = DOMAIN pipe, \A i \in DOMAIN pipe : pipe'[i].type = pipe[i].type,
         \A i \in Fills : pipe'[i].addr = pipe[i].addr
  PROVE  /\ \A t : Pipelined(t)' = Pipelined(t)
         /\ Fills' = Fills /\ FillAddrs' = FillAddrs /\ (FillsDiffer => FillsDiffer')
<1>1. ASSUME NEW t PROVE Pipelined(t)' = Pipelined(t)
  BY DEF Pipelined
<1>2. Fills' = Fills
  BY DEF Fills
<1> QED BY <1>1, <1>2 DEF FillAddrs, FillsDiffer
-----------------------------------------------------------------------------
(* Fills.  A fill is asked for under the entry that opens its chain, then in  *)
(* the pipeline, and its chain waits until it has run.                        *)

Waiting == {m \in Entries : mshr[m].type = "Core"}
Asked == Flying \cap Entries
FillInv ==
  /\ FillsDiffer
  /\ Asked \subseteq Waiting
  /\ \A m, n \in Asked : mshr[m].req.addr = mshr[n].req.addr => m = n
  /\ \A m \in Asked : mshr[m].req.addr \notin FillAddrs
  /\ \A m \in Waiting : \/ mshr[m].req.addr \in FillAddrs
                        \/ \E n \in Asked : mshr[n].req.addr = mshr[m].req.addr
  /\ \A a \in FillAddrs : \E m \in Waiting : mshr[m].req.addr = a

LEMMA FillSame ==
  ASSUME FillInv, Waiting' = Waiting, \A m \in Waiting : mshr'[m].req = mshr[m].req,
         Asked' = Asked, FillAddrs' = FillAddrs, FillsDiffer'
  PROVE  FillInv'
<1>1. \A m \in Asked : m \in Waiting
  BY DEF FillInv
<1>2. \A m \in Asked : mshr'[m].req = mshr[m].req
  BY <1>1
<1>3. Asked' \subseteq Waiting'
  BY <1>1
<1>4. \A m, n \in Asked' : mshr'[m].req.addr = mshr'[n].req.addr => m = n
  BY <1>2 DEF FillInv
<1>5. \A m \in Asked' : mshr'[m].req.addr \notin FillAddrs'
  BY <1>2 DEF FillInv
<1>6. \A m \in Waiting' : \/ mshr'[m].req.addr \in FillAddrs'
                          \/ \E n \in Asked' : mshr'[n].req.addr = mshr'[m].req.addr
  BY <1>2 DEF FillInv
<1>7. \A a \in FillAddrs' : \E m \in Waiting' : mshr'[m].req.addr = a
  BY DEF FillInv
<1> QED BY <1>3, <1>4, <1>5, <1>6, <1>7, Zenon DEF FillInv

\* A request joins a chain that waits.
LEMMA FillJoin ==
  ASSUME FillInv, NEW k, k \notin Waiting, Waiting' = Waiting \cup {k},
         \A m \in Waiting : mshr'[m].req = mshr[m].req,
         \E m \in Waiting : mshr[m].req.addr = mshr'[k].req.addr,
         Asked' = Asked, FillAddrs' = FillAddrs, FillsDiffer'
  PROVE  FillInv'
<1>1. \A m \in Asked : m \in Waiting
  BY DEF FillInv
<1>2. \A m \in Asked : mshr'[m].req = mshr[m].req
  BY <1>1
<1>3. Asked' \subseteq Waiting'
  BY <1>1
<1>4. \A m, n \in Asked' : mshr'[m].req.addr = mshr'[n].req.addr => m = n
  BY <1>2 DEF FillInv
<1>5. \A m \in Asked' : mshr'[m].req.addr \notin FillAddrs'
  BY <1>2 DEF FillInv
<1>6. ASSUME NEW m \in Waiting'
      PROVE  \/ mshr'[m].req.addr \in FillAddrs'
             \/ \E n \in Asked' : mshr'[n].req.addr = mshr'[m].req.addr
  <2>1. PICK w \in Waiting : mshr[w].req.addr = mshr'[m].req.addr
    OBVIOUS
  <2>2. \/ mshr[w].req.addr \in FillAddrs
        \/ \E n \in Asked : mshr[n].req.addr = mshr[w].req.addr
    BY DEF FillInv
  <2> QED BY <2>1, <2>2, <1>2
<1>7. \A a \in FillAddrs' : \E m \in Waiting' : mshr'[m].req.addr = a
  BY DEF FillInv
<1> QED BY <1>3, <1>4, <1>5, <1>6, <1>7, Zenon DEF FillInv

\* A request opens a chain and asks for its fill.
LEMMA FillNew ==
  ASSUME FillInv, NEW k, k \notin Waiting, Waiting' = Waiting \cup {k},
         \A m \in Waiting : mshr'[m].req = mshr[m].req,
         \A m \in Waiting : mshr[m].req.addr # mshr'[k].req.addr,
         Asked' = Asked \cup {k}, FillAddrs' = FillAddrs, FillsDiffer'
  PROVE  FillInv'
<1>1. \A m \in Asked : m \in Waiting
  BY DEF FillInv
<1>2. \A m \in Asked : mshr'[m].req = mshr[m].req
  BY <1>1
<1>3. Asked' \subseteq Waiting'
  BY <1>1
<1>4. ASSUME NEW m \in Asked', NEW n \in Asked', mshr'[m].req.addr = mshr'[n].req.addr PROVE m = n
  <2>1. CASE m \in Asked /\ n \in Asked
    <3>1. mshr[m].req.addr = mshr[n].req.addr
      BY <1>2, <1>4, <2>1
    <3> QED BY <2>1, <3>1 DEF FillInv
  <2>2. CASE ~(m \in Asked /\ n \in Asked)
    BY <2>2, <1>1, <1>2, <1>4
  <2> QED BY <2>1, <2>2
<1>5. ASSUME NEW m \in Asked' PROVE mshr'[m].req.addr \notin FillAddrs'
  <2>1. mshr'[k].req.addr \notin FillAddrs
    BY DEF FillInv
  <2>2. CASE m \in Asked
    BY <2>2, <1>2 DEF FillInv
  <2> QED BY <2>1, <2>2
<1>6. ASSUME NEW m \in Waiting'
      PROVE  \/ mshr'[m].req.addr \in FillAddrs'
             \/ \E n \in Asked' : mshr'[n].req.addr = mshr'[m].req.addr
  <2>1. CASE m \in Waiting
    <3>1. \/ mshr[m].req.addr \in FillAddrs
          \/ \E n \in Asked : mshr[n].req.addr = mshr[m].req.addr
      BY <2>1 DEF FillInv
    <3> QED BY <2>1, <3>1, <1>2
  <2> QED BY <2>1
<1>7. \A a \in FillAddrs' : \E m \in Waiting' : mshr'[m].req.addr = a
  BY DEF FillInv
<1> QED BY <1>3, <1>4, <1>5, <1>6, <1>7, Zenon DEF FillInv

\* The fill runs and its chain goes.
LEMMA FillRun ==
  ASSUME FillInv, NEW a, Waiting' = {m \in Waiting : mshr[m].req.addr # a},
         \A m \in Waiting : mshr'[m].req = mshr[m].req,
         Asked' = Asked, a \in FillAddrs, FillAddrs' = FillAddrs \ {a}, FillsDiffer'
  PROVE  FillInv'
<1>1. \A m \in Asked : m \in Waiting /\ mshr[m].req.addr # a
  BY DEF FillInv
<1>2. \A m \in Asked : mshr'[m].req = mshr[m].req
  BY <1>1
<1>3. Asked' \subseteq Waiting'
  BY <1>1
<1>4. \A m, n \in Asked' : mshr'[m].req.addr = mshr'[n].req.addr => m = n
  BY <1>2 DEF FillInv
<1>5. \A m \in Asked' : mshr'[m].req.addr \notin FillAddrs'
  BY <1>2 DEF FillInv
<1>6. ASSUME NEW m \in Waiting'
      PROVE  \/ mshr'[m].req.addr \in FillAddrs'
             \/ \E n \in Asked' : mshr'[n].req.addr = mshr'[m].req.addr
  <2>1. \/ mshr[m].req.addr \in FillAddrs
        \/ \E n \in Asked : mshr[n].req.addr = mshr[m].req.addr
    BY DEF FillInv
  <2> QED BY <2>1, <1>2
<1>7. ASSUME NEW b \in FillAddrs' PROVE \E m \in Waiting' : mshr'[m].req.addr = b
  <2>1. PICK m \in Waiting : mshr[m].req.addr = b
    BY DEF FillInv
  <2> QED BY <2>1
<1> QED BY <1>3, <1>4, <1>5, <1>6, <1>7, Zenon DEF FillInv

\* The answer to a fill enters the pipeline.
LEMMA FillTaken ==
  ASSUME FillInv, NEW k \in Asked, Waiting' = Waiting, mshr' = mshr,
         Asked' = Asked \ {k}, FillAddrs' = FillAddrs \cup {mshr[k].req.addr}, FillsDiffer'
  PROVE  FillInv'
<1>1. \A m \in Asked : m \in Waiting
  BY DEF FillInv
<1>2. Asked' \subseteq Waiting'
  BY <1>1
<1>3. \A m, n \in Asked' : mshr[m].req.addr = mshr[n].req.addr => m = n
  BY DEF FillInv
<1>4. \A m \in Asked' : mshr[m].req.addr \notin FillAddrs'
  BY DEF FillInv
<1>5. ASSUME NEW m \in Waiting'
      PROVE  \/ mshr[m].req.addr \in FillAddrs'
             \/ \E n \in Asked' : mshr[n].req.addr = mshr[m].req.addr
  <2>1. \/ mshr[m].req.addr \in FillAddrs
        \/ \E n \in Asked : mshr[n].req.addr = mshr[m].req.addr
    BY DEF FillInv
  <2> QED BY <2>1
<1>6. \A b \in FillAddrs' : \E m \in Waiting' : mshr[m].req.addr = b
  BY <1>1 DEF FillInv
<1> QED BY <1>2, <1>3, <1>4, <1>5, <1>6, Zenon DEF FillInv
-----------------------------------------------------------------------------
(* The MSHR.                                                                *)

LEMMA PendingWaits ==
  ASSUME NEW a
  PROVE  PendingFill(a) <=> \E m \in Waiting : mshr[m].req.addr = a
BY DEF PendingFill, Chain, InUse, Waiting

LEMMA InUseFinite ==
  ASSUME config \in Configs
  PROVE  IsFiniteSet(InUse) /\ Cardinality(InUse) \in Nat /\ Cardinality(InUse) <= MshrSize
<1>1. InUse \subseteq Entries /\ IsFiniteSet(Entries) /\ Cardinality(Entries) = MshrSize
  BY ConfigFacts DEF InUse
<1> QED BY <1>1, FS_Subset, FS_CardinalityType

\* A request takes the first free entry.
LEMMA EnqueueStep ==
  ASSUME config \in Configs, config' = config, MshrType, ~MshrFull,
         NEW r \in RequestType, NEW ty \in {"Core", "Replay"}, mshr' = Enqueue(r, ty)
  PROVE  LET k == Min(Entries \ InUse)
         IN  /\ k \in Entries /\ k \notin InUse /\ k \notin Waiting
             /\ mshr' \in [Entries -> EntryType] /\ mshr'[k].req = r
             /\ Waiting' = IF ty = "Core" THEN Waiting \cup {k} ELSE Waiting
             /\ \A m \in Waiting : mshr'[m].req = mshr[m].req
             /\ Cardinality(InUse') = Cardinality(InUse) + 1
<1> DEFINE k == Min(Entries \ InUse)
           e == [type |-> ty, req |-> r]
<1>1. Entries \subseteq Nat /\ InUse \subseteq Entries
  BY ConfigFacts DEF InUse
<1>2. k \in Entries /\ k \notin InUse
  <2>1. Entries \ InUse # {} /\ Entries \ InUse \in SUBSET Nat
    BY <1>1 DEF MshrFull
  <2> QED BY <2>1, MinIn
<1>3. mshr' = [mshr EXCEPT ![k] = e]
  BY DEF Enqueue
<1> HIDE DEF k
<1>4. e \in EntryType /\ e.type = ty /\ e.req = r
  BY DEF EntryType
<1> HIDE DEF e
<1>5. /\ mshr' \in [Entries -> EntryType] /\ mshr'[k] = e
      /\ \A m \in Entries : m # k => mshr'[m] = mshr[m]
  BY <1>2, <1>3, <1>4 DEF MshrType
<1>6. Entries' = Entries
  BY TypesFrame
<1>7. k \notin Waiting
  BY <1>2 DEF InUse, Waiting
<1>8. Waiting' = IF ty = "Core" THEN Waiting \cup {k} ELSE Waiting
  BY <1>2, <1>4, <1>5, <1>6, <1>7 DEF Waiting
<1>9. \A m \in Waiting : mshr'[m].req = mshr[m].req
  BY <1>5, <1>7 DEF Waiting
<1>10. InUse' = InUse \cup {k}
  BY <1>2, <1>4, <1>5, <1>6 DEF InUse
<1>11. Cardinality(InUse') = Cardinality(InUse) + 1
  BY <1>2, <1>10, InUseFinite, FS_AddElement
<1> QED BY <1>2, <1>4, <1>5, <1>7, <1>8, <1>9, <1>11 DEF k

\* The next replay is one of those that are ready.
LEMMA NextReplayReady ==
  ASSUME config \in Configs, MshrType, Ready # {}
  PROVE  NextReplay \in Ready /\ mshr[NextReplay].req \in RequestType
<1>1. \A m \in Ready : mshr[m].req \in RequestType /\ mshr[m].req.seq \in Nat
  <2>1. \A e \in EntryType : e.type = "Replay" => e.req \in RequestType
    BY DEF EntryType, NoEntry
  <2>2. \A q \in RequestType : q.seq \in Nat
    BY DEF RequestType
  <2> QED BY <2>1, <2>2 DEF Ready, MshrType
<1> DEFINE S == {mshr[m].req.seq : m \in Ready}
<1>2. S \in SUBSET Nat /\ S # {}
  BY <1>1
<1>3. Min(S) \in S /\ \A y \in S : Min(S) <= y
  BY <1>2, MinIn
<1>4. PICK m \in Ready : mshr[m].req.seq = Min(S)
  BY <1>3
<1>5. \A n \in Ready : mshr[m].req.seq <= mshr[n].req.seq
  BY <1>3, <1>4
<1>6. NextReplay \in Ready
  <2>1. \E x \in Ready : \A n \in Ready : mshr[x].req.seq <= mshr[n].req.seq
    BY <1>5
  <2> QED BY <2>1 DEF NextReplay
<1> QED BY <1>1, <1>6

LEMMA DequeueStep ==
  ASSUME config \in Configs, config' = config, MshrType, Ready # {}, mshr' = Dequeue
  PROVE  /\ mshr' \in [Entries -> EntryType] /\ Waiting' = Waiting
         /\ \A m \in Waiting : mshr'[m].req = mshr[m].req
         /\ Cardinality(InUse') = Cardinality(InUse) - 1
<1> DEFINE k == NextReplay
<1>1. k \in Ready
  BY NextReplayReady
<1>2. mshr' = [mshr EXCEPT ![k] = NoEntry]
  BY DEF Dequeue
<1> HIDE DEF k
<1>3. k \in Entries /\ mshr[k].type = "Replay"
  BY <1>1 DEF Ready
<1>4. NoEntry \in EntryType /\ NoEntry.type = "None"
  BY DEF EntryType, NoEntry
<1>5. /\ mshr' \in [Entries -> EntryType] /\ mshr'[k] = NoEntry
      /\ \A m \in Entries : m # k => mshr'[m] = mshr[m]
  BY <1>2, <1>3, <1>4 DEF MshrType
<1>6. Entries' = Entries
  BY TypesFrame
<1>7. k \notin Waiting /\ k \in InUse
  BY <1>3 DEF Waiting, InUse
<1>8. Waiting' = Waiting
  BY <1>3, <1>4, <1>5, <1>6 DEF Waiting
<1>9. \A m \in Waiting : mshr'[m].req = mshr[m].req
  BY <1>5, <1>7 DEF Waiting
<1>10. InUse' = InUse \ {k}
  BY <1>4, <1>5, <1>6 DEF InUse
<1>11. Cardinality(InUse') = Cardinality(InUse) - 1
  BY <1>7, <1>10, InUseFinite, FS_RemoveElement
<1> QED BY <1>5, <1>8, <1>9, <1>11

\* The fill of a sector lets its chain go.
LEMMA MarkStep ==
  ASSUME config \in Configs, config' = config, MshrType, NEW a, mshr' = MarkReplay(a)
  PROVE  /\ mshr' \in [Entries -> EntryType] /\ InUse' = InUse
         /\ Waiting' = {m \in Waiting : mshr[m].req.addr # a}
         /\ \A m \in Waiting : mshr'[m].req = mshr[m].req
<1>1. \A m \in Entries : mshr'[m] = IF m \in Chain(a) THEN [mshr[m] EXCEPT !.type = "Replay"]
                                    ELSE mshr[m]
  BY DEF MarkReplay
<1>2. ASSUME NEW e \in EntryType, e.type # "None"
      PROVE  /\ [e EXCEPT !.type = "Replay"] \in EntryType
             /\ [e EXCEPT !.type = "Replay"].type = "Replay"
             /\ [e EXCEPT !.type = "Replay"].req = e.req
  BY <1>2 DEF EntryType, NoEntry
<1>3. \A m \in Chain(a) : m \in Entries /\ mshr[m] \in EntryType /\ mshr[m].type # "None"
                          /\ mshr[m].req.addr = a
  BY DEF Chain, InUse, MshrType
<1>4. ASSUME NEW m \in Chain(a)
      PROVE  mshr'[m] \in EntryType /\ mshr'[m].type = "Replay" /\ mshr'[m].req = mshr[m].req
  <2>1. mshr'[m] = [mshr[m] EXCEPT !.type = "Replay"]
    BY <1>1, <1>3
  <2> QED BY <2>1, <1>2, <1>3
<1>5. \A m \in Entries : m \notin Chain(a) => mshr'[m] = mshr[m]
  BY <1>1
<1>6. mshr' \in [Entries -> EntryType]
  <2>1. mshr' = [m \in Entries |-> mshr'[m]]
    BY DEF MarkReplay
  <2>2. \A m \in Entries : mshr'[m] \in EntryType
    BY <1>4, <1>5 DEF MshrType
  <2> QED BY <2>1, <2>2
<1>7. Entries' = Entries
  BY TypesFrame
<1>8. \A m \in Waiting : m \in Chain(a) <=> mshr[m].req.addr = a
  BY DEF Waiting, Chain, InUse
<1>9. Waiting' = {m \in Waiting : mshr[m].req.addr # a}
  <2>1. ASSUME NEW m \in Waiting' PROVE m \in Waiting /\ mshr[m].req.addr # a
    <3>1. m \in Entries /\ mshr'[m].type = "Core"
      BY <1>7 DEF Waiting
    <3>2. m \notin Chain(a)
      BY <3>1, <1>4
    <3>3. m \in Waiting
      BY <3>1, <3>2, <1>5 DEF Waiting
    <3> QED BY <3>2, <3>3, <1>8
  <2>2. ASSUME NEW m \in Waiting, mshr[m].req.addr # a PROVE m \in Waiting'
    <3>1. m \in Entries /\ mshr'[m].type = "Core"
      BY <2>2, <1>5, <1>8 DEF Waiting
    <3> QED BY <3>1, <1>7 DEF Waiting
  <2> QED BY <2>1, <2>2
<1>10. \A m \in Waiting : mshr'[m].req = mshr[m].req
  BY <1>4, <1>5 DEF Waiting
<1>11. InUse' = InUse
  <2>1. \A m \in Entries : mshr'[m].type # "None" <=> mshr[m].type # "None"
    BY <1>3, <1>4, <1>5
  <2> QED BY <2>1, <1>7 DEF InUse
<1> QED BY <1>6, <1>9, <1>10, <1>11
-----------------------------------------------------------------------------
(* The mirror of lines holds the lines of the Core requests in the pipeline,  *)
(* in their order.                                                            *)

Cores == {i \in DOMAIN pipe : pipe[i].type = "Core"}
Mirrors(f, L, C, p) ==
  /\ f \in [DOMAIN L -> C]
  /\ \A j, k \in DOMAIN L : j < k => f[j] < f[k]
  /\ \A i \in C : \E k \in DOMAIN L : f[k] = i
  /\ \A k \in DOMAIN L : L[k] = p[f[k]].req.addr[1]
Mirror == pipeLines \in Seq(Tags) /\ \E f : Mirrors(f, pipeLines, Cores, pipe)

\* The first line of the mirror is the one that leaves with a Core request.
EraseLine ==
  LET i == Min({j \in DOMAIN pipeLines : pipeLines[j] = A[1]})
  IN SubSeq(pipeLines, 1, i - 1) \o SubSeq(pipeLines, i + 1, Len(pipeLines))

LEMMA MirrorPopCore ==
  ASSUME PipeType, pipe # << >>, pipe' = Tail(pipe), Head(pipe).type = "Core", Mirror,
         pipeLines' = EraseLine
  PROVE  Mirror' /\ Len(pipeLines') = Len(pipeLines) - 1
<1>1. PICK f : Mirrors(f, pipeLines, Cores, pipe)
  BY DEF Mirror
<1> DEFINE n == Len(pipeLines)
           D == DOMAIN pipeLines
<1>2. pipeLines \in Seq(Tags) /\ n \in Nat /\ D = 1 .. n
  BY DEF Mirror
<1>3. 1 \in Cores /\ pipe[1] = Head(pipe) /\ Cores \subseteq Nat /\ \A i \in Cores : i >= 1
  BY PopShift DEF Cores
<1>4. f \in [D -> Cores] /\ (\A j, k \in D : j < k => f[j] < f[k])
      /\ (\A i \in Cores : \E k \in D : f[k] = i)
      /\ (\A k \in D : pipeLines[k] = pipe[f[k]].req.addr[1])
  BY <1>1 DEF Mirrors
<1>5. 1 \in D /\ f[1] = 1
  <2>1. PICK k \in D : f[k] = 1
    BY <1>3, <1>4
  <2>2. k \in Nat /\ 1 <= k /\ 1 \in D
    BY <1>2
  <2>3. f[1] \in Nat /\ f[1] >= 1
    BY <2>2, <1>3, <1>4
  <2>4. CASE 1 < k
    BY <2>1, <2>2, <2>3, <2>4, <1>4
  <2>5. CASE k = 1
    BY <2>1, <2>5, <2>2
  <2> QED BY <2>2, <2>4, <2>5
<1>6. pipeLines[1] = A[1]
  BY <1>3, <1>4, <1>5 DEF A, Req
<1> DEFINE J == {j \in DOMAIN pipeLines : pipeLines[j] = A[1]}
<1>7. Min(J) = 1
  <2>1. J \in SUBSET Nat /\ 1 \in J
    BY <1>2, <1>5, <1>6
  <2> HIDE DEF J
  <2>2. Min(J) \in J /\ Min(J) <= 1
    BY <2>1, MinIn
  <2>3. \A j \in J : j \in Nat /\ j >= 1
    BY <1>2 DEF J
  <2> QED BY <2>2, <2>3
<1>8. n >= 1
  BY <1>2, <1>5
<1>9. pipeLines' = SubSeq(pipeLines, 1, 1 - 1) \o SubSeq(pipeLines, 1 + 1, n)
  BY <1>7 DEF EraseLine
<1> HIDE DEF J
<1>10. /\ pipeLines' \in Seq(Tags) /\ Len(pipeLines') = n - 1
       /\ \A k \in 1 .. n - 1 : pipeLines'[k] = pipeLines[k + 1]
  <2> DEFINE S == SubSeq(pipeLines, 2, n)
  <2>1. SubSeq(pipeLines, 1, 1 - 1) = << >> /\ 1 + 1 = 2
    BY <1>2
  <2>2. S \in Seq(Tags) /\ Len(S) = n - 1 /\ \A k \in 1 .. n - 1 : S[k] = pipeLines[k + 1]
    <3>1. \A k \in 2 .. n : pipeLines[k] \in Tags
      BY <1>2
    <3>2. S = [k \in 1 .. n - 1 |-> pipeLines[k + 1]]
      BY <1>2, <1>8
    <3> QED BY <3>1, <3>2, <1>2, <1>8
  <2> HIDE DEF S
  <2>3. << >> \o S = S
    BY <2>2
  <2> QED BY <1>9, <2>1, <2>2, <2>3 DEF S
<1>11. DOMAIN pipeLines' = 1 .. n - 1
  BY <1>2, <1>8, <1>10
<1> DEFINE g == [k \in 1 .. n - 1 |-> f[k + 1] - 1]
<1>12. \A k \in 1 .. n - 1 : k + 1 \in D /\ 1 < k + 1 /\ k \in Nat
  BY <1>2, <1>8
<1>13. \A k \in 1 .. n - 1 : f[k + 1] \in Cores /\ f[k + 1] # 1
  BY <1>3, <1>4, <1>5, <1>12
<1>14. /\ \A i \in Cores : i # 1 => i - 1 \in Cores' /\ pipe'[i - 1] = pipe[i] /\ i \in Nat
       /\ \A i \in Cores' : i + 1 \in Cores /\ i + 1 # 1 /\ (i + 1) - 1 = i
  BY PopShift DEF Cores
<1> HIDE DEF n, D
<1>15. g \in [1 .. n - 1 -> Cores']
  BY <1>13, <1>14
<1>16. \A k \in 1 .. n - 1 : g[k] = f[k + 1] - 1
  OBVIOUS
<1> HIDE DEF g
<1>17. ASSUME NEW j \in 1 .. n - 1, NEW k \in 1 .. n - 1, j < k PROVE g[j] < g[k]
  <2>1. j + 1 \in D /\ k + 1 \in D /\ j + 1 < k + 1
    BY <1>12, <1>17
  <2>2. f[j + 1] < f[k + 1]
    BY <2>1, <1>4
  <2>3. f[j + 1] \in Nat /\ f[k + 1] \in Nat
    BY <1>13, <1>14
  <2> QED BY <2>2, <2>3, <1>16
<1>18. ASSUME NEW i \in Cores' PROVE \E k \in 1 .. n - 1 : g[k] = i
  <2>1. i + 1 \in Cores /\ i + 1 # 1 /\ (i + 1) - 1 = i
    BY <1>14
  <2>2. PICK m \in D : f[m] = i + 1
    BY <2>1, <1>4
  <2>3. m # 1 /\ m \in 1 .. n
    BY <2>1, <2>2, <1>2, <1>5
  <2>4. m - 1 \in 1 .. n - 1 /\ (m - 1) + 1 = m
    BY <2>3, <1>2
  <2>5. g[m - 1] = i
    BY <2>1, <2>2, <2>4, <1>16
  <2> QED BY <2>4, <2>5
<1>19. ASSUME NEW k \in 1 .. n - 1 PROVE pipeLines'[k] = pipe'[g[k]].req.addr[1]
  <2>1. pipeLines'[k] = pipe[f[k + 1]].req.addr[1]
    BY <1>10, <1>12, <1>4
  <2>2. pipe'[g[k]] = pipe[f[k + 1]]
    BY <1>13, <1>14, <1>16
  <2> QED BY <2>1, <2>2
<1>20. Mirrors(g, pipeLines', Cores', pipe')
  BY <1>11, <1>15, <1>17, <1>18, <1>19 DEF Mirrors
<1>21. Mirror'
  BY <1>10, <1>20, Zenon DEF Mirror
<1> QED BY <1>10, <1>21 DEF n

LEMMA MirrorPopOther ==
  ASSUME PipeType, pipe # << >>, pipe' = Tail(pipe), Head(pipe).type # "Core", Mirror,
         pipeLines' = pipeLines
  PROVE  Mirror'
<1>1. PICK f : Mirrors(f, pipeLines, Cores, pipe)
  BY DEF Mirror
<1> DEFINE D == DOMAIN pipeLines
           g == [k \in D |-> f[k] - 1]
<1>2. /\ \A i \in Cores : i - 1 \in Cores' /\ pipe'[i - 1] = pipe[i] /\ i \in Nat
      /\ \A i \in Cores' : i + 1 \in Cores /\ (i + 1) - 1 = i
  BY PopShift DEF Cores
<1>4. f \in [D -> Cores] /\ (\A j, k \in D : j < k => f[j] < f[k])
      /\ (\A i \in Cores : \E k \in D : f[k] = i)
      /\ (\A k \in D : pipeLines[k] = pipe[f[k]].req.addr[1])
  BY <1>1 DEF Mirrors
<1> HIDE DEF D
<1>5. g \in [D -> Cores'] /\ \A k \in D : g[k] = f[k] - 1
  BY <1>2, <1>4
<1> HIDE DEF g
<1>6. \A k \in D : f[k] \in Nat
  BY <1>2, <1>4
<1>7. \A j, k \in D : j < k => g[j] < g[k]
  BY <1>4, <1>5, <1>6
<1>8. ASSUME NEW i \in Cores' PROVE \E k \in D : g[k] = i
  <2>1. i + 1 \in Cores /\ (i + 1) - 1 = i
    BY <1>2
  <2>2. PICK k \in D : f[k] = i + 1
    BY <2>1, <1>4
  <2> QED BY <2>1, <2>2, <1>5
<1>9. ASSUME NEW k \in D PROVE pipeLines[k] = pipe'[g[k]].req.addr[1]
  <2>1. f[k] \in Cores /\ pipe'[f[k] - 1] = pipe[f[k]] /\ g[k] = f[k] - 1
    BY <1>2, <1>4, <1>5
  <2>2. pipeLines[k] = pipe[f[k]].req.addr[1]
    BY <1>4
  <2> QED BY <2>1, <2>2
<1>10. Mirrors(g, pipeLines, Cores', pipe')
  BY <1>5, <1>7, <1>8, <1>9 DEF Mirrors, D
<1> QED BY <1>10, Zenon DEF Mirror

LEMMA MirrorPushCore ==
  ASSUME PipeType, NEW x \in StageType, x.type = "Core", pipe' = Append(pipe, x), Mirror,
         pipeLines' = Append(pipeLines, x.req.addr[1]), x.req.addr[1] \in Tags
  PROVE  Mirror' /\ Len(pipeLines') = Len(pipeLines) + 1
<1>1. PICK f : Mirrors(f, pipeLines, Cores, pipe)
  BY DEF Mirror
<1> DEFINE D == DOMAIN pipeLines
           n == Len(pipeLines) + 1
           e == Len(pipe) + 1
           g == [k \in D \cup {n} |-> IF k = n THEN e ELSE f[k]]
<1>2. /\ pipeLines' \in Seq(Tags) /\ Len(pipeLines') = n /\ D = 1 .. n - 1 /\ n \in Nat
      /\ DOMAIN pipeLines' = D \cup {n} /\ n \notin D /\ \A k \in D : k < n
      /\ \A k \in D : pipeLines'[k] = pipeLines[k]
      /\ pipeLines'[n] = x.req.addr[1]
  BY DEF Mirror
<1>3. /\ Cores' = Cores \cup {e} /\ \A i \in Cores : i < e /\ pipe'[i] = pipe[i]
      /\ pipe'[e] = x
  BY PushShift DEF Cores
<1>4. f \in [D -> Cores] /\ (\A j, k \in D : j < k => f[j] < f[k])
      /\ (\A i \in Cores : \E k \in D : f[k] = i)
      /\ (\A k \in D : pipeLines[k] = pipe[f[k]].req.addr[1])
  BY <1>1 DEF Mirrors
<1>11. Len(pipeLines') = Len(pipeLines) + 1
  BY <1>2
<1> HIDE DEF n, e
<1>5. D \subseteq Nat
  BY <1>2
<1> HIDE DEF D
<1>6. g \in [D \cup {n} -> Cores'] /\ g[n] = e /\ \A k \in D : g[k] = f[k]
  BY <1>2, <1>3, <1>4
<1> HIDE DEF g
<1>7. ASSUME NEW j \in D \cup {n}, NEW k \in D \cup {n}, j < k PROVE g[j] < g[k]
  <2>1. j \in D
    <3>1. CASE j = n
      <4>1. k < n \/ k = n
        BY <1>2
      <4> QED BY <3>1, <4>1, <1>2, <1>5, <1>7
    <3> QED BY <3>1
  <2>2. CASE k \in D
    BY <2>1, <2>2, <1>4, <1>6, <1>7
  <2>3. CASE k = n
    BY <2>1, <2>3, <1>3, <1>4, <1>6
  <2> QED BY <2>2, <2>3
<1>8. \A i \in Cores' : \E k \in D \cup {n} : g[k] = i
  BY <1>3, <1>4, <1>6
<1>9. ASSUME NEW k \in D \cup {n} PROVE pipeLines'[k] = pipe'[g[k]].req.addr[1]
  <2>1. CASE k = n
    BY <2>1, <1>2, <1>3, <1>6
  <2>2. CASE k \in D
    <3>1. f[k] \in Cores /\ g[k] = f[k] /\ pipe'[f[k]] = pipe[f[k]]
      BY <2>2, <1>3, <1>4, <1>6
    <3>2. pipeLines'[k] = pipe[f[k]].req.addr[1]
      BY <2>2, <1>2, <1>4
    <3> QED BY <3>1, <3>2
  <2> QED BY <2>1, <2>2
<1>10. Mirrors(g, pipeLines', Cores', pipe')
  BY <1>2, <1>6, <1>7, <1>8, <1>9 DEF Mirrors
<1>12. Mirror'
  BY <1>2, <1>10, Zenon DEF Mirror
<1> QED BY <1>11, <1>12

\* The mirror follows a pipeline whose Core requests are where they were.
LEMMA MirrorSame ==
  ASSUME Mirror, pipeLines' = pipeLines, Cores' = Cores,
         \A i \in Cores : pipe'[i].req = pipe[i].req
  PROVE  Mirror'
<1>1. PICK f : Mirrors(f, pipeLines, Cores, pipe)
  BY DEF Mirror
<1>2. Mirrors(f, pipeLines', Cores', pipe')
  BY <1>1 DEF Mirrors
<1> QED BY <1>2, Zenon DEF Mirror

LEMMA MirrorPushOther ==
  ASSUME PipeType, NEW x \in StageType, x.type # "Core", pipe' = Append(pipe, x), Mirror,
         pipeLines' = pipeLines
  PROVE  Mirror'
<1>1. Cores' = Cores /\ \A i \in Cores : pipe'[i] = pipe[i]
  BY PushShift DEF Cores
<1> QED BY <1>1, MirrorSame
-----------------------------------------------------------------------------
(* The pipeline with its counters and its mirror.                            *)

Probes == {i \in DOMAIN pipe : pipe[i].type = "AmoProbe"}
Counts ==
  /\ pending.mshr = Cardinality(Cores) /\ pending.probes = Cardinality(Probes)
  /\ Len(pipeLines) = Cardinality(Cores)
PipeInv == PipeType /\ PendingType /\ Counts /\ Mirror

LEMMA StagesPipelined ==
  /\ Cores = Pipelined("Core") /\ Probes = Pipelined("AmoProbe") /\ Fills = Pipelined("Fill")
BY DEF Cores, Probes, Fills, Pipelined

LEMMA StagesFinite ==
  ASSUME PipeType
  PROVE  /\ IsFiniteSet(Cores) /\ Cardinality(Cores) \in Nat
         /\ IsFiniteSet(Probes) /\ Cardinality(Probes) \in Nat
BY PipelinedFinite, StagesPipelined

LEMMA PopCounts ==
  ASSUME PipeType, pipe # << >>, pipe' = Tail(pipe)
  PROVE  /\ Cardinality(Cores') = Cardinality(Cores) - (IF Head(pipe).type = "Core" THEN 1 ELSE 0)
         /\ Cardinality(Probes') = Cardinality(Probes)
                                    - (IF Head(pipe).type = "AmoProbe" THEN 1 ELSE 0)
<1>1. Cores' = Pipelined("Core")' /\ Probes' = Pipelined("AmoProbe")'
  BY DEF Cores, Probes, Pipelined
<1>2. Cores = Pipelined("Core") /\ Probes = Pipelined("AmoProbe")
  BY StagesPipelined
<1>3. Cardinality(Pipelined("Core")') = Cardinality(Pipelined("Core"))
        - (IF Head(pipe).type = "Core" THEN 1 ELSE 0)
  BY PopCount
<1>4. Cardinality(Pipelined("AmoProbe")') = Cardinality(Pipelined("AmoProbe"))
        - (IF Head(pipe).type = "AmoProbe" THEN 1 ELSE 0)
  BY PopCount
<1> QED BY <1>1, <1>2, <1>3, <1>4

LEMMA PushCounts ==
  ASSUME PipeType, NEW x \in StageType, pipe' = Append(pipe, x)
  PROVE  /\ Cardinality(Cores') = Cardinality(Cores) + (IF x.type = "Core" THEN 1 ELSE 0)
         /\ Cardinality(Probes') = Cardinality(Probes) + (IF x.type = "AmoProbe" THEN 1 ELSE 0)
<1>1. Cores' = Pipelined("Core")' /\ Probes' = Pipelined("AmoProbe")'
  BY DEF Cores, Probes, Pipelined
<1>2. Cores = Pipelined("Core") /\ Probes = Pipelined("AmoProbe")
  BY StagesPipelined
<1>3. Cardinality(Pipelined("Core")') = Cardinality(Pipelined("Core"))
        + (IF x.type = "Core" THEN 1 ELSE 0)
  BY PushCount
<1>4. Cardinality(Pipelined("AmoProbe")') = Cardinality(Pipelined("AmoProbe"))
        + (IF x.type = "AmoProbe" THEN 1 ELSE 0)
  BY PushCount
<1> QED BY <1>1, <1>2, <1>3, <1>4

\* What the head of the pipeline holds.
LEMMA HeadFacts ==
  ASSUME PipeType, NEW t, HeadIs(t)
  PROVE  /\ pipe # << >> /\ Head(pipe) \in StageType /\ Head(pipe).type = t
         /\ t # "Fill" => Req \in RequestType /\ A \in Addr /\ Req.id \in Nat \ {0}
                          /\ (Req.op # "LD" => Req.en \subseteq Own)
         /\ t = "AmoProbe" => Req.op \notin {"LD", "ST"}
         /\ t = "Fill" => FillAddr \in Addr /\ Head(pipe).data \in DataType
<1>1. pipe # << >> /\ Head(pipe).type = t
  BY DEF HeadIs, HeadReady
<1>2. Head(pipe) \in StageType
  BY <1>1, HeadTailProperties DEF PipeType
<1>3. t # "Fill" => Req \in RequestType
  BY <1>1, <1>2 DEF StageType, Req
<1>4. \A r \in RequestType : r.addr \in Addr /\ r.id \in Nat \ {0}
                             /\ (r.op # "LD" => r.en \subseteq Own)
  BY DEF RequestType
<1>5. t = "AmoProbe" => Req.op \notin {"LD", "ST"}
  BY <1>1, <1>2 DEF StageType, Req
<1>6. t = "Fill" => FillAddr \in Addr /\ Head(pipe).data \in DataType
  BY <1>1, <1>2 DEF StageType, FillAddr
<1> QED BY <1>1, <1>2, <1>3, <1>4, <1>5, <1>6 DEF A

\* A Core request leaves the pipeline.
LEMMA CoreLeaves ==
  ASSUME PipeInv, FillsDiffer, config' = config, HeadIs("Core"), pipe' = Tail(pipe),
         pipeLines' = EraseLine,
         PendingType', pending'.mshr = pending.mshr - 1, pending'.probes = pending.probes
  PROVE  PipeInv' /\ FillsDiffer' /\ FillAddrs' = FillAddrs
<1>1. PipeType /\ pipe # << >> /\ Head(pipe).type = "Core" /\ Mirror /\ Counts
  BY HeadFacts DEF PipeInv
<1>2. Mirror' /\ Len(pipeLines') = Len(pipeLines) - 1
  BY <1>1, MirrorPopCore
<1>3. FillsDiffer' /\ FillAddrs' = FillAddrs
  BY <1>1, PopFills
<1>4. Cardinality(Cores') = Cardinality(Cores) - 1 /\ Cardinality(Probes') = Cardinality(Probes)
      /\ Cardinality(Probes) \in Nat
  BY <1>1, PopCounts, StagesFinite
<1>5. Counts'
  BY <1>1, <1>2, <1>4 DEF Counts
<1>6. PipeType'
  BY <1>1, PopShift, TypesFrame DEF PipeType
<1> QED BY <1>2, <1>3, <1>5, <1>6 DEF PipeInv

\* Any other head leaves.
LEMMA OtherLeaves ==
  ASSUME PipeInv, FillsDiffer, config' = config, NEW t, HeadIs(t), t # "Core",
         pipe' = Tail(pipe), pipeLines' = pipeLines,
         PendingType', pending'.mshr = pending.mshr,
         pending'.probes = pending.probes - (IF t = "AmoProbe" THEN 1 ELSE 0)
  PROVE  /\ PipeInv' /\ FillsDiffer'
         /\ FillAddrs' = IF t = "Fill" THEN FillAddrs \ {FillAddr} ELSE FillAddrs
         /\ t = "Fill" => FillAddr \in FillAddrs
<1>1. PipeType /\ pipe # << >> /\ Head(pipe).type = t /\ Mirror /\ Counts
  BY HeadFacts DEF PipeInv
<1>2. Mirror'
  BY <1>1, MirrorPopOther
<1>3. /\ FillsDiffer' /\ FillAddrs' = IF t = "Fill" THEN FillAddrs \ {FillAddr} ELSE FillAddrs
      /\ t = "Fill" => FillAddr \in FillAddrs
  BY <1>1, PopFills DEF FillAddr
<1>4. Cardinality(Cores') = Cardinality(Cores) /\ Cardinality(Cores) \in Nat
      /\ Cardinality(Probes') = Cardinality(Probes) - (IF t = "AmoProbe" THEN 1 ELSE 0)
  BY <1>1, PopCounts, StagesFinite
<1>5. Counts'
  BY <1>1, <1>4 DEF Counts
<1>6. PipeType'
  BY <1>1, PopShift, TypesFrame DEF PipeType
<1> QED BY <1>2, <1>3, <1>5, <1>6 DEF PipeInv

\* A stage enters.
LEMMA StageEnters ==
  ASSUME PipeInv, FillsDiffer, config' = config, NEW x \in StageType, pipe' = Append(pipe, x),
         x.type = "Fill" => x.addr \notin FillAddrs,
         x.type = "Core" => x.req.addr[1] \in Tags
                            /\ pipeLines' = Append(pipeLines, x.req.addr[1]),
         x.type # "Core" => pipeLines' = pipeLines,
         PendingType', pending'.mshr = pending.mshr + (IF x.type = "Core" THEN 1 ELSE 0),
         pending'.probes = pending.probes + (IF x.type = "AmoProbe" THEN 1 ELSE 0)
  PROVE  /\ PipeInv' /\ FillsDiffer'
         /\ FillAddrs' = IF x.type = "Fill" THEN FillAddrs \cup {x.addr} ELSE FillAddrs
<1>1. PipeType /\ Mirror /\ Counts
  BY DEF PipeInv
<1>2. Mirror' /\ Len(pipeLines') = Len(pipeLines) + (IF x.type = "Core" THEN 1 ELSE 0)
  <2>1. CASE x.type = "Core"
    BY <2>1, <1>1, MirrorPushCore
  <2>2. CASE x.type # "Core"
    <3>1. Mirror'
      BY <2>2, <1>1, MirrorPushOther
    <3>2. Len(pipeLines) \in Nat
      BY <1>1 DEF Mirror
    <3> QED BY <2>2, <3>1, <3>2
  <2> QED BY <2>1, <2>2
<1>3. FillsDiffer' /\ FillAddrs' = IF x.type = "Fill" THEN FillAddrs \cup {x.addr} ELSE FillAddrs
  BY <1>1, PushFills
<1>4. /\ Cardinality(Cores') = Cardinality(Cores) + (IF x.type = "Core" THEN 1 ELSE 0)
      /\ Cardinality(Probes') = Cardinality(Probes) + (IF x.type = "AmoProbe" THEN 1 ELSE 0)
  BY <1>1, PushCounts
<1>5. Counts'
  BY <1>1, <1>2, <1>4 DEF Counts
<1>6. PipeType'
  BY <1>1, PushShift, TypesFrame DEF PipeType
<1> QED BY <1>2, <1>3, <1>5, <1>6 DEF PipeInv

\* The pipeline stays, but for the age of its stages.
LEMMA StagesStay ==
  ASSUME PipeInv, FillsDiffer, config' = config, UNCHANGED pipeLines,
         PendingType', pending'.mshr = pending.mshr, pending'.probes = pending.probes,
         \/ pipe' = pipe
         \/ pipe' = [i \in DOMAIN pipe |-> [pipe[i] EXCEPT !.age = Min({@ + 1, Latency})]]
  PROVE  PipeInv' /\ FillsDiffer' /\ FillAddrs' = FillAddrs
<1>1. PipeType /\ Mirror /\ Counts
  BY DEF PipeInv
<1>2. /\ pipe' \in Seq(StageType) /\ DOMAIN pipe' = DOMAIN pipe
      /\ \A i \in DOMAIN pipe : pipe'[i].type = pipe[i].type
      /\ \A i \in Fills : pipe'[i].addr = pipe[i].addr
      /\ \A i \in DOMAIN pipe : pipe[i].type # "Fill" => pipe'[i].req = pipe[i].req
  <2>1. CASE pipe' = pipe
    BY <2>1, <1>1 DEF PipeType
  <2>2. CASE pipe' # pipe
    BY <2>2, <1>1, AgeStep
  <2> QED BY <2>1, <2>2
<1>3. FillsDiffer' /\ FillAddrs' = FillAddrs
  BY <1>2, AgeFrame
<1>4. Cores' = Cores /\ Probes' = Probes
  BY <1>2 DEF Cores, Probes
<1>5. \A i \in Cores : pipe'[i].req = pipe[i].req
  BY <1>2 DEF Cores
<1>6. Mirror'
  BY <1>1, <1>4, <1>5, MirrorSame
<1>7. Counts'
  BY <1>1, <1>4 DEF Counts
<1>8. PipeType'
  BY <1>2, TypesFrame DEF PipeType
<1> QED BY <1>3, <1>6, <1>7, <1>8 DEF PipeInv
-----------------------------------------------------------------------------
(* The inductive invariant.                                                  *)

Used == {p \in Pids : passthru[p] # 0}

\* What is under way below is a fill of an entry or an atomic of the table.
PassInv ==
  /\ Flying \subseteq 1 .. MshrSize + PassSize
  /\ \A p \in Pids : passthru[p] # 0 <=> MshrSize + p \in Flying
CountInv == IsFiniteSet(Flying) /\ pending.fills = Cardinality(Flying)
Room ==
  /\ remissed \/ Cardinality(InUse) + pending.mshr <= MshrSize
  /\ Cardinality(Used) + pending.probes <= PassSize

ArrayInv == config \in Configs /\ WayType /\ MshrType /\ MemType /\ CoreType
BankInv == ArrayInv /\ PipeInv /\ Once /\ FillInv /\ PassInv /\ CountInv /\ Room

\* Nothing is sent below and nothing taken, or it moves on.
LEMMA TokensStay ==
  ASSUME PassInv, CountInv, config' = config, Flying' = Flying,
         pending'.fills = pending.fills, passthru' = passthru
  PROVE  PassInv' /\ CountInv' /\ Asked' = Asked
<1>1. Entries' = Entries /\ MshrSize' = MshrSize
  BY TypesFrame
<1>2. Asked' = Asked
  BY <1>1 DEF Asked
<1>3. CountInv'
  BY DEF CountInv
<1>4. PassInv'
  BY <1>1 DEF PassInv
<1> QED BY <1>2, <1>3, <1>4

\* A fill is asked for.
LEMMA TokensAsk ==
  ASSUME config \in Configs, PassInv, CountInv, config' = config, NEW k \in Entries,
         k \notin Flying, Flying' = Flying \cup {k}, pending'.fills = pending.fills + 1,
         passthru' = passthru
  PROVE  PassInv' /\ CountInv' /\ Asked' = Asked \cup {k}
<1>1. Entries' = Entries /\ MshrSize' = MshrSize
  BY TypesFrame
<1>2. Asked' = Asked \cup {k}
  BY <1>1 DEF Asked
<1>3. CountInv'
  BY FS_AddElement DEF CountInv
<1>4. MshrSize \in Nat /\ PassSize \in Nat /\ k \in 1 .. MshrSize
  BY ConfigFacts, ConstantFacts DEF Entries
<1>5. k \in 1 .. MshrSize + PassSize /\ \A p \in Pids : MshrSize + p # k
  BY <1>4 DEF Pids
<1>6. PassInv'
  BY <1>1, <1>5 DEF PassInv
<1> QED BY <1>2, <1>3, <1>6

\* An atomic is passed down.
LEMMA TokensPass ==
  ASSUME config \in Configs, passthru \in [Pids -> Nat], PassInv, CountInv, config' = config,
         NEW p \in Pids, NEW v \in Nat \ {0}, MshrSize + p \notin Flying,
         Flying' = Flying \cup {MshrSize + p}, pending'.fills = pending.fills + 1,
         passthru' = [passthru EXCEPT ![p] = v]
  PROVE  PassInv' /\ CountInv' /\ Asked' = Asked
<1>1. Entries' = Entries /\ MshrSize' = MshrSize
  BY TypesFrame
<1>2. MshrSize \in Nat /\ PassSize \in Nat /\ p \in 1 .. PassSize /\ Entries = 1 .. MshrSize
  BY ConfigFacts, ConstantFacts DEF Entries, Pids
<1>3. MshrSize + p \notin Entries /\ MshrSize + p \in 1 .. MshrSize + PassSize
  BY <1>2
<1>4. Asked' = Asked
  BY <1>1, <1>3 DEF Asked
<1>5. CountInv'
  BY FS_AddElement DEF CountInv
<1>6. \A o \in Pids : MshrSize + o = MshrSize + p => o = p
  BY <1>2 DEF Pids
<1>7. ASSUME NEW o \in Pids PROVE passthru'[o] # 0 <=> MshrSize + o \in Flying'
  <2>1. CASE o = p
    BY <2>1
  <2>2. CASE o # p
    BY <2>2, <1>6 DEF PassInv
  <2> QED BY <2>1, <2>2
<1>8. Flying' \subseteq 1 .. MshrSize + PassSize
  BY <1>3 DEF PassInv
<1>9. PassInv'
  BY <1>1, <1>7, <1>8 DEF PassInv
<1> QED BY <1>4, <1>5, <1>9

\* The answer to a fill is taken.
LEMMA TokensFill ==
  ASSUME config \in Configs, PassInv, CountInv, config' = config, NEW k \in Flying,
         k <= MshrSize, Flying' = Flying \ {k}, pending'.fills = pending.fills - 1,
         passthru' = passthru
  PROVE  PassInv' /\ CountInv' /\ Asked' = Asked \ {k} /\ k \in Asked
<1>1. Entries' = Entries /\ MshrSize' = MshrSize
  BY TypesFrame
<1>2. MshrSize \in Nat /\ PassSize \in Nat /\ k \in 1 .. MshrSize + PassSize
  BY ConfigFacts, ConstantFacts DEF PassInv
<1>3. Asked' = Asked \ {k} /\ k \in Asked
  BY <1>1, <1>2 DEF Asked, Entries
<1>4. CountInv'
  BY FS_RemoveElement DEF CountInv
<1>5. \A p \in Pids : MshrSize + p # k
  BY <1>2 DEF Pids
<1>6. PassInv'
  BY <1>1, <1>5 DEF PassInv
<1> QED BY <1>3, <1>4, <1>6

\* The answer to an atomic is taken.
LEMMA TokensDone ==
  ASSUME config \in Configs, passthru \in [Pids -> Nat], PassInv, CountInv, config' = config,
         NEW k \in Flying, k > MshrSize, Flying' = Flying \ {k},
         pending'.fills = pending.fills - 1,
         passthru' = [passthru EXCEPT ![k - MshrSize] = 0]
  PROVE  /\ PassInv' /\ CountInv' /\ Asked' = Asked
         /\ k - MshrSize \in Pids /\ passthru[k - MshrSize] # 0
<1> DEFINE p == k - MshrSize
<1>1. Entries' = Entries /\ MshrSize' = MshrSize
  BY TypesFrame
<1>2. MshrSize \in Nat /\ PassSize \in Nat /\ k \in 1 .. MshrSize + PassSize
  BY ConfigFacts, ConstantFacts DEF PassInv
<1>3. p \in Pids /\ MshrSize + p = k
  BY <1>2 DEF Pids
<1>4. Asked' = Asked
  BY <1>1, <1>2 DEF Asked, Entries
<1>5. CountInv'
  BY FS_RemoveElement DEF CountInv
<1>6. passthru[p] # 0
  BY <1>3 DEF PassInv
<1>7. \A o \in Pids : MshrSize + o = MshrSize + p => o = p
  BY <1>2, <1>3 DEF Pids
<1> HIDE DEF p
<1>8. passthru' = [passthru EXCEPT ![p] = 0]
  BY DEF p
<1>9. ASSUME NEW o \in Pids PROVE passthru'[o] # 0 <=> MshrSize + o \in Flying'
  <2>1. CASE o = p
    BY <2>1, <1>3, <1>8
  <2>2. CASE o # p
    BY <2>2, <1>3, <1>7, <1>8 DEF PassInv
  <2> QED BY <2>1, <2>2
<1>10. PassInv'
  BY <1>1, <1>9 DEF PassInv
<1> QED BY <1>3, <1>4, <1>5, <1>6, <1>10 DEF p

\* The MSHR stays.
LEMMA MshrStays ==
  ASSUME FillInv, config' = config, mshr' = mshr, Asked' = Asked, FillAddrs' = FillAddrs,
         FillsDiffer'
  PROVE  FillInv' /\ InUse' = InUse /\ (MshrType => MshrType')
<1>1. Entries' = Entries /\ EntryType' = EntryType
  BY TypesFrame
<1>2. Waiting' = Waiting /\ InUse' = InUse
  BY <1>1 DEF Waiting, InUse
<1>3. FillInv'
  BY <1>2, FillSame
<1> QED BY <1>1, <1>2, <1>3 DEF MshrType

\* A store of its own bytes is sent below, or nothing.
LEMMA OwnStore ==
  ASSUME NEW r \in RequestType, r.op # "LD"
  PROVE  Write(r.addr, Merge(Zero, r.en, r.id), r.en) \in StoreType
<1>1. r.addr \in Tags \X Sectors /\ r.en \subseteq Own /\ r.id \in Nat
  BY DEF RequestType, Addr
<1>2. Merge(Zero, r.en, r.id) \in DataType
  BY <1>1, MergeType, ZeroType
<1>3. r.addr \in (Tags \cup {NoTag}) \X Sectors
  BY <1>1
<1> QED BY <1>1, <1>2, <1>3 DEF Write, StoreType, MemReqType, Ops, Own

LEMMA MaybeStore ==
  ASSUME MemType, Once, config' = config, UNCHANGED <<memRsp, dram, ram>>, NEW q,
         memReq' = memReq \/ (q \in StoreType /\ memReq' = Append(memReq, q))
  PROVE  MemType' /\ Once' /\ Flying' = Flying
<1>1. memReq' \in Seq(MemReqType) /\ Once' /\ Flying' = Flying
  <2>1. CASE memReq' = memReq
    <3>1. Asking' = Asking /\ ReqTags' = ReqTags /\ MemTags' = MemTags /\ RspTags' = RspTags
      BY <2>1 DEF Asking, ReqTags, MemTags, RspTags
    <3> QED BY <2>1, <3>1 DEF MemType, Once, Flying
  <2>2. CASE q \in StoreType /\ memReq' = Append(memReq, q)
    <3>1. <<q>> \in Seq(StoreType)
      BY <2>2
    <3>2. memReq' = memReq \o <<q>>
      BY <2>2 DEF MemType
    <3> QED BY <3>1, <3>2, SendStores
  <2> QED BY <2>1, <2>2
<1>2. MemReqType' = MemReqType
  BY TypesFrame
<1> QED BY <1>1, <1>2 DEF MemType

\* The line that is hit may take the bytes of the request and the lines age.
LEMMA TouchType ==
  ASSUME WayType, NEW r \in RequestType, NEW c, NEW hit, c => r.op # "LD"
  PROVE  UpdateLru(IF c THEN MergeSector(r.addr, r) ELSE way, hit) \in [Way -> LineType]
<1>1. way \in [Way -> LineType]
  BY DEF WayType
<1>2. c => MergeSector(r.addr, r) \in [Way -> LineType]
  BY MergeSectorType
<1>3. (IF c THEN MergeSector(r.addr, r) ELSE way) \in [Way -> LineType]
  BY <1>1, <1>2
<1> QED BY <1>3, UpdateLruType
-----------------------------------------------------------------------------
(* The steps of the bank and of what surrounds it.                           *)

\* The room in the MSHR and in the table, when neither takes anything.
LEMMA RoomStays ==
  ASSUME config \in Configs, Room, PendingType, config' = config, passthru' = passthru,
         remissed' = remissed, Cardinality(InUse') <= Cardinality(InUse),
         Cardinality(InUse') \in Nat,
         pending'.mshr \in Int, pending'.mshr <= pending.mshr, pending'.probes = pending.probes
  PROVE  Room'
<1>1. Used' = Used /\ MshrSize' = MshrSize
  BY TypesFrame DEF Used
<1>2. MshrSize \in Nat /\ Cardinality(InUse) \in Nat /\ pending.mshr \in Int
  BY ConfigFacts, InUseFinite DEF PendingType
<1>3. remissed' \/ Cardinality(InUse') + pending'.mshr <= MshrSize'
  BY <1>1, <1>2 DEF Room
<1> QED BY <1>1, <1>3 DEF Room

\* Steps that leave the array, the MSHR, the pipeline and the tags alone.
LEMMA IdleStep ==
  ASSUME BankInv, UNCHANGED <<config, way, repl, mshr, pending, pipeLines, passthru, remissed>>,
         pipe' = pipe, Flying' = Flying, Once', MemType', CoreType'
  PROVE  BankInv'
<1>1. config \in Configs /\ WayType /\ MshrType /\ PipeInv /\ FillInv /\ FillsDiffer
  BY DEF BankInv, ArrayInv, FillInv
<1>2. PendingType'
  BY <1>1 DEF PipeInv, PendingType
<1>3. PipeInv' /\ FillsDiffer' /\ FillAddrs' = FillAddrs
  BY <1>1, <1>2, StagesStay
<1>4. PassInv' /\ CountInv' /\ Asked' = Asked
  BY TokensStay DEF BankInv
<1>5. FillInv' /\ InUse' = InUse /\ MshrType'
  BY <1>1, <1>3, <1>4, MshrStays
<1>6. Room'
  <2>1. Used' = Used /\ MshrSize' = MshrSize
    BY TypesFrame DEF Used
  <2> QED BY <1>5, <2>1 DEF BankInv, Room
<1>7. WayType'
  BY <1>1, TypesFrame DEF WayType
<1>8. ArrayInv'
  BY <1>1, <1>5, <1>7 DEF ArrayInv
<1> QED BY <1>3, <1>4, <1>5, <1>6, <1>8 DEF BankInv

LEMMA TagsStay ==
  ASSUME MemType, Once, config' = config, UNCHANGED <<memReq, memRsp, dram>>,
         ram' \in [Addr -> DataType]
  PROVE  MemType' /\ Once' /\ Flying' = Flying
<1>1. Asking' = Asking /\ ReqTags' = ReqTags /\ MemTags' = MemTags /\ RspTags' = RspTags
  BY DEF Asking, ReqTags, MemTags, RspTags
<1>2. MemReqType' = MemReqType
  BY TypesFrame
<1> QED BY <1>1, <1>2 DEF MemType, Once, Flying

LEMMA NothingInv ==
  ASSUME BankInv, UNCHANGED <<config, way, repl, mshr, pipe, pending, pipeLines, passthru, remissed,
                              coreReq, issued, admSeq, memReq, memRsp, dram, ram>>
  PROVE  BankInv'
<1>1. MemType /\ Once /\ CoreType
  BY DEF BankInv, ArrayInv
<1>2. MemType' /\ Once' /\ Flying' = Flying
  BY <1>1, TagsStay DEF MemType
<1>3. CoreType'
  BY <1>1, TypesFrame DEF CoreType
<1> QED BY <1>2, <1>3, IdleStep

LEMMA IssueInv ==
  ASSUME BankInv, Issue
  PROVE  BankInv'
<1>0. UNCHANGED <<bank, mem>> /\ Len(issued) < MaxReqs
  BY DEF Issue
<1>1. UNCHANGED <<config, way, repl, mshr, pending, pipeLines, passthru, remissed, admSeq>>
      /\ pipe' = pipe /\ UNCHANGED <<memReq, memRsp, dram, ram>>
  BY <1>0 DEF bank, array, mem
<1>2. MemType /\ Once /\ CoreType /\ config \in Configs
  BY DEF BankInv, ArrayInv
<1> DEFINE R(t) == [id |-> Len(issued) + 1, op |-> t.op, addr |-> t.addr, en |-> t.en,
                    hart |-> t.hart, strsp |-> t.strsp, seq |-> 0, skip |-> FALSE]
<1>3. PICK t \in config.traffic : coreReq' = Append(coreReq, R(t)) /\ issued' = Append(issued, R(t))
  BY DEF Issue
<1>4. t \in Request /\ (t.op # "LD" => t.en \subseteq Own)
  BY <1>2, ConfigFacts
<1>5. Len(issued) \in Nat
  BY <1>2 DEF CoreType
<1>6. R(t) \in RequestType
  BY <1>4, <1>5 DEF Request, RequestType
<1>7. coreReq' \in Seq(RequestType) /\ issued' \in Seq(RequestType)
  BY <1>2, <1>3, <1>6 DEF CoreType
<1>8. CoreType'
  BY <1>1, <1>2, <1>7, TypesFrame DEF CoreType
<1>9. MemType' /\ Once' /\ Flying' = Flying
  BY <1>1, <1>2, TagsStay DEF MemType
<1> QED BY <1>1, <1>8, <1>9, IdleStep
LEMMA ForeignWriteInv ==
  ASSUME BankInv, ForeignWrite
  PROVE  BankInv'
<1>1. UNCHANGED <<bank, core, issued, memReq, memRsp, dram>>
  BY DEF ForeignWrite
<1>2. UNCHANGED <<config, way, repl, mshr, pending, pipeLines, passthru, remissed, coreReq, issued,
                  admSeq, memReq, memRsp, dram>> /\ pipe' = pipe
  BY <1>1 DEF bank, array, core
<1>3. MemType /\ Once /\ CoreType
  BY DEF BankInv, ArrayInv
<1>4. ram' \in [Addr -> DataType]
  <2>1. PICK a : ram' = [ram EXCEPT ![a] =
                          [b \in Bytes |-> IF b \in config.foreign THEN Foreign ELSE @[b]]]
    BY DEF ForeignWrite
  <2>2. Foreign \in Nat
    BY ConstantFacts DEF Foreign
  <2>3. \A f \in DataType : [b \in Bytes |-> IF b \in config.foreign THEN Foreign ELSE f[b]] \in DataType
    BY <2>2 DEF DataType
  <2> QED BY <1>3, <2>1, <2>3 DEF MemType
<1>5. MemType' /\ Once' /\ Flying' = Flying
  BY <1>2, <1>3, <1>4, TagsStay
<1>6. CoreType'
  BY <1>2, <1>3, TypesFrame DEF CoreType
<1> QED BY <1>2, <1>5, <1>6, IdleStep

LEMMA MemAcceptInv ==
  ASSUME BankInv, MemAccept
  PROVE  BankInv'
<1>1. UNCHANGED <<bank, core, issued>>
  BY DEF MemAccept
<1>2. UNCHANGED <<config, way, repl, mshr, pending, pipeLines, passthru, remissed, coreReq, issued,
                  admSeq>> /\ pipe' = pipe
  BY <1>1 DEF bank, array, core
<1>3. MemType /\ Once /\ CoreType
  BY DEF BankInv, ArrayInv
<1>4. MemType' /\ Once' /\ Flying' = Flying
  BY <1>3, AcceptMoves
<1>5. CoreType'
  BY <1>2, <1>3, TypesFrame DEF CoreType
<1> QED BY <1>2, <1>4, <1>5, IdleStep

LEMMA MemRespondInv ==
  ASSUME BankInv, MemRespond
  PROVE  BankInv'
<1>1. UNCHANGED <<bank, core, issued>>
  BY DEF MemRespond
<1>2. UNCHANGED <<config, way, repl, mshr, pending, pipeLines, passthru, remissed, coreReq, issued,
                  admSeq>> /\ pipe' = pipe
  BY <1>1 DEF bank, array, core
<1>3. MemType /\ Once /\ CoreType
  BY DEF BankInv, ArrayInv
<1>4. MemType' /\ Once' /\ Flying' = Flying
  BY <1>3, RespondMoves
<1>5. CoreType'
  BY <1>2, <1>3, TypesFrame DEF CoreType
<1> QED BY <1>2, <1>4, <1>5, IdleStep

\* A replay leaves the pipeline for good.
LEMMA ReplayGone ==
  ASSUME BankInv, HeadIs("Replay"), pipe' = Tail(pipe),
         UNCHANGED <<config, repl, mshr, pending, pipeLines, passthru, remissed, coreReq, issued,
                     admSeq, memRsp, dram, ram>>,
         way' \in [Way -> LineType], NEW q,
         memReq' = memReq \/ (q \in StoreType /\ memReq' = Append(memReq, q))
  PROVE  BankInv'
<1>1. config \in Configs /\ WayType /\ MshrType /\ PipeInv /\ FillInv /\ FillsDiffer
      /\ MemType /\ Once /\ CoreType /\ PassInv /\ CountInv /\ Room
  BY DEF BankInv, ArrayInv, FillInv
<1>2. PendingType'
  BY <1>1 DEF PipeInv, PendingType
<1>3. PipeInv' /\ FillsDiffer' /\ FillAddrs' = FillAddrs
  <2>1. PendingType /\ pending.probes \in Int
    BY <1>1 DEF PipeInv, PendingType
  <2>2. pending'.probes = pending.probes - (IF "Replay" = "AmoProbe" THEN 1 ELSE 0)
    BY <2>1
  <2> QED BY <1>1, <1>2, <2>2, OtherLeaves
<1>4. MemType' /\ Once' /\ Flying' = Flying
  BY <1>1, MaybeStore
<1>5. PassInv' /\ CountInv' /\ Asked' = Asked
  BY <1>1, <1>4, TokensStay
<1>6. FillInv' /\ InUse' = InUse /\ MshrType'
  BY <1>1, <1>3, <1>5, MshrStays
<1>7. Room'
  <2>1. Used' = Used /\ MshrSize' = MshrSize
    BY TypesFrame DEF Used
  <2> QED BY <1>1, <1>6, <2>1 DEF Room
<1>8. WayType' /\ CoreType'
  BY <1>1, TypesFrame DEF WayType, CoreType
<1>9. ArrayInv'
  BY <1>1, <1>4, <1>6, <1>8 DEF ArrayInv
<1> QED BY <1>3, <1>4, <1>5, <1>6, <1>7, <1>9 DEF BankInv

LEMMA ReplayDropInv ==
  ASSUME BankInv, ReplayDrop
  PROVE  BankInv'
<1>1. UNCHANGED <<config, repl, mshr, pending, pipeLines, passthru, remissed, coreReq, issued,
                  admSeq, memReq, memRsp, dram, ram, way>> /\ pipe' = Tail(pipe)
      /\ HeadIs("Replay")
  BY DEF ReplayDrop, Popped, array, core, mem, history
<1>2. way' \in [Way -> LineType]
  BY <1>1 DEF BankInv, ArrayInv, WayType
<1> QED BY <1>1, <1>2, ReplayGone

LEMMA ReplayHitInv ==
  ASSUME BankInv, ReplayHit
  PROVE  BankInv'
<1>1. UNCHANGED <<config, repl, mshr, pending, pipeLines, passthru, remissed, coreReq, issued,
                  admSeq, memReq, memRsp, dram, ram>> /\ pipe' = Tail(pipe)
      /\ HeadIs("Replay")
  BY DEF ReplayHit, Popped, mem, history
<1>2. WayType /\ PipeType
  BY DEF BankInv, ArrayInv, PipeInv
<1>3. Req \in RequestType
  BY <1>1, <1>2, HeadFacts
<1>4. way' = UpdateLru(IF Req.op = "ST" THEN MergeSector(Req.addr, Req) ELSE way, HitWays(A))
  BY DEF ReplayHit, A
<1>5. way' \in [Way -> LineType]
  BY <1>2, <1>3, <1>4, TouchType
<1> QED BY <1>1, <1>5, ReplayGone

LEMMA CommitFacts ==
  ASSUME WayType, Req \in RequestType, CommitAmo
  PROVE  /\ way' \in [Way -> LineType]
         /\ LET q == Write(A, Merge(Zero, Req.en, Req.id), Req.en)
            IN memReq' = memReq \/ (q \in StoreType /\ memReq' = Append(memReq, q))
<1>1. AmoStores => Req.op # "LD"
  BY DEF AmoStores
<1>2. way' = UpdateLru(IF AmoStores THEN MergeSector(Req.addr, Req) ELSE way, HitWays(A))
  BY DEF CommitAmo, A
<1>3. way' \in [Way -> LineType]
  BY <1>1, <1>2, TouchType
<1>4. AmoStores => Write(A, Merge(Zero, Req.en, Req.id), Req.en) \in StoreType
  BY <1>1, OwnStore DEF A
<1> QED BY <1>3, <1>4 DEF CommitAmo

LEMMA ReplayAmoInv ==
  ASSUME BankInv, ReplayAmo
  PROVE  BankInv'
<1>1. UNCHANGED <<config, repl, mshr, pending, pipeLines, passthru, remissed, coreReq, issued,
                  admSeq, memRsp, dram, ram>> /\ pipe' = Tail(pipe)
      /\ HeadIs("Replay") /\ CommitAmo
  BY DEF ReplayAmo, Popped, history
<1>2. WayType /\ PipeType
  BY DEF BankInv, ArrayInv, PipeInv
<1>3. Req \in RequestType
  BY <1>1, <1>2, HeadFacts
<1> DEFINE q == Write(A, Merge(Zero, Req.en, Req.id), Req.en)
<1>4. way' \in [Way -> LineType]
      /\ (memReq' = memReq \/ (q \in StoreType /\ memReq' = Append(memReq, q)))
  BY <1>1, <1>2, <1>3, CommitFacts
<1> HIDE DEF q
<1> QED BY <1>1, <1>4, ReplayGone
LEMMA LeaveFacts ==
  ASSUME PendingType, LeavePipe
  PROVE  /\ PendingType' /\ pending'.mshr = pending.mshr - 1 /\ pending'.probes = pending.probes
         /\ pending'.fills = pending.fills /\ pipeLines' = EraseLine
<1>1. pending' = [pending EXCEPT !.mshr = @ - 1]
  BY DEF LeavePipe
<1>2. pipeLines' = EraseLine
  BY DEF LeavePipe, EraseLine
<1> QED BY <1>1, <1>2 DEF PendingType

\* A Core request leaves the pipeline for good.
LEMMA CoreGone ==
  ASSUME BankInv, HeadIs("Core"), pipe' = Tail(pipe), LeavePipe,
         UNCHANGED <<config, repl, mshr, passthru, remissed, coreReq, issued, admSeq, memRsp, dram,
                     ram>>,
         way' \in [Way -> LineType], NEW q,
         memReq' = memReq \/ (q \in StoreType /\ memReq' = Append(memReq, q))
  PROVE  BankInv'
<1>1. config \in Configs /\ WayType /\ MshrType /\ PipeInv /\ FillInv /\ FillsDiffer
      /\ MemType /\ Once /\ CoreType /\ PassInv /\ CountInv /\ Room /\ PendingType
  BY DEF BankInv, ArrayInv, FillInv, PipeInv
<1>2. /\ PendingType' /\ pending'.mshr = pending.mshr - 1 /\ pending'.probes = pending.probes
      /\ pending'.fills = pending.fills /\ pipeLines' = EraseLine
  BY <1>1, LeaveFacts
<1>3. PipeInv' /\ FillsDiffer' /\ FillAddrs' = FillAddrs
  BY <1>1, <1>2, CoreLeaves
<1>4. MemType' /\ Once' /\ Flying' = Flying
  BY <1>1, MaybeStore
<1>5. PassInv' /\ CountInv' /\ Asked' = Asked
  BY <1>1, <1>2, <1>4, TokensStay
<1>6. FillInv' /\ InUse' = InUse /\ MshrType'
  BY <1>1, <1>3, <1>5, MshrStays
<1>7. Room'
  <2>1. Cardinality(InUse) \in Nat /\ pending.mshr \in Int
    BY <1>1, InUseFinite DEF PendingType
  <2> QED BY <1>1, <1>2, <1>6, <2>1, RoomStays
<1>8. WayType' /\ CoreType'
  BY <1>1, TypesFrame DEF WayType, CoreType
<1>9. ArrayInv'
  BY <1>1, <1>4, <1>6, <1>8 DEF ArrayInv
<1> QED BY <1>3, <1>4, <1>5, <1>6, <1>7, <1>9 DEF BankInv

LEMMA CoreAmoInv ==
  ASSUME BankInv, CoreAmo
  PROVE  BankInv'
<1>1. UNCHANGED <<config, repl, mshr, passthru, remissed, coreReq, issued,
                  admSeq, memRsp, dram, ram>> /\ pipe' = Tail(pipe) /\ LeavePipe
      /\ HeadIs("Core") /\ CommitAmo
  BY DEF CoreAmo, Popped, history
<1>2. WayType /\ PipeType
  BY DEF BankInv, ArrayInv, PipeInv
<1>3. Req \in RequestType
  BY <1>1, <1>2, HeadFacts
<1> DEFINE q == Write(A, Merge(Zero, Req.en, Req.id), Req.en)
<1>4. way' \in [Way -> LineType]
      /\ (memReq' = memReq \/ (q \in StoreType /\ memReq' = Append(memReq, q)))
  BY <1>1, <1>2, <1>3, CommitFacts
<1> HIDE DEF q
<1> QED BY <1>1, <1>4, CoreGone

LEMMA CoreHitInv ==
  ASSUME BankInv, CoreHit
  PROVE  BankInv'
<1>1. UNCHANGED <<config, repl, mshr, passthru, remissed, coreReq, issued,
                  admSeq, memRsp, dram, ram>> /\ pipe' = Tail(pipe) /\ LeavePipe
      /\ HeadIs("Core")
  BY DEF CoreHit, Popped
<1>2. WayType /\ PipeType
  BY DEF BankInv, ArrayInv, PipeInv
<1>3. Req \in RequestType
  BY <1>1, <1>2, HeadFacts
<1>4. way' = UpdateLru(IF Req.op = "ST" THEN MergeSector(Req.addr, Req) ELSE way, HitWays(A))
  BY DEF CoreHit, A
<1>5. way' \in [Way -> LineType]
  BY <1>2, <1>3, <1>4, TouchType
<1> DEFINE q == Write(A, Merge(Zero, Req.en, Req.id), Req.en)
<1>6. WtStore(Req) => q \in StoreType
  BY <1>3, OwnStore DEF WtStore, A
<1>7. memReq' = memReq \/ (q \in StoreType /\ memReq' = Append(memReq, q))
  BY <1>6 DEF CoreHit
<1> HIDE DEF q
<1> QED BY <1>1, <1>5, <1>7, CoreGone

\* A request takes an entry without asking for a fill.
LEMMA QueuedFills ==
  ASSUME config \in Configs, config' = config, MshrType, FillInv, ~MshrFull,
         NEW r \in RequestType, NEW ty \in {"Core", "Replay"}, mshr' = Enqueue(r, ty),
         ty = "Core" => PendingFill(r.addr), Asked' = Asked, FillAddrs' = FillAddrs, FillsDiffer'
  PROVE  FillInv' /\ MshrType' /\ Cardinality(InUse') = Cardinality(InUse) + 1
<1> DEFINE k == Min(Entries \ InUse)
<1>1. /\ k \notin Waiting
      /\ mshr' \in [Entries -> EntryType] /\ mshr'[k].req = r
      /\ Waiting' = IF ty = "Core" THEN Waiting \cup {k} ELSE Waiting
      /\ \A m \in Waiting : mshr'[m].req = mshr[m].req
      /\ Cardinality(InUse') = Cardinality(InUse) + 1
  BY EnqueueStep
<1> HIDE DEF k
<1>2. MshrType'
  BY <1>1, TypesFrame DEF MshrType
<1>3. CASE ty = "Core"
  <2>1. \E m \in Waiting : mshr[m].req.addr = mshr'[k].req.addr
    BY <1>1, <1>3, PendingWaits
  <2> QED BY <1>1, <1>2, <1>3, <2>1, FillJoin
<1>4. CASE ty # "Core"
  BY <1>1, <1>2, <1>4, FillSame
<1> QED BY <1>3, <1>4

\* A Core request leaves the pipeline for the MSHR, behind others of its sector.
LEMMA CoreQueued ==
  ASSUME BankInv, HeadIs("Core"), pipe' = Tail(pipe), LeavePipe, ~MshrFull,
         UNCHANGED <<config, repl, passthru, remissed, coreReq, issued, admSeq, memRsp, dram, ram>>,
         way' \in [Way -> LineType], NEW q,
         memReq' = memReq \/ (q \in StoreType /\ memReq' = Append(memReq, q)),
         NEW r \in RequestType, NEW ty \in {"Core", "Replay"}, mshr' = Enqueue(r, ty),
         ty = "Core" => PendingFill(r.addr)
  PROVE  BankInv'
<1>1. config \in Configs /\ WayType /\ MshrType /\ PipeInv /\ FillInv /\ FillsDiffer
      /\ MemType /\ Once /\ CoreType /\ PassInv /\ CountInv /\ Room /\ PendingType
  BY DEF BankInv, ArrayInv, FillInv, PipeInv
<1>2. /\ PendingType' /\ pending'.mshr = pending.mshr - 1 /\ pending'.probes = pending.probes
      /\ pending'.fills = pending.fills /\ pipeLines' = EraseLine
  BY <1>1, LeaveFacts
<1>3. PipeInv' /\ FillsDiffer' /\ FillAddrs' = FillAddrs
  BY <1>1, <1>2, CoreLeaves
<1>4. MemType' /\ Once' /\ Flying' = Flying
  BY <1>1, MaybeStore
<1>5. PassInv' /\ CountInv' /\ Asked' = Asked
  BY <1>1, <1>2, <1>4, TokensStay
<1>6. FillInv' /\ MshrType' /\ Cardinality(InUse') = Cardinality(InUse) + 1
  BY <1>1, <1>3, <1>5, QueuedFills
<1>7. Room'
  <2>1. Cardinality(InUse) \in Nat /\ pending.mshr \in Int
    BY <1>1, InUseFinite DEF PendingType
  <2>2. Used' = Used /\ MshrSize' = MshrSize
    BY TypesFrame DEF Used
  <2>3. Cardinality(InUse') + pending'.mshr = Cardinality(InUse) + pending.mshr
    BY <1>2, <1>6, <2>1
  <2> QED BY <1>1, <1>2, <2>2, <2>3 DEF Room
<1>8. WayType' /\ CoreType'
  BY <1>1, TypesFrame DEF WayType, CoreType
<1>9. ArrayInv'
  BY <1>1, <1>4, <1>6, <1>8 DEF ArrayInv
<1> QED BY <1>3, <1>4, <1>5, <1>6, <1>7, <1>9 DEF BankInv

LEMMA SkipType ==
  ASSUME NEW r \in RequestType, NEW b \in BOOLEAN
  PROVE  /\ [r EXCEPT !.skip = b] \in RequestType /\ [r EXCEPT !.skip = b].addr = r.addr
BY DEF RequestType

LEMMA CoreDeferInv ==
  ASSUME BankInv, CoreDefer
  PROVE  BankInv'
<1>1. UNCHANGED <<config, way, repl, passthru, remissed, coreReq, issued,
                  admSeq, memRsp, dram, ram>> /\ pipe' = Tail(pipe) /\ LeavePipe
      /\ HeadIs("Core") /\ ~MshrFull /\ mshr' = Enqueue([Req EXCEPT !.skip = WtStore(Req)], "Replay")
  BY DEF CoreDefer, Popped, array, history
<1>2. WayType /\ PipeType
  BY DEF BankInv, ArrayInv, PipeInv
<1>3. Req \in RequestType
  BY <1>1, <1>2, HeadFacts
<1>4. way' \in [Way -> LineType]
  BY <1>1, <1>2 DEF WayType
<1>5. WtStore(Req) \in BOOLEAN
  BY DEF WtStore
<1>6. [Req EXCEPT !.skip = WtStore(Req)] \in RequestType
  BY <1>3, <1>5, SkipType
<1> DEFINE q == Write(A, Merge(Zero, Req.en, Req.id), Req.en)
<1>7. WtStore(Req) => q \in StoreType
  BY <1>3, OwnStore DEF WtStore, A
<1>8. memReq' = memReq \/ (q \in StoreType /\ memReq' = Append(memReq, q))
  BY <1>7 DEF CoreDefer, EmitWritethrough
<1> HIDE DEF q
<1> QED BY <1>1, <1>4, <1>6, <1>8, CoreQueued

LEMMA CoreStoreMissInv ==
  ASSUME BankInv, CoreStoreMiss
  PROVE  BankInv'
<1>1. UNCHANGED <<config, repl, passthru, remissed, coreReq, issued,
                  admSeq, memRsp, dram, ram>> /\ pipe' = Tail(pipe) /\ LeavePipe
      /\ HeadIs("Core") /\ way' = UpdateLru(way, {}) /\ WtStore(Req)
      /\ mshr' = (IF PendingFill(A) THEN Enqueue([Req EXCEPT !.skip = TRUE], "Core") ELSE mshr)
      /\ (PendingFill(A) => ~MshrFull)
  BY DEF CoreStoreMiss, Popped, StoreMissReady
<1>2. WayType /\ PipeType
  BY DEF BankInv, ArrayInv, PipeInv
<1>3. Req \in RequestType
  BY <1>1, <1>2, HeadFacts
<1>4. way' \in [Way -> LineType]
  BY <1>1, <1>2, UpdateLruType DEF WayType
<1>6. [Req EXCEPT !.skip = TRUE] \in RequestType /\ [Req EXCEPT !.skip = TRUE].addr = A
  BY <1>3, SkipType DEF A
<1> DEFINE q == Write(A, Merge(Zero, Req.en, Req.id), Req.en)
<1>7. q \in StoreType
  BY <1>1, <1>3, OwnStore DEF WtStore, A
<1>8. memReq' = memReq \/ (q \in StoreType /\ memReq' = Append(memReq, q))
  BY <1>7 DEF CoreStoreMiss, EmitWritethrough
<1> HIDE DEF q
<1>9. CASE PendingFill(A)
  <2>1. mshr' = Enqueue([Req EXCEPT !.skip = TRUE], "Core") /\ ~MshrFull
    BY <1>1, <1>9
  <2> QED BY <1>1, <1>4, <1>6, <1>8, <1>9, <2>1, CoreQueued
<1>10. CASE ~PendingFill(A)
  <2>1. mshr' = mshr
    BY <1>1, <1>10
  <2> QED BY <1>1, <1>4, <1>8, <2>1, CoreGone
<1> QED BY <1>9, <1>10
\* A request opens a chain: it takes an entry and asks for the fill under it.
LEMMA OpenChain ==
  ASSUME ArrayInv, Once, FillInv, PassInv, CountInv, config' = config, ~MshrFull,
         NEW r \in RequestType, mshr' = Enqueue(r, "Core"), ~PendingFill(r.addr),
         memReq' = Append(memReq, FillReq(Min(Entries \ InUse), r.addr)),
         pending'.fills = pending.fills + 1, FillAddrs' = FillAddrs, FillsDiffer',
         UNCHANGED <<memRsp, dram, ram, passthru>>
  PROVE  /\ MemType' /\ Once' /\ FillInv' /\ PassInv' /\ CountInv' /\ MshrType'
         /\ Cardinality(InUse') = Cardinality(InUse) + 1
<1> DEFINE k == Min(Entries \ InUse)
           q == FillReq(k, r.addr)
<1>0. config \in Configs /\ MshrType /\ MemType
  BY DEF ArrayInv
<1>1. /\ k \in Entries /\ k \notin Waiting
      /\ mshr' \in [Entries -> EntryType] /\ mshr'[k].req = r
      /\ Waiting' = Waiting \cup {k}
      /\ \A m \in Waiting : mshr'[m].req = mshr[m].req
      /\ Cardinality(InUse') = Cardinality(InUse) + 1
  BY <1>0, EnqueueStep
<1>2. memReq' = Append(memReq, q)
  OBVIOUS
<1> HIDE DEF k
<1>3. k \notin Flying
  BY <1>1 DEF FillInv, Asked
<1>4. q \in MemReqType /\ q.op # "ST" /\ q.tag = k
  <2>1. r.addr \in Addr /\ k \in Nat /\ Zero \in DataType
    BY <1>0, <1>1, ConfigFacts, ZeroType DEF RequestType
  <2>2. r.addr \in (Tags \cup {NoTag}) \X Sectors
    BY <2>1 DEF Addr
  <2> QED BY <2>1, <2>2 DEF FillReq, MemReqType, Ops
<1> HIDE DEF q
<1>5. memReq' \in Seq(MemReqType) /\ Once' /\ Flying' = Flying \cup {k}
  BY <1>0, <1>2, <1>3, <1>4, SendAsk
<1>6. MemType'
  BY <1>0, <1>5, TypesFrame DEF MemType
<1>7. PassInv' /\ CountInv' /\ Asked' = Asked \cup {k}
  BY <1>0, <1>1, <1>3, <1>5, TokensAsk
<1>8. \A m \in Waiting : mshr[m].req.addr # mshr'[k].req.addr
  BY <1>1, PendingWaits
<1>9. FillInv'
  BY <1>1, <1>7, <1>8, FillNew
<1>10. MshrType'
  BY <1>1, TypesFrame DEF MshrType
<1> QED BY <1>1, <1>5, <1>6, <1>7, <1>9, <1>10

LEMMA CoreMissInv ==
  ASSUME BankInv, CoreMiss
  PROVE  BankInv'
<1>1. UNCHANGED <<config, repl, passthru, remissed, coreReq, issued,
                  admSeq, memRsp, dram, ram>> /\ pipe' = Tail(pipe)
      /\ HeadIs("Core") /\ way' = UpdateLru(way, {}) /\ ~MshrFull
      /\ mshr' = Enqueue(Req, "Core")
      /\ pending' = [pending EXCEPT !.mshr = @ - 1, !.fills = IF PendingFill(A) THEN @ ELSE @ + 1]
      /\ memReq' = (IF PendingFill(A) THEN memReq
                    ELSE Append(memReq, FillReq(Min(Entries \ InUse), A)))
  BY DEF CoreMiss, Popped, core, history
<1>2. pipeLines' = EraseLine
  BY DEF CoreMiss, EraseLine
<1>3. config \in Configs /\ WayType /\ MshrType /\ PipeInv /\ FillInv /\ FillsDiffer
      /\ MemType /\ Once /\ CoreType /\ PassInv /\ CountInv /\ Room /\ PendingType /\ PipeType
      /\ ArrayInv
  BY DEF BankInv, ArrayInv, FillInv, PipeInv
<1>4. Req \in RequestType /\ A = Req.addr
  BY <1>1, <1>3, HeadFacts DEF A
<1>5. way' \in [Way -> LineType]
  BY <1>1, <1>3, UpdateLruType DEF WayType
<1>6. CASE PendingFill(A)
  <2>1. LeavePipe
    <3>1. pending' = [pending EXCEPT !.mshr = @ - 1]
      BY <1>1, <1>3, <1>6 DEF PendingType
    <3> QED BY <3>1, <1>2 DEF LeavePipe, EraseLine
  <2>2. memReq' = memReq
    BY <1>1, <1>6
  <2> QED BY <1>1, <1>4, <1>5, <1>6, <2>1, <2>2, CoreQueued
<1>7. CASE ~PendingFill(A)
  <2>1. /\ PendingType' /\ pending'.mshr = pending.mshr - 1 /\ pending'.probes = pending.probes
        /\ pending'.fills = pending.fills + 1
    <3>1. pending' = [pending EXCEPT !.mshr = @ - 1, !.fills = @ + 1]
      BY <1>1, <1>7
    <3>2. pending \in [mshr : Int, probes : Int, fills : Int]
      BY <1>3 DEF PendingType
    <3>3. pending.mshr \in Int /\ pending.probes \in Int /\ pending.fills \in Int
      BY <3>2
    <3>4. pending' = [mshr |-> pending.mshr - 1, probes |-> pending.probes,
                      fills |-> pending.fills + 1]
      BY <3>1, <3>2
    <3> QED BY <3>3, <3>4 DEF PendingType
  <2>2. PipeInv' /\ FillsDiffer' /\ FillAddrs' = FillAddrs
    BY <1>1, <1>2, <1>3, <2>1, CoreLeaves
  <2>3. memReq' = Append(memReq, FillReq(Min(Entries \ InUse), Req.addr))
    BY <1>1, <1>4, <1>7
  <2>4. /\ MemType' /\ Once' /\ FillInv' /\ PassInv' /\ CountInv' /\ MshrType'
        /\ Cardinality(InUse') = Cardinality(InUse) + 1
    BY <1>1, <1>3, <1>4, <1>7, <2>1, <2>2, <2>3, OpenChain
  <2>5. Room'
    <3>1. Cardinality(InUse) \in Nat /\ pending.mshr \in Int
      BY <1>3, InUseFinite DEF PendingType
    <3>2. Used' = Used /\ MshrSize' = MshrSize
      BY <1>1, TypesFrame DEF Used
    <3>3. Cardinality(InUse') + pending'.mshr = Cardinality(InUse) + pending.mshr
      BY <2>1, <2>4, <3>1
    <3> QED BY <1>1, <1>3, <2>1, <3>2, <3>3 DEF Room
  <2>6. WayType' /\ CoreType'
    BY <1>1, <1>3, <1>5, TypesFrame DEF WayType, CoreType
  <2>7. ArrayInv'
    BY <1>1, <1>3, <2>4, <2>6 DEF ArrayInv
  <2> QED BY <2>2, <2>4, <2>5, <2>7 DEF BankInv
<1> QED BY <1>6, <1>7

LEMMA ReplayMissInv ==
  ASSUME BankInv, ReplayMiss
  PROVE  BankInv'
<1>1. UNCHANGED <<config, way, repl, passthru, pipeLines, coreReq, issued,
                  admSeq, memRsp, dram, ram>> /\ pipe' = Tail(pipe)
      /\ HeadIs("Replay") /\ ~MshrFull /\ remissed' = TRUE
      /\ mshr' = Enqueue(Req, "Core")
      /\ pending' = (IF PendingFill(A) THEN pending ELSE [pending EXCEPT !.fills = @ + 1])
      /\ memReq' = (IF PendingFill(A) THEN memReq
                    ELSE Append(memReq, FillReq(Min(Entries \ InUse), A)))
  BY DEF ReplayMiss, Popped, core, array, RemissReady
<1>3. config \in Configs /\ WayType /\ MshrType /\ PipeInv /\ FillInv /\ FillsDiffer
      /\ MemType /\ Once /\ CoreType /\ PassInv /\ CountInv /\ Room /\ PendingType /\ PipeType
      /\ ArrayInv
  BY DEF BankInv, ArrayInv, FillInv, PipeInv
<1>4. Req \in RequestType /\ A = Req.addr
  BY <1>1, <1>3, HeadFacts DEF A
<1>5. /\ PendingType' /\ pending'.mshr = pending.mshr
      /\ pending'.probes = pending.probes - (IF "Replay" = "AmoProbe" THEN 1 ELSE 0)
      /\ pending'.probes = pending.probes
      /\ pending'.fills = pending.fills + (IF PendingFill(A) THEN 0 ELSE 1)
  BY <1>1, <1>3 DEF PendingType
<1>6. PipeInv' /\ FillsDiffer' /\ FillAddrs' = FillAddrs
  BY <1>1, <1>3, <1>5, OtherLeaves
<1>7. Room'
  <2>1. Used' = Used
    BY <1>1 DEF Used
  <2> QED BY <1>1, <1>3, <1>5, <2>1 DEF Room
<1>8. WayType' /\ CoreType'
  BY <1>1, <1>3, TypesFrame DEF WayType, CoreType
<1>9. MemType' /\ Once' /\ FillInv' /\ PassInv' /\ CountInv' /\ MshrType'
  <2>1. CASE PendingFill(A)
    <3>1. memReq' = memReq /\ pending'.fills = pending.fills
      BY <1>1, <2>1
    <3>2. MemType' /\ Once' /\ Flying' = Flying
      BY <1>1, <1>3, <3>1, TagsStay DEF MemType
    <3>3. PassInv' /\ CountInv' /\ Asked' = Asked
      BY <1>1, <1>3, <3>1, <3>2, TokensStay
    <3>4. FillInv' /\ MshrType'
      BY <1>1, <1>3, <1>4, <1>6, <2>1, <3>3, QueuedFills
    <3> QED BY <3>2, <3>3, <3>4
  <2>2. CASE ~PendingFill(A)
    <3>1. memReq' = Append(memReq, FillReq(Min(Entries \ InUse), Req.addr))
          /\ pending'.fills = pending.fills + 1
      BY <1>1, <1>4, <1>5, <2>2
    <3> QED BY <1>1, <1>3, <1>4, <1>6, <2>2, <3>1, OpenChain
  <2> QED BY <2>1, <2>2
<1>10. ArrayInv'
  BY <1>1, <1>3, <1>8, <1>9 DEF ArrayInv
<1> QED BY <1>6, <1>7, <1>9, <1>10 DEF BankInv
\* Stores and then a request that wants an answer are sent below.
LEMMA SendBoth ==
  ASSUME MemType, Once, NEW st \in Seq(StoreType), NEW q \in MemReqType, q.op # "ST",
         q.tag \notin Flying, memReq' = memReq \o st \o <<q>>, UNCHANGED <<memRsp, dram>>
  PROVE  memReq' \in Seq(MemReqType) /\ Once' /\ Flying' = Flying \cup {q.tag}
<1> DEFINE n == Len(memReq)
           e == Len(memReq) + Len(st) + 1
           m == memReq \o st
<1>1. memReq \in Seq(MemReqType) /\ st \in Seq(MemReqType)
  BY SeqMonotonic DEF MemType, StoreType
<1>2. /\ m \in Seq(MemReqType) /\ Len(m) = n + Len(st) /\ n \in Nat /\ Len(st) \in Nat
      /\ \A i \in 1 .. n + Len(st) : m[i] = IF i <= n THEN memReq[i] ELSE st[i - n]
  BY <1>1, ConcatProperties, LenProperties
<1>3. memReq' = Append(m, q)
  BY <1>2
<1> HIDE DEF m
<1>4. /\ memReq' \in Seq(MemReqType) /\ DOMAIN memReq' = 1 .. e /\ memReq'[e] = q
      /\ \A i \in 1 .. n + Len(st) : memReq'[i] = m[i]
  <2>1. /\ Append(m, q) \in Seq(MemReqType) /\ Len(Append(m, q)) = Len(m) + 1
        /\ DOMAIN Append(m, q) = 1 .. Len(m) + 1 /\ Append(m, q)[Len(m) + 1] = q
        /\ \A i \in 1 .. Len(m) : Append(m, q)[i] = m[i]
    BY <1>2
  <2>2. e = Len(m) + 1
    BY <1>2
  <2> QED BY <1>2, <1>3, <2>1, <2>2
<1>5. DOMAIN memReq = 1 .. n
  BY <1>1
<1>6. \A i \in 1 .. Len(st) : st[i].op = "ST"
  BY DEF StoreType
<1>7. /\ \A i \in DOMAIN memReq : i \in DOMAIN memReq' /\ memReq'[i] = memReq[i] /\ i # e
      /\ e \in DOMAIN memReq'
      /\ \A i \in DOMAIN memReq' \ DOMAIN memReq : i # e => memReq'[i].op = "ST"
  <2>1. \A i \in DOMAIN memReq : i \in DOMAIN memReq' /\ memReq'[i] = memReq[i] /\ i # e
    BY <1>2, <1>4, <1>5
  <2>2. ASSUME NEW i \in DOMAIN memReq' \ DOMAIN memReq, i # e PROVE memReq'[i].op = "ST"
    <3>1. i - n \in 1 .. Len(st) /\ memReq'[i] = st[i - n]
      BY <2>2, <1>2, <1>4, <1>5
    <3> QED BY <3>1, <1>6
  <2>3. e \in DOMAIN memReq'
    BY <1>2, <1>4
  <2> QED BY <2>1, <2>2, <2>3
<1> HIDE DEF n, e
<1>8. Asking' = Asking \cup {e} /\ e \notin Asking
  BY <1>4, <1>7 DEF Asking
<1>9. \A i \in Asking : memReq'[i] = memReq[i]
  BY <1>7 DEF Asking
<1>10. ReqTags' = ReqTags \cup {q.tag} /\ MemTags' = MemTags /\ RspTags' = RspTags
  BY <1>4, <1>8, <1>9 DEF ReqTags, MemTags, RspTags
<1>11. \A i \in Asking : memReq[i].tag # q.tag
  BY DEF Flying, ReqTags
<1>12. ASSUME NEW i \in Asking', NEW j \in Asking', memReq'[i].tag = memReq'[j].tag
       PROVE  i = j
  <2>1. \A k \in Asking' : k # e => k \in Asking /\ memReq'[k] = memReq[k]
    BY <1>8, <1>9
  <2>2. memReq'[e].tag = q.tag
    BY <1>4
  <2>3. CASE i # e /\ j # e
    <3>1. memReq[i].tag = memReq[j].tag /\ i \in Asking /\ j \in Asking
      BY <2>1, <2>3, <1>12
    <3> QED BY <3>1 DEF Once
  <2>4. CASE i = e \/ j = e
    BY <2>1, <2>2, <2>4, <1>11, <1>12
  <2> QED BY <2>3, <2>4
<1>13. Once'
  <2>1. memRsp' = memRsp /\ dram' = dram
    OBVIOUS
  <2>2. q.tag \notin MemTags /\ q.tag \notin RspTags
    BY DEF Flying
  <2> QED BY <2>1, <2>2, <1>10, <1>12 DEF Once
<1> QED BY <1>4, <1>10, <1>13 DEF Flying

\* A hit is in a line of the set.
LEMMA CachedType ==
  ASSUME config \in Configs, WayType, NEW a \in Addr, Hit(a)
  PROVE  Line(a) \in Way /\ Cached(a) \in SectorType
<1>1. HitWays(a) \subseteq Way /\ HitWays(a) # {} /\ Way \subseteq Nat /\ IsFiniteSet(Way)
  BY ConfigFacts DEF HitWays, Resident, Hit
<1>2. Line(a) \in Way
  <2>1. HitWays(a) \subseteq Int /\ IsFiniteSet(HitWays(a))
    <3>1. IsFiniteSet(HitWays(a))
      BY <1>1, FS_Subset, Zenon
    <3>2. \A T : T \subseteq Way => T \subseteq Int
      BY <1>1
    <3> QED BY <1>1, <3>1, <3>2, Zenon
  <2>2. Max(HitWays(a)) \in HitWays(a)
    BY <1>1, <2>1, MaxIn
  <2> QED BY <1>1, <2>2 DEF Line
<1>3. a[2] \in Sectors
  BY DEF Addr
<1> QED BY <1>2, <1>3 DEF Cached, WayType, LineType

LEMMA AmoProbeInv ==
  ASSUME BankInv, AmoProbe
  PROVE  BankInv'
<1> DEFINE pid == Min({p \in Pids : passthru[p] = 0})
           st == IF ProbeDirty THEN <<Write(A, Cached(A).data, Cached(A).dirty)>> ELSE << >>
           q == [op |-> Req.op, addr |-> A, tag |-> MshrSize + pid,
                 data |-> Merge(Zero, Req.en, Req.id), en |-> Req.en]
<1>1. UNCHANGED <<config, repl, mshr, pipeLines, remissed, coreReq, issued,
                  admSeq, memRsp, dram, ram>> /\ pipe' = Tail(pipe)
      /\ HeadIs("AmoProbe") /\ ProbeReady
      /\ passthru' = [passthru EXCEPT ![pid] = Req.id]
      /\ memReq' = memReq \o st \o <<q>>
      /\ way' = (IF Hit(A) THEN [way EXCEPT ![Line(A)].sec[A[2]] = EmptySector] ELSE way)
      /\ pending' = [pending EXCEPT !.fills = @ + 1, !.probes = @ - 1]
  BY DEF AmoProbe, Popped, core, history
<1>2. config \in Configs /\ WayType /\ MshrType /\ PipeInv /\ FillInv /\ FillsDiffer
      /\ MemType /\ Once /\ CoreType /\ PassInv /\ CountInv /\ Room /\ PendingType /\ PipeType
  BY DEF BankInv, ArrayInv, FillInv, PipeInv
<1>3. /\ Req \in RequestType /\ A \in Addr /\ Req.id \in Nat \ {0}
      /\ Req.en \subseteq Own /\ Req.op \notin {"LD", "ST"}
  BY <1>1, <1>2, HeadFacts
<1>4. pid \in Pids /\ passthru[pid] = 0
  <2>1. {p \in Pids : passthru[p] = 0} # {} /\ {p \in Pids : passthru[p] = 0} \in SUBSET Nat
    BY <1>1 DEF ProbeReady, Pids
  <2> QED BY <2>1, MinIn
<1> HIDE DEF pid
<1>5. MshrSize + pid \notin Flying /\ MshrSize + pid \in Nat
  <2>1. MshrSize \in Nat /\ pid \in Nat
    BY <1>2, <1>4, ConfigFacts DEF Pids
  <2> QED BY <2>1, <1>2, <1>4 DEF PassInv
<1>6. st \in Seq(StoreType)
  <2>1. CASE ProbeDirty
    <3>1. Cached(A) \in SectorType
      BY <2>1, <1>2, <1>3, CachedType DEF ProbeDirty
    <3>2. A \in (Tags \cup {NoTag}) \X Sectors
      BY <1>3 DEF Addr
    <3>3. Write(A, Cached(A).data, Cached(A).dirty) \in StoreType
      BY <3>1, <3>2 DEF Write, StoreType, MemReqType, SectorType, Ops, Own
    <3> QED BY <2>1, <3>3
  <2>2. CASE ~ProbeDirty
    BY <2>2
  <2> QED BY <2>1, <2>2
<1>7. q \in MemReqType /\ q.op # "ST" /\ q.tag = MshrSize + pid
  <2>1. Merge(Zero, Req.en, Req.id) \in DataType
    BY <1>3, MergeType, ZeroType
  <2>2. A \in (Tags \cup {NoTag}) \X Sectors /\ Req.op \in Ops /\ Req.en \subseteq Bytes
    BY <1>3 DEF Addr, RequestType
  <2> QED BY <2>1, <2>2, <1>3, <1>5 DEF MemReqType
<1> HIDE DEF st, q
<1>8. memReq' \in Seq(MemReqType) /\ Once' /\ Flying' = Flying \cup {MshrSize + pid}
  BY <1>1, <1>2, <1>5, <1>6, <1>7, SendBoth
<1>9. /\ PendingType' /\ pending'.mshr = pending.mshr /\ pending'.probes = pending.probes - 1
      /\ pending'.fills = pending.fills + 1
  <2>1. pending \in [mshr : Int, probes : Int, fills : Int]
    BY <1>2 DEF PendingType
  <2>2. pending' = [mshr |-> pending.mshr, probes |-> pending.probes - 1,
                    fills |-> pending.fills + 1]
    BY <1>1, <2>1
  <2> QED BY <2>1, <2>2 DEF PendingType
<1>10. PipeInv' /\ FillsDiffer' /\ FillAddrs' = FillAddrs
  BY <1>1, <1>2, <1>9, OtherLeaves
<1>11. passthru \in [Pids -> Nat]
  BY <1>2 DEF CoreType
<1>12. PassInv' /\ CountInv' /\ Asked' = Asked
  BY <1>1, <1>2, <1>3, <1>4, <1>5, <1>8, <1>9, <1>11, TokensPass
<1>13. FillInv' /\ InUse' = InUse /\ MshrType'
  BY <1>1, <1>2, <1>10, <1>12, MshrStays
<1>14. Room'
  <2>1. Used' = Used \cup {pid} /\ pid \notin Used
    BY <1>1, <1>3, <1>4, <1>11 DEF Used
  <2>2. IsFiniteSet(Used) /\ Cardinality(Used) \in Nat
    <3>1. IsFiniteSet(Pids)
      BY ConstantFacts, FS_Interval DEF Pids
    <3>2. Used \subseteq Pids
      BY DEF Used
    <3> QED BY <3>1, <3>2, FS_Subset, FS_CardinalityType
  <2>3. Cardinality(Used') = Cardinality(Used) + 1
    BY <2>1, <2>2, FS_AddElement
  <2>4. pending.probes \in Int /\ MshrSize' = MshrSize
    BY <1>1, <1>2, TypesFrame DEF PendingType
  <2>5. Cardinality(Used') + pending'.probes <= PassSize
    BY <1>2, <1>9, <2>2, <2>3, <2>4 DEF Room
  <2> QED BY <1>1, <1>2, <1>9, <1>13, <2>4, <2>5 DEF Room
<1>15. WayType'
  <2>1. way' \in [Way -> LineType]
    <3>1. EmptySector \in SectorType
      BY ZeroType
    <3> HIDE DEF EmptySector
    <3> QED BY <1>1, <1>2, <3>1, SectorStep DEF WayType
  <2> QED BY <1>1, <1>2, <2>1, TypesFrame DEF WayType
<1>16. CoreType'
  BY <1>1, <1>2, <1>3, <1>4, TypesFrame DEF CoreType
<1>17. MemType'
  BY <1>1, <1>2, <1>8, TypesFrame DEF MemType
<1>18. ArrayInv'
  BY <1>1, <1>2, <1>13, <1>15, <1>16, <1>17 DEF ArrayInv
<1> QED BY <1>8, <1>10, <1>12, <1>13, <1>14, <1>18 DEF BankInv
LEMMA FillInvStep ==
  ASSUME BankInv, Fill
  PROVE  BankInv'
<1> DEFINE w    == IF Refill THEN Min(Resident(FillAddr[1])) ELSE SelectVictim
           kept == IF Refill THEN way[w].sec ELSE [s \in Sectors |-> EmptySector]
           new  == [valid |-> TRUE, dirty |-> {}, data |-> Head(pipe).data]
           line == [tag |-> FillAddr[1], lru |-> 0, sec |-> [kept EXCEPT ![FillAddr[2]] = new]]
<1>1. UNCHANGED <<config, pending, pipeLines, passthru, remissed, coreReq, issued,
                  admSeq, memRsp, dram, ram>> /\ pipe' = Tail(pipe)
      /\ HeadIs("Fill") /\ mshr' = MarkReplay(FillAddr)
      /\ way' = [way EXCEPT ![w] = line]
      /\ memReq' = (IF Refill THEN memReq ELSE memReq \o WriteBacks(w))
  BY DEF Fill, Popped, core, history
<1>2. config \in Configs /\ WayType /\ MshrType /\ PipeInv /\ FillInv /\ FillsDiffer
      /\ MemType /\ Once /\ CoreType /\ PassInv /\ CountInv /\ Room /\ PendingType /\ PipeType
  BY DEF BankInv, ArrayInv, FillInv, PipeInv
<1>3. FillAddr \in Addr /\ Head(pipe).data \in DataType
  BY <1>1, <1>2, HeadFacts
<1>4. w \in Way
  <2>1. ASSUME Refill PROVE Min(Resident(FillAddr[1])) \in Way
    <3>1. Resident(FillAddr[1]) \subseteq Way /\ Resident(FillAddr[1]) # {} /\ Way \subseteq Nat
      BY <1>2, <2>1, ConfigFacts DEF Resident, Refill
    <3>2. \A T : T \subseteq Way /\ T # {} => Min(T) \in T
      BY <3>1, MinIn
    <3> QED BY <3>1, <3>2, Zenon
  <2>2. SelectVictim \in Way
    BY <1>2, VictimInWay
  <2> QED BY <2>1, <2>2
<1> HIDE DEF w
<1>5. kept \in [Sectors -> SectorType]
  <2>1. EmptySector \in SectorType
    BY ZeroType
  <2>2. way[w].sec \in [Sectors -> SectorType]
    BY <1>2, <1>4 DEF WayType, LineType
  <2> HIDE DEF EmptySector
  <2> QED BY <2>1, <2>2
<1>6. new \in SectorType
  BY <1>3 DEF SectorType
<1> HIDE DEF kept, new
<1>7. line \in LineType
  <2>1. FillAddr[1] \in Tags /\ [kept EXCEPT ![FillAddr[2]] = new] \in [Sectors -> SectorType]
    BY <1>3, <1>5, <1>6 DEF Addr
  <2> QED BY <2>1 DEF LineType
<1> HIDE DEF line
<1>8. WayType'
  <2>1. way' \in [Way -> LineType]
    BY <1>1, <1>2, <1>4, <1>7 DEF WayType
  <2>2. repl' \in [fifo : Nat, rand : Nat]
    <3>1. repl \in [fifo : Nat, rand : Nat] /\ config.ways \in Nat \ {0}
      BY <1>2, ConfigFacts DEF WayType
    <3>2. (repl.fifo + 1) % config.ways \in Nat /\ (repl.rand + 1) % config.ways \in Nat
      BY <3>1
    <3>3. \/ repl' = repl
          \/ repl' = [repl EXCEPT !.fifo = (@ + 1) % config.ways]
          \/ repl' = [repl EXCEPT !.rand = (@ + 1) % config.ways]
      BY DEF Fill
    <3> QED BY <3>1, <3>2, <3>3
  <2> QED BY <1>1, <2>1, <2>2, TypesFrame DEF WayType
<1>9. MemType' /\ Once' /\ Flying' = Flying
  <2>1. CASE Refill
    BY <1>1, <1>2, <2>1, TagsStay DEF MemType
  <2>2. CASE ~Refill
    <3>1. WriteBacks(w) \in Seq(StoreType) /\ memReq' = memReq \o WriteBacks(w)
      BY <1>1, <1>2, <1>4, <2>2, WriteBacksType
    <3>2. memReq' \in Seq(MemReqType) /\ Once' /\ Flying' = Flying
      BY <1>1, <1>2, <3>1, SendStores
    <3> QED BY <1>1, <1>2, <3>2, TypesFrame DEF MemType
  <2> QED BY <2>1, <2>2
<1>10. PendingType' /\ pending.probes \in Int /\ pending.mshr \in Int
  BY <1>1, <1>2 DEF PendingType
<1>11. /\ PipeInv' /\ FillsDiffer' /\ FillAddr \in FillAddrs
       /\ FillAddrs' = FillAddrs \ {FillAddr}
  <2>1. pending'.probes = pending.probes - (IF "Fill" = "AmoProbe" THEN 1 ELSE 0)
    BY <1>1, <1>10
  <2> QED BY <1>1, <1>2, <1>10, <2>1, OtherLeaves
<1>12. PassInv' /\ CountInv' /\ Asked' = Asked
  BY <1>1, <1>2, <1>9, TokensStay
<1>13. /\ mshr' \in [Entries -> EntryType] /\ InUse' = InUse
       /\ Waiting' = {m \in Waiting : mshr[m].req.addr # FillAddr}
       /\ \A m \in Waiting : mshr'[m].req = mshr[m].req
  BY <1>1, <1>2, MarkStep
<1>14. FillInv'
  BY <1>2, <1>11, <1>12, <1>13, FillRun
<1>15. MshrType' /\ CoreType'
  BY <1>1, <1>2, <1>13, TypesFrame DEF MshrType, CoreType
<1>16. Room'
  <2>1. Used' = Used /\ MshrSize' = MshrSize
    BY <1>1, TypesFrame DEF Used
  <2> QED BY <1>1, <1>2, <1>13, <2>1 DEF Room
<1>17. ArrayInv'
  BY <1>1, <1>2, <1>8, <1>9, <1>15 DEF ArrayInv
<1> QED BY <1>9, <1>11, <1>12, <1>14, <1>16, <1>17 DEF BankInv

\* An entry of the MSHR is given up: its request is answered or goes again.
LEMMA DequeueFills ==
  ASSUME config \in Configs, config' = config, MshrType, FillInv, Ready # {}, mshr' = Dequeue,
         Asked' = Asked, FillAddrs' = FillAddrs, FillsDiffer'
  PROVE  FillInv' /\ MshrType' /\ Cardinality(InUse') = Cardinality(InUse) - 1
                  /\ Cardinality(InUse') \in Nat
<1>1. /\ mshr' \in [Entries -> EntryType] /\ Waiting' = Waiting
      /\ \A m \in Waiting : mshr'[m].req = mshr[m].req
      /\ Cardinality(InUse') = Cardinality(InUse) - 1
  BY DequeueStep
<1>2. FillInv'
  BY <1>1, FillSame
<1>3. MshrType'
  BY <1>1, TypesFrame DEF MshrType
<1>4. Cardinality(InUse) \in Nat /\ Cardinality(InUse) # 0
  <2>1. NextReplay \in InUse
    BY NextReplayReady DEF Ready, InUse
  <2> QED BY <2>1, InUseFinite, FS_EmptySet
<1> QED BY <1>1, <1>2, <1>3, <1>4

LEMMA ForwardReadInv ==
  ASSUME BankInv, ForwardRead
  PROVE  BankInv'
<1>1. UNCHANGED <<config, way, repl, pending, pipeLines, passthru, remissed, coreReq, issued,
                  admSeq, memReq, memRsp, dram, ram>> /\ pipe' = pipe
      /\ mshr' = Dequeue /\ Ready # {}
  BY DEF ForwardRead, array, mem, history, FwdServes
<1>2. config \in Configs /\ WayType /\ MshrType /\ PipeInv /\ FillInv /\ FillsDiffer
      /\ MemType /\ Once /\ CoreType /\ PassInv /\ CountInv /\ Room /\ PendingType
  BY DEF BankInv, ArrayInv, FillInv, PipeInv
<1>3. PendingType' /\ pending.mshr \in Int
  BY <1>1, <1>2 DEF PendingType
<1>4. PipeInv' /\ FillsDiffer' /\ FillAddrs' = FillAddrs
  BY <1>1, <1>2, <1>3, StagesStay
<1>5. MemType' /\ Once' /\ Flying' = Flying
  BY <1>1, <1>2, TagsStay DEF MemType
<1>6. PassInv' /\ CountInv' /\ Asked' = Asked
  BY <1>1, <1>2, <1>5, TokensStay
<1>7. FillInv' /\ MshrType' /\ Cardinality(InUse') = Cardinality(InUse) - 1
      /\ Cardinality(InUse') \in Nat
  BY <1>1, <1>2, <1>4, <1>6, DequeueFills
<1>8. Room'
  <2>1. Cardinality(InUse) \in Nat
    BY <1>2, InUseFinite
  <2> QED BY <1>1, <1>2, <1>3, <1>7, <2>1, RoomStays
<1>9. WayType' /\ CoreType'
  BY <1>1, <1>2, TypesFrame DEF WayType, CoreType
<1>10. ArrayInv'
  BY <1>1, <1>2, <1>5, <1>7, <1>9 DEF ArrayInv
<1> QED BY <1>4, <1>5, <1>6, <1>7, <1>8, <1>10 DEF BankInv

LEMMA TakeReplayInv ==
  ASSUME BankInv, TakeReplay
  PROVE  BankInv'
<1> DEFINE x == [type |-> "Replay", req |-> mshr[NextReplay].req, age |-> 0]
<1>1. UNCHANGED <<config, way, repl, pending, pipeLines, passthru, remissed, coreReq, issued,
                  admSeq, memReq, memRsp, dram, ram>> /\ pipe' = Append(pipe, x)
      /\ mshr' = Dequeue /\ Ready # {}
  BY DEF TakeReplay, Push, array, core, mem, history, ReplayTurn
<1>2. config \in Configs /\ WayType /\ MshrType /\ PipeInv /\ FillInv /\ FillsDiffer
      /\ MemType /\ Once /\ CoreType /\ PassInv /\ CountInv /\ Room /\ PendingType
  BY DEF BankInv, ArrayInv, FillInv, PipeInv
<1>3. PendingType' /\ pending.mshr \in Int /\ pending.probes \in Int
  BY <1>1, <1>2 DEF PendingType
<1>4. x \in StageType /\ x.type = "Replay"
  BY <1>1, <1>2, NextReplayReady DEF StageType
<1> HIDE DEF x
<1>5. PipeInv' /\ FillsDiffer' /\ FillAddrs' = FillAddrs
  <2>1. pending'.mshr = pending.mshr + (IF x.type = "Core" THEN 1 ELSE 0)
        /\ pending'.probes = pending.probes + (IF x.type = "AmoProbe" THEN 1 ELSE 0)
    BY <1>1, <1>3, <1>4
  <2> QED BY <1>1, <1>2, <1>3, <1>4, <2>1, StageEnters
<1>6. MemType' /\ Once' /\ Flying' = Flying
  BY <1>1, <1>2, TagsStay DEF MemType
<1>7. PassInv' /\ CountInv' /\ Asked' = Asked
  BY <1>1, <1>2, <1>6, TokensStay
<1>8. FillInv' /\ MshrType' /\ Cardinality(InUse') = Cardinality(InUse) - 1
      /\ Cardinality(InUse') \in Nat
  BY <1>1, <1>2, <1>5, <1>7, DequeueFills
<1>9. Room'
  <2>1. Cardinality(InUse) \in Nat
    BY <1>2, InUseFinite
  <2> QED BY <1>1, <1>2, <1>3, <1>8, <2>1, RoomStays
<1>10. WayType' /\ CoreType'
  BY <1>1, <1>2, TypesFrame DEF WayType, CoreType
<1>11. ArrayInv'
  BY <1>1, <1>2, <1>6, <1>8, <1>10 DEF ArrayInv
<1> QED BY <1>5, <1>6, <1>7, <1>8, <1>9, <1>11 DEF BankInv
LEMMA PassthruRspInv ==
  ASSUME BankInv, PassthruRsp
  PROVE  BankInv'
<1> DEFINE k == Rsp.tag
<1>1. UNCHANGED <<config, way, repl, mshr, pipeLines, remissed, coreReq, issued, admSeq, memReq,
                  dram, ram>> /\ pipe' = pipe
      /\ k > MshrSize /\ memRsp # << >> /\ memRsp' = Tail(memRsp)
      /\ passthru' = [passthru EXCEPT ![k - MshrSize] = 0]
      /\ pending' = [pending EXCEPT !.fills = @ - 1]
  BY DEF PassthruRsp, array, history, RspTurn
<1>2. config \in Configs /\ WayType /\ MshrType /\ PipeInv /\ FillInv /\ FillsDiffer
      /\ MemType /\ Once /\ CoreType /\ PassInv /\ CountInv /\ Room /\ PendingType
      /\ passthru \in [Pids -> Nat]
  BY DEF BankInv, ArrayInv, FillInv, PipeInv, CoreType
<1>3. /\ PendingType' /\ pending'.mshr = pending.mshr /\ pending'.probes = pending.probes
      /\ pending'.fills = pending.fills - 1
  BY <1>1, <1>2 DEF PendingType
<1>4. PipeInv' /\ FillsDiffer' /\ FillAddrs' = FillAddrs
  BY <1>1, <1>2, <1>3, StagesStay
<1>5. memRsp' \in Seq(RspType) /\ k \in Flying /\ Once' /\ Flying' = Flying \ {k}
  BY <1>1, <1>2, TakeResponse
<1> HIDE DEF k
<1>6. MemType'
  BY <1>1, <1>2, <1>5, TypesFrame DEF MemType
<1>7. /\ PassInv' /\ CountInv' /\ Asked' = Asked
      /\ k - MshrSize \in Pids /\ passthru[k - MshrSize] # 0
  BY <1>1, <1>2, <1>3, <1>5, TokensDone
<1>8. FillInv' /\ InUse' = InUse /\ MshrType'
  BY <1>1, <1>2, <1>4, <1>7, MshrStays
<1>9. Room'
  <2> DEFINE p == k - MshrSize
  <2>1. Used' = Used \ {p} /\ p \in Used
    BY <1>1, <1>2, <1>7 DEF Used
  <2>2. IsFiniteSet(Used) /\ Cardinality(Used) \in Nat
    <3>1. IsFiniteSet(Pids)
      BY ConstantFacts, FS_Interval DEF Pids
    <3>2. Used \subseteq Pids
      BY DEF Used
    <3> QED BY <3>1, <3>2, FS_Subset, FS_CardinalityType
  <2> HIDE DEF p
  <2>3. Cardinality(Used') = Cardinality(Used) - 1
    BY <2>1, <2>2, FS_RemoveElement
  <2>4. pending.probes \in Int /\ MshrSize' = MshrSize /\ PassSize \in Nat
    BY <1>1, <1>2, TypesFrame, ConstantFacts DEF PendingType
  <2>5. Cardinality(Used') + pending'.probes <= PassSize
    BY <1>2, <1>3, <2>2, <2>3, <2>4 DEF Room
  <2> QED BY <1>1, <1>2, <1>3, <1>8, <2>4, <2>5 DEF Room
<1>10. WayType' /\ CoreType'
  BY <1>1, <1>2, TypesFrame DEF WayType, CoreType
<1>11. ArrayInv'
  BY <1>1, <1>2, <1>6, <1>8, <1>10 DEF ArrayInv
<1> QED BY <1>4, <1>5, <1>7, <1>8, <1>9, <1>11 DEF BankInv

LEMMA TakeFillInv ==
  ASSUME BankInv, TakeFill
  PROVE  BankInv'
<1> DEFINE k == Rsp.tag
           x == [type |-> "Fill", addr |-> mshr[k].req.addr, data |-> Rsp.data, age |-> 0]
<1>1. UNCHANGED <<config, way, repl, mshr, pipeLines, passthru, remissed, coreReq, issued, admSeq,
                  memReq, dram, ram>> /\ pipe' = Append(pipe, x)
      /\ k <= MshrSize /\ memRsp # << >> /\ memRsp' = Tail(memRsp)
      /\ pending' = [pending EXCEPT !.fills = @ - 1]
  BY DEF TakeFill, Push, array, core, history, RspTurn
<1>2. config \in Configs /\ WayType /\ MshrType /\ PipeInv /\ FillInv /\ FillsDiffer
      /\ MemType /\ Once /\ CoreType /\ PassInv /\ CountInv /\ Room /\ PendingType
  BY DEF BankInv, ArrayInv, FillInv, PipeInv
<1>3. /\ PendingType' /\ pending'.mshr = pending.mshr /\ pending'.probes = pending.probes
      /\ pending'.fills = pending.fills - 1 /\ pending.mshr \in Int /\ pending.probes \in Int
  BY <1>1, <1>2 DEF PendingType
<1>4. memRsp' \in Seq(RspType) /\ Rsp \in RspType /\ k \in Flying /\ Once'
      /\ Flying' = Flying \ {k}
  BY <1>1, <1>2, TakeResponse
<1>5. MemType'
  BY <1>1, <1>2, <1>4, TypesFrame DEF MemType
<1> HIDE DEF k
<1>6. PassInv' /\ CountInv' /\ Asked' = Asked \ {k} /\ k \in Asked
  BY <1>1, <1>2, <1>3, <1>4, TokensFill
<1>7. k \in Waiting /\ mshr[k].req.addr \notin FillAddrs
  BY <1>2, <1>6 DEF FillInv
<1>8. mshr[k].req.addr \in Addr
  <2>1. \A e \in EntryType : e.type = "Core" => e.req \in RequestType
    BY DEF EntryType, NoEntry
  <2>2. mshr[k].req \in RequestType
    BY <1>2, <1>7, <2>1 DEF Waiting, MshrType
  <2> QED BY <2>2 DEF RequestType
<1>9. x \in StageType /\ x.type = "Fill" /\ x.addr = mshr[k].req.addr
  BY <1>4, <1>8 DEF StageType, RspType
<1> HIDE DEF x
<1>10. PipeInv' /\ FillsDiffer' /\ FillAddrs' = FillAddrs \cup {mshr[k].req.addr}
  <2>1. pending'.mshr = pending.mshr + (IF x.type = "Core" THEN 1 ELSE 0)
        /\ pending'.probes = pending.probes + (IF x.type = "AmoProbe" THEN 1 ELSE 0)
    BY <1>3, <1>9
  <2> QED BY <1>1, <1>2, <1>3, <1>7, <1>9, <2>1, StageEnters
<1>11. InUse' = InUse /\ Waiting' = Waiting
  BY <1>1, TypesFrame DEF InUse, Waiting
<1>12. FillInv'
  BY <1>1, <1>2, <1>6, <1>10, <1>11, FillTaken
<1>13. Room'
  <2>1. Used' = Used /\ MshrSize' = MshrSize
    BY <1>1, TypesFrame DEF Used
  <2> QED BY <1>1, <1>2, <1>3, <1>11, <2>1 DEF Room
<1>14. WayType' /\ CoreType' /\ MshrType'
  BY <1>1, <1>2, TypesFrame DEF WayType, CoreType, MshrType
<1>15. ArrayInv'
  BY <1>1, <1>2, <1>5, <1>14 DEF ArrayInv
<1> QED BY <1>4, <1>6, <1>10, <1>12, <1>13, <1>15 DEF BankInv

\* The request at the head of the core's channel.
LEMMA InType ==
  ASSUME CoreType, coreReq # << >>
  PROVE  In \in RequestType /\ Tail(coreReq) \in Seq(RequestType) /\ In.addr[1] \in Tags
<1>1. Head(coreReq) \in RequestType /\ Tail(coreReq) \in Seq(RequestType) /\ admSeq \in Nat
  BY HeadTailProperties DEF CoreType
<1>2. \A r \in RequestType, n \in Nat : [r EXCEPT !.seq = n] \in RequestType
  BY DEF RequestType
<1>3. In \in RequestType
  BY <1>1, <1>2 DEF In
<1>4. \A r \in RequestType : r.addr[1] \in Tags
  BY DEF RequestType, Addr
<1> QED BY <1>1, <1>3, <1>4

LEMMA FreeSlots ==
  /\ IsFiniteSet(Used) /\ Cardinality(Used) \in Nat
  /\ Cardinality({p \in Pids : passthru[p] = 0}) = PassSize - Cardinality(Used)
<1>1. IsFiniteSet(Pids) /\ Cardinality(Pids) = PassSize /\ PassSize \in Nat
  BY ConstantFacts, FS_Interval DEF Pids
<1>2. Used \subseteq Pids
  BY DEF Used
<1>3. {p \in Pids : passthru[p] = 0} = Pids \ Used
  BY DEF Used
<1>4. IsFiniteSet(Used) /\ Cardinality(Used) \in Nat
  BY <1>1, <1>2, FS_Subset, FS_CardinalityType
<1>5. Pids \cap Used = Used
  BY <1>2
<1>6. Cardinality(Pids \ Used) = Cardinality(Pids) - Cardinality(Pids \cap Used)
  BY <1>1, FS_Difference
<1> QED BY <1>1, <1>3, <1>4, <1>5, <1>6

\* A request of the core enters the pipeline.
LEMMA CoreEnters ==
  ASSUME BankInv, NEW x \in StageType, x.type \in {"Core", "AmoProbe"},
         pipe' = Append(pipe, x), coreReq # << >>, coreReq' = Tail(coreReq), admSeq' = admSeq + 1,
         UNCHANGED <<config, way, repl, mshr, passthru, remissed, issued, memReq, memRsp, dram, ram>>,
         x.type = "Core" => x.req.addr[1] \in Tags
                            /\ pipeLines' = Append(pipeLines, x.req.addr[1]),
         x.type # "Core" => pipeLines' = pipeLines,
         PendingType', pending'.mshr = pending.mshr + (IF x.type = "Core" THEN 1 ELSE 0),
         pending'.probes = pending.probes + (IF x.type = "AmoProbe" THEN 1 ELSE 0),
         pending'.fills = pending.fills, Room'
  PROVE  BankInv'
<1>1. config \in Configs /\ WayType /\ MshrType /\ PipeInv /\ FillInv /\ FillsDiffer
      /\ MemType /\ Once /\ CoreType /\ PassInv /\ CountInv
  BY DEF BankInv, ArrayInv, FillInv, PipeInv
<1>2. PipeInv' /\ FillsDiffer' /\ FillAddrs' = FillAddrs
  BY <1>1, StageEnters
<1>3. MemType' /\ Once' /\ Flying' = Flying
  BY <1>1, TagsStay DEF MemType
<1>4. PassInv' /\ CountInv' /\ Asked' = Asked
  BY <1>1, <1>3, TokensStay
<1>5. FillInv' /\ MshrType'
  BY <1>1, <1>2, <1>4, MshrStays
<1>6. CoreType'
  <2>1. coreReq' \in Seq(RequestType)
    BY <1>1, InType
  <2> QED BY <1>1, <2>1, TypesFrame DEF CoreType
<1>7. WayType'
  BY <1>1, TypesFrame DEF WayType
<1>8. ArrayInv'
  BY <1>1, <1>3, <1>5, <1>6, <1>7 DEF ArrayInv
<1> QED BY <1>2, <1>3, <1>4, <1>5, <1>8 DEF BankInv
LEMMA TakeProbeInv ==
  ASSUME BankInv, TakeProbe
  PROVE  BankInv'
<1> DEFINE x == [type |-> "AmoProbe", req |-> In, age |-> 0]
<1>1. UNCHANGED <<config, way, repl, mshr, pipeLines, passthru, remissed, issued, memReq, memRsp,
                  dram, ram>> /\ pipe' = Append(pipe, x)
      /\ coreReq # << >> /\ coreReq' = Tail(coreReq) /\ admSeq' = admSeq + 1
      /\ pending' = [pending EXCEPT !.probes = @ + 1] /\ IsPassthru /\ ProbeGate
  BY DEF TakeProbe, Push, array, mem, history, CoreTurn
<1>2. config \in Configs /\ CoreType /\ Room /\ PendingType
  BY DEF BankInv, ArrayInv, PipeInv
<1>3. /\ PendingType' /\ pending'.mshr = pending.mshr /\ pending'.probes = pending.probes + 1
      /\ pending'.fills = pending.fills /\ pending.mshr \in Int /\ pending.probes \in Int
  BY <1>1, <1>2 DEF PendingType
<1>4. x \in StageType /\ x.type = "AmoProbe"
  <2>1. In \in RequestType
    BY <1>1, <1>2, InType
  <2>2. In.op \notin {"LD", "ST"}
    BY <1>1 DEF IsPassthru, Atomic
  <2> QED BY <2>1, <2>2 DEF StageType
<1> HIDE DEF x
<1>5. Room'
  <2>1. Used' = Used /\ MshrSize' = MshrSize /\ InUse' = InUse
    BY <1>1, TypesFrame DEF Used, InUse
  <2>2. Cardinality(Used) \in Nat /\ PassSize \in Nat /\ PassSize - Cardinality(Used) > pending.probes
    BY <1>1, FreeSlots, ConstantFacts DEF ProbeGate
  <2>3. Cardinality(Used) + (pending.probes + 1) <= PassSize
    BY <1>3, <2>2
  <2> QED BY <1>1, <1>2, <1>3, <2>1, <2>3 DEF Room
<1>6. pending'.mshr = pending.mshr + (IF x.type = "Core" THEN 1 ELSE 0)
      /\ pending'.probes = pending.probes + (IF x.type = "AmoProbe" THEN 1 ELSE 0)
  BY <1>3, <1>4
<1> QED BY <1>1, <1>3, <1>4, <1>5, <1>6, CoreEnters

LEMMA TakeCoreInv ==
  ASSUME BankInv, TakeCore
  PROVE  BankInv'
<1> DEFINE x == [type |-> "Core", req |-> In, age |-> 0]
<1>1. UNCHANGED <<config, way, repl, mshr, passthru, remissed, issued, memReq, memRsp,
                  dram, ram>> /\ pipe' = Append(pipe, x)
      /\ coreReq # << >> /\ coreReq' = Tail(coreReq) /\ admSeq' = admSeq + 1
      /\ pending' = [pending EXCEPT !.mshr = @ + 1] /\ MshrGate
      /\ pipeLines' = Append(pipeLines, In.addr[1])
  BY DEF TakeCore, Push, array, mem, history, CoreTurn
<1>2. config \in Configs /\ CoreType /\ Room /\ PendingType
  BY DEF BankInv, ArrayInv, PipeInv
<1>3. /\ PendingType' /\ pending'.mshr = pending.mshr + 1 /\ pending'.probes = pending.probes
      /\ pending'.fills = pending.fills /\ pending.mshr \in Int /\ pending.probes \in Int
  <2>1. pending \in [mshr : Int, probes : Int, fills : Int]
    BY <1>2 DEF PendingType
  <2>2. pending' = [mshr |-> pending.mshr + 1, probes |-> pending.probes,
                    fills |-> pending.fills]
    BY <1>1, <2>1
  <2> QED BY <2>1, <2>2 DEF PendingType
<1>4. In \in RequestType /\ In.addr[1] \in Tags
  BY <1>1, <1>2, InType
<1>5. x \in StageType /\ x.type = "Core" /\ x.req = In
  BY <1>4 DEF StageType
<1> HIDE DEF x
<1>6. Room'
  <2>1. Used' = Used /\ MshrSize' = MshrSize /\ InUse' = InUse
    BY <1>1, TypesFrame DEF Used, InUse
  <2>2. Cardinality(InUse) + (pending.mshr + 1) <= MshrSize
    <3>1. Cardinality(InUse) \in Nat /\ MshrSize \in Nat /\ Cardinality(InUse) + pending.mshr < MshrSize
      BY <1>1, <1>2, InUseFinite, ConfigFacts DEF MshrGate
    <3> QED BY <1>3, <3>1
  <2> QED BY <1>1, <1>2, <1>3, <2>1, <2>2 DEF Room
<1>7. pending'.mshr = pending.mshr + (IF x.type = "Core" THEN 1 ELSE 0)
      /\ pending'.probes = pending.probes + (IF x.type = "AmoProbe" THEN 1 ELSE 0)
  BY <1>3, <1>5
<1> QED BY <1>1, <1>3, <1>4, <1>5, <1>6, <1>7, CoreEnters

LEMMA CoalesceInv ==
  ASSUME BankInv, Coalesce
  PROVE  BankInv'
<1>1. UNCHANGED <<config, way, repl, pending, pipeLines, passthru, remissed, issued, memReq, memRsp,
                  dram, ram>> /\ pipe' = pipe
      /\ coreReq # << >> /\ coreReq' = Tail(coreReq) /\ admSeq' = admSeq + 1
      /\ MshrGate /\ mshr' = Enqueue(In, JoinType)
  BY DEF Coalesce, array, mem, history, CoreTurn
<1>2. config \in Configs /\ WayType /\ MshrType /\ PipeInv /\ FillInv /\ FillsDiffer
      /\ MemType /\ Once /\ CoreType /\ PassInv /\ CountInv /\ Room /\ PendingType
      /\ PipeType /\ Counts
  BY DEF BankInv, ArrayInv, FillInv, PipeInv
<1>3. PendingType' /\ pending.mshr \in Nat
  BY <1>1, <1>2, StagesFinite DEF PendingType, Counts
<1>4. Cardinality(InUse) \in Nat /\ MshrSize \in Nat /\ Cardinality(InUse) + pending.mshr < MshrSize
  BY <1>1, <1>2, InUseFinite, ConfigFacts DEF MshrGate
<1>5. ~MshrFull
  <2>1. Cardinality(Entries) = MshrSize
    BY <1>2, ConfigFacts
  <2>2. Cardinality(InUse) # MshrSize
    BY <1>3, <1>4
  <2> QED BY <2>1, <2>2 DEF MshrFull
<1>6. In \in RequestType /\ JoinType \in {"Core", "Replay"}
      /\ (JoinType = "Core" => PendingFill(In.addr))
  BY <1>1, <1>2, InType DEF JoinType
<1>7. PipeInv' /\ FillsDiffer' /\ FillAddrs' = FillAddrs
  BY <1>1, <1>2, <1>3, StagesStay
<1>8. MemType' /\ Once' /\ Flying' = Flying
  BY <1>1, <1>2, TagsStay DEF MemType
<1>9. PassInv' /\ CountInv' /\ Asked' = Asked
  BY <1>1, <1>2, <1>8, TokensStay
<1>10. FillInv' /\ MshrType' /\ Cardinality(InUse') = Cardinality(InUse) + 1
  BY <1>1, <1>2, <1>5, <1>6, <1>7, <1>9, QueuedFills
<1>11. Room'
  <2>1. Used' = Used /\ MshrSize' = MshrSize
    BY <1>1, TypesFrame DEF Used
  <2>2. Cardinality(InUse') + pending'.mshr <= MshrSize
    BY <1>1, <1>3, <1>4, <1>10
  <2> QED BY <1>1, <1>2, <2>1, <2>2 DEF Room
<1>12. WayType'
  BY <1>1, <1>2, TypesFrame DEF WayType
<1>13. CoreType'
  <2>1. coreReq' \in Seq(RequestType)
    BY <1>1, <1>2, InType
  <2> QED BY <1>1, <1>2, <2>1, TypesFrame DEF CoreType
<1>14. ArrayInv'
  BY <1>1, <1>2, <1>8, <1>10, <1>12, <1>13 DEF ArrayInv
<1> QED BY <1>7, <1>8, <1>9, <1>10, <1>11, <1>14 DEF BankInv

LEMMA EndTickInv ==
  ASSUME BankInv, EndTick
  PROVE  BankInv'
<1>1. UNCHANGED <<config, repl, mshr, pending, pipeLines, passthru, remissed, coreReq, issued,
                  admSeq, memRsp, dram, ram>>
      /\ pipe' = [i \in DOMAIN pipe |-> [pipe[i] EXCEPT !.age = Min({@ + 1, Latency})]]
      /\ (IF FlushGoes THEN Walk ELSE UNCHANGED <<way, memReq, flush>>)
  BY DEF EndTick, core, history
<1>2. config \in Configs /\ WayType /\ MshrType /\ PipeInv /\ FillInv /\ FillsDiffer
      /\ MemType /\ Once /\ CoreType /\ PassInv /\ CountInv /\ Room /\ PendingType
  BY DEF BankInv, ArrayInv, FillInv, PipeInv
<1>3. way' \in [Way -> LineType] /\ MemType' /\ Once' /\ Flying' = Flying
  <2>1. CASE FlushGoes
    <3>1. way' \in [Way -> LineType] /\ \E st \in Seq(StoreType) : memReq' = memReq \o st
      BY <1>1, <1>2, <2>1, WalkStep DEF MemType
    <3>2. memReq' \in Seq(MemReqType) /\ Once' /\ Flying' = Flying
      BY <1>1, <1>2, <3>1, SendStores
    <3> QED BY <1>1, <1>2, <3>1, <3>2, TypesFrame DEF MemType
  <2>2. CASE ~FlushGoes
    <3>1. UNCHANGED <<way, memReq>>
      BY <1>1, <2>2
    <3> QED BY <1>1, <1>2, <3>1, TagsStay DEF MemType, WayType
  <2> QED BY <2>1, <2>2
<1>4. PendingType'
  BY <1>1, <1>2 DEF PendingType
<1>5. PipeInv' /\ FillsDiffer' /\ FillAddrs' = FillAddrs
  BY <1>1, <1>2, <1>4, StagesStay
<1>6. PassInv' /\ CountInv' /\ Asked' = Asked
  BY <1>1, <1>2, <1>3, TokensStay
<1>7. FillInv' /\ InUse' = InUse /\ MshrType'
  BY <1>1, <1>2, <1>5, <1>6, MshrStays
<1>8. Room'
  <2>1. Used' = Used /\ MshrSize' = MshrSize
    BY <1>1, TypesFrame DEF Used
  <2> QED BY <1>1, <1>2, <1>7, <2>1 DEF Room
<1>9. WayType' /\ CoreType'
  BY <1>1, <1>2, <1>3, TypesFrame DEF WayType, CoreType
<1>10. ArrayInv'
  BY <1>1, <1>2, <1>3, <1>7, <1>9 DEF ArrayInv
<1> QED BY <1>3, <1>5, <1>6, <1>7, <1>8, <1>10 DEF BankInv
-----------------------------------------------------------------------------
(* The invariant holds.                                                      *)

LEMMA InitInv == Init => BankInv
<1> SUFFICES ASSUME Init PROVE BankInv
  OBVIOUS
<1>1. TypeInv
  BY InitTypes
<1>2. pipe = << >> /\ pipeLines = << >> /\ memReq = << >> /\ memRsp = << >> /\ dram = {}
      /\ pending = [mshr |-> 0, probes |-> 0, fills |-> 0]
      /\ mshr = [m \in Entries |-> NoEntry] /\ passthru = [p \in Pids |-> 0]
  BY DEF Init
<1>3. Flying = {} /\ Once
  BY <1>2 DEF Once, Flying, ReqTags, MemTags, RspTags, Asking
<1>4. Cores = {} /\ Probes = {} /\ Fills = {}
  BY <1>2 DEF Cores, Probes, Fills
<1>5. FillAddrs = {} /\ FillsDiffer
  BY <1>4 DEF FillAddrs, FillsDiffer
<1>6. InUse = {} /\ Waiting = {} /\ Used = {}
  BY <1>2 DEF InUse, Waiting, Used, NoEntry
<1>7. FillInv
  BY <1>3, <1>5, <1>6 DEF FillInv, Asked
<1>8. Cardinality({}) = 0 /\ IsFiniteSet({})
  BY FS_EmptySet
<1>9. PassInv /\ CountInv
  BY <1>2, <1>3, <1>8 DEF PassInv, CountInv
<1>10. Room
  <2>1. MshrSize \in Nat /\ PassSize \in Nat
    BY <1>1, ConfigFacts, ConstantFacts DEF TypeInv
  <2> QED BY <1>2, <1>6, <1>8, <2>1 DEF Room
<1>11. Mirror
  <2>1. Mirrors(<< >>, << >>, {}, pipe)
    BY DEF Mirrors
  <2>2. pipeLines \in Seq(Tags)
    BY <1>2
  <2> QED BY <1>2, <1>4, <2>1, <2>2 DEF Mirror
<1>12. Counts
  BY <1>2, <1>4, <1>8 DEF Counts
<1>13. PipeInv
  BY <1>1, <1>11, <1>12 DEF TypeInv, PipeInv
<1>14. ArrayInv
  BY <1>1 DEF TypeInv, ArrayInv
<1> QED BY <1>3, <1>7, <1>9, <1>10, <1>13, <1>14 DEF BankInv

LEMMA NextInv == BankInv /\ [Next]_vars => BankInv'
<1> SUFFICES ASSUME BankInv, [Next]_vars PROVE BankInv'
  OBVIOUS
<1>1. CASE ProcessRequests
  <2>1. CASE NoRequest
    BY <2>1, NothingInv DEF NoRequest, array, core, mem, history
  <2> QED BY <1>1, <2>1, AmoProbeInv, FillInvStep, ReplayHitInv, ReplayAmoInv, ReplayDropInv,
             ReplayMissInv, CoreDeferInv, CoreAmoInv, CoreHitInv, CoreStoreMissInv, CoreMissInv
          DEF ProcessRequests
<1>2. CASE ProcessForward
  <2>1. CASE ForwardClose
    BY <2>1, NothingInv DEF ForwardClose, array, core, mem, history
  <2>2. CASE ForwardNothing
    BY <2>2, NothingInv DEF ForwardNothing, array, core, mem, history
  <2> QED BY <1>2, <2>1, <2>2, ForwardReadInv DEF ProcessForward
<1>3. CASE ProcessInputs
  <2>1. CASE NoInput
    BY <2>1, NothingInv DEF NoInput, array, core, mem, history
  <2> QED BY <1>3, <2>1, TakeReplayInv, PassthruRspInv, TakeFillInv, TakeProbeInv, CoalesceInv,
             TakeCoreInv
          DEF ProcessInputs
<1>4. CASE EndTick
  BY <1>4, EndTickInv
<1>5. CASE Issue \/ MemAccept \/ MemRespond \/ ForeignWrite
  BY <1>5, IssueInv, MemAcceptInv, MemRespondInv, ForeignWriteInv
<1>6. CASE CoreDrain
  BY <1>6, NothingInv DEF CoreDrain, bank, array, mem
<1>7. CASE FlushBegin
  BY <1>7, NothingInv DEF FlushBegin, bank, array, core, mem
<1>8. CASE UNCHANGED vars
  BY <1>8, NothingInv DEF vars
<1> QED BY <1>1, <1>2, <1>3, <1>4, <1>5, <1>6, <1>7, <1>8 DEF Next, Tick

\* The types, the tags under way, the chains that wait, the counters and the
\* mirror of the bank fit together in every state (CacheBank::on_tick()).
THEOREM BankInvariant == Spec => []BankInv
<1>1. Init => BankInv
  BY InitInv
<1>2. BankInv /\ [Next]_vars => BankInv'
  BY NextInv
<1> QED BY <1>1, <1>2, PTL DEF Spec

LEMMA InvSlots == BankInv => SlotsReserved
<1> SUFFICES ASSUME BankInv PROVE SlotsReserved
  OBVIOUS
<1>1. Counts /\ Mirror /\ Room
  BY DEF BankInv, PipeInv
<1>2. Cores = Pipelined("Core") /\ Probes = Pipelined("AmoProbe")
  BY StagesPipelined
<1>3. ASSUME NEW i \in Pipelined("Core")
      PROVE  \E j \in DOMAIN pipeLines : pipeLines[j] = pipe[i].req.addr[1]
  <2>1. PICK f : Mirrors(f, pipeLines, Cores, pipe)
    BY <1>1 DEF Mirror
  <2>2. PICK j \in DOMAIN pipeLines : f[j] = i
    BY <1>2, <2>1 DEF Mirrors
  <2>3. pipeLines[j] = pipe[f[j]].req.addr[1]
    BY <2>1 DEF Mirrors
  <2> QED BY <2>2, <2>3
<1> QED BY <1>1, <1>2, <1>3 DEF SlotsReserved, Counts, Room, Used

\* Admission reserves what the pipeline takes later: the counters and the mirror
\* of lines agree with the pipeline, the table of atomics never overflows, and
\* the MSHR does not as long as no replay misses again (processInputs()).
THEOREM SlotsStayReserved == Spec => []SlotsReserved
<1>1. BankInv => SlotsReserved
  BY InvSlots
<1> QED BY <1>1, BankInvariant, PTL

LEMMA InvMiss == BankInv => remissed \/ MissFindsSlot
<1> SUFFICES ASSUME BankInv, ~remissed, TakesEntry, MshrFull PROVE FALSE
  BY DEF MissFindsSlot
<1>1. config \in Configs /\ PipeType /\ Counts /\ Room
  BY DEF BankInv, ArrayInv, PipeInv
<1>2. Cardinality(InUse) = MshrSize /\ MshrSize \in Nat
  BY <1>1, ConfigFacts DEF MshrFull
<1>3. 1 \in Cores
  BY <1>1 DEF TakesEntry, HeadIs, HeadReady, Cores, PipeType
<1>4. Cardinality(Cores) # 0 /\ Cardinality(Cores) \in Nat
  BY <1>1, <1>3, StagesFinite, FS_EmptySet
<1> QED BY <1>1, <1>2, <1>4 DEF Counts, Room

\* The assertions on !mshr_.full() fail only after a replay has missed again: until
\* then a request at the end of the pipeline finds the entry that admission kept
\* for it (processInputs(), processRequests()).
THEOREM MissFindsSlotUntilRemiss == Spec => [](remissed \/ MissFindsSlot)
<1> QED BY InvMiss, BankInvariant, PTL

-----------------------------------------------------------------------------
(* Fills and chains.                                                          *)

\* What is under way under a tag is in one place.
LEMMA OnePlace ==
  ASSUME Once, NEW t
  PROVE  /\ t \in Flying => \E x : UnderWay(t) = {x}
         /\ t \notin Flying => UnderWay(t) = {}
<1> DEFINE Q == {j \in DOMAIN memReq : memReq[j].op # "ST" /\ memReq[j].tag = t}
           D == {e \in dram : e.tag = t}
           R == {j \in DOMAIN memRsp : memRsp[j].tag = t}
<1>1. UnderWay(t) = {<<"request", i>> : i \in Q} \cup {<<"memory", d>> : d \in D}
                      \cup {<<"response", i>> : i \in R}
  BY DEF UnderWay
<1>2. Q = {j \in Asking : memReq[j].tag = t}
  BY DEF Asking
<1>3. (t \in ReqTags <=> Q # {}) /\ (t \in MemTags <=> D # {}) /\ (t \in RspTags <=> R # {})
  BY <1>2 DEF ReqTags, MemTags, RspTags
<1>4. \A i, j \in Q : i = j
  BY <1>2 DEF Once
<1>5. \A d, e \in D : d = e
  BY DEF Once
<1>6. \A i, j \in R : i = j
  BY DEF Once
<1> HIDE DEF Q, D, R
<1>7. CASE t \in ReqTags
  <2>1. D = {} /\ R = {} /\ Q # {}
    BY <1>3, <1>7 DEF Once
  <2>2. PICK i : i \in Q
    BY <2>1
  <2>3. Q = {i}
    BY <1>4, <2>2
  <2>4. UnderWay(t) = {<<"request", i>>}
    BY <1>1, <2>1, <2>3
  <2> QED BY <2>4, <1>7 DEF Flying
<1>8. CASE t \in MemTags
  <2>1. Q = {} /\ R = {} /\ D # {}
    BY <1>3, <1>8 DEF Once
  <2>2. PICK d : d \in D
    BY <2>1
  <2>3. D = {d}
    BY <1>5, <2>2
  <2>4. UnderWay(t) = {<<"memory", d>>}
    BY <1>1, <2>1, <2>3
  <2> QED BY <2>4, <1>8 DEF Flying
<1>9. CASE t \in RspTags
  <2>1. Q = {} /\ D = {} /\ R # {}
    BY <1>3, <1>9 DEF Once
  <2>2. PICK i : i \in R
    BY <2>1
  <2>3. R = {i}
    BY <1>6, <2>2
  <2>4. UnderWay(t) = {<<"response", i>>}
    BY <1>1, <2>1, <2>3
  <2> QED BY <2>4, <1>9 DEF Flying
<1>10. CASE t \notin Flying
  <2>1. Q = {} /\ D = {} /\ R = {}
    BY <1>3, <1>10 DEF Flying
  <2> QED BY <1>1, <1>10, <2>1
<1> QED BY <1>7, <1>8, <1>9, <1>10 DEF Flying

\* A place belongs to one tag.
LEMMA PlaceHasTag ==
  ASSUME NEW t, NEW u, NEW x \in UnderWay(t), x \in UnderWay(u)
  PROVE  t = u
<1>1. \/ \E i \in DOMAIN memReq : x = <<"request", i>> /\ memReq[i].tag = t
      \/ \E d \in dram : x = <<"memory", d>> /\ d.tag = t
      \/ \E i \in DOMAIN memRsp : x = <<"response", i>> /\ memRsp[i].tag = t
  BY DEF UnderWay
<1>2. \/ \E i \in DOMAIN memReq : x = <<"request", i>> /\ memReq[i].tag = u
      \/ \E d \in dram : x = <<"memory", d>> /\ d.tag = u
      \/ \E i \in DOMAIN memRsp : x = <<"response", i>> /\ memRsp[i].tag = u
  BY DEF UnderWay
<1> QED BY <1>1, <1>2

LEMMA InvFills == BankInv => OneFillPerChain
<1> SUFFICES ASSUME BankInv PROVE OneFillPerChain
  OBVIOUS
<1>1. Once /\ FillInv /\ PassInv /\ CountInv /\ config \in Configs
  BY DEF BankInv, ArrayInv
<1>2. ASSUME NEW a \in Addr, Awaiting(a) # {} PROVE Cardinality(FillsOf(a)) = 1
  <2> DEFINE W == {m \in Waiting : mshr[m].req.addr = a}
             P == {j \in Fills : pipe[j].addr = a}
             U == UNION {UnderWay(m) : m \in W}
             V == {<<"pipeline", i>> : i \in P}
  <2>1. FillsOf(a) = U \cup V
    <3>1. Awaiting(a) = W
      BY DEF Awaiting, Chain, InUse, Waiting
    <3>2. {j \in Pipelined("Fill") : pipe[j].addr = a} = P
      BY StagesPipelined
    <3> HIDE DEF W, P
    <3> QED BY <3>1, <3>2 DEF FillsOf
  <2>2. PICK m \in Waiting : mshr[m].req.addr = a
    BY <1>2 DEF Awaiting, Chain, InUse, Waiting
  <2>3. \A n \in W : n \notin Asked => UnderWay(n) = {}
    <3>1. \A n \in W : n \notin Asked => n \notin Flying
      BY DEF Waiting, Asked
    <3> QED BY <1>1, <3>1, OnePlace
  <2>4. CASE \E n \in Asked : mshr[n].req.addr = a
    <3>1. PICK n \in Asked : mshr[n].req.addr = a
      BY <2>4
    <3>2. n \in W /\ n \in Flying
      BY <1>1, <3>1 DEF FillInv, Asked
    <3>3. \A o \in W : o # n => o \notin Asked
      BY <1>1, <3>1 DEF FillInv
    <3>4. P = {}
      <4>1. a \notin FillAddrs
        BY <1>1, <3>1 DEF FillInv
      <4> QED BY <4>1 DEF FillAddrs
    <3>5. PICK x : UnderWay(n) = {x}
      BY <1>1, <3>2, OnePlace
    <3> HIDE DEF W, P
    <3>6. U = {x}
      BY <2>3, <3>2, <3>3, <3>5
    <3>7. FillsOf(a) = {x}
      BY <2>1, <3>4, <3>6
    <3> QED BY <3>7, FS_Singleton
  <2>5. CASE ~\E n \in Asked : mshr[n].req.addr = a
    <3>1. \A n \in W : n \notin Asked
      BY <2>5
    <3>2. a \in FillAddrs
      BY <1>1, <2>2, <2>5 DEF FillInv
    <3>3. PICK i \in Fills : pipe[i].addr = a
      BY <3>2 DEF FillAddrs
    <3>4. P = {i}
      BY <1>1, <3>3 DEF FillInv, FillsDiffer
    <3> HIDE DEF W, P
    <3>5. U = {}
      BY <2>3, <3>1
    <3>6. FillsOf(a) = {<<"pipeline", i>>}
      BY <2>1, <3>4, <3>5
    <3> QED BY <3>6, FS_Singleton
  <2> QED BY <2>4, <2>5
<1>3. ASSUME NEW p \in Pids, passthru[p] # 0 PROVE Cardinality(UnderWay(MshrSize + p)) = 1
  <2>1. MshrSize + p \in Flying
    BY <1>1, <1>3 DEF PassInv
  <2>2. PICK x : UnderWay(MshrSize + p) = {x}
    BY <1>1, <2>1, OnePlace
  <2> QED BY <2>2, FS_Singleton
<1>4. pending.fills = Cardinality(UNION {UnderWay(t) : t \in 1 .. MshrSize + PassSize})
  <2> DEFINE U == UNION {UnderWay(t) : t \in 1 .. MshrSize + PassSize}
             f == [t \in Flying |-> CHOOSE x : UnderWay(t) = {x}]
  <2>1. ASSUME NEW t \in Flying PROVE UnderWay(t) = {f[t]}
    <3>1. \E x : UnderWay(t) = {x}
      BY <1>1, OnePlace
    <3> QED BY <3>1
  <2>2. DOMAIN f = Flying /\ f = [t \in Flying |-> f[t]]
    OBVIOUS
  <2> HIDE DEF f
  <2>3. ASSUME NEW t \in Flying PROVE f[t] \in U
    <3>1. t \in 1 .. MshrSize + PassSize
      BY <1>1 DEF PassInv
    <3> QED BY <2>1, <3>1
  <2>4. ASSUME NEW t \in Flying, NEW u \in Flying, f[t] = f[u] PROVE t = u
    <3>1. f[t] \in UnderWay(t) /\ f[t] \in UnderWay(u)
      BY <2>1, <2>4
    <3> QED BY <3>1, PlaceHasTag
  <2>5. ASSUME NEW x \in U PROVE \E t \in Flying : f[t] = x
    <3>1. PICK t \in 1 .. MshrSize + PassSize : x \in UnderWay(t)
      OBVIOUS
    <3>2. t \in Flying
      BY <1>1, <3>1, OnePlace
    <3> QED BY <2>1, <3>1, <3>2
  <2> HIDE DEF U
  <2>6. f \in Bijection(Flying, U)
    <3>1. f \in [Flying -> U]
      BY <2>2, <2>3
    <3> QED BY <3>1, <2>4, <2>5 DEF Bijection, Injection, Surjection, IsInjective
  <2>7. Cardinality(U) = Cardinality(Flying)
    BY <1>1, <2>6, FS_Bijection DEF CountInv, ExistsBijection
  <2> QED BY <1>1, <2>7 DEF CountInv, U
<1> QED BY <1>2, <1>3, <1>4 DEF OneFillPerChain

\* A chain that waits has exactly one fill under way, from the entry that opened
\* it to the stage that installs the sector; an atomic passed down has exactly
\* one answer; and pending_fill_reqs_ counts them (has_pending_fill(), replay()).
THEOREM FillsMatchChains == Spec => []OneFillPerChain
<1>1. BankInv => OneFillPerChain
  BY InvFills
<1> QED BY <1>1, BankInvariant, PTL

\* RAM changes only as memory takes a request or another cache writes.
LEMMA RamFrame ==
  ASSUME [Next]_vars
  PROVE  ram' = ram \/ MemAccept \/ ForeignWrite
<1>1. CASE ProcessRequests
  BY <1>1 DEF ProcessRequests, AmoProbe, Fill, ReplayHit, ReplayAmo, ReplayDrop, ReplayMiss,
              CoreDefer, CoreAmo, CoreHit, CoreStoreMiss, CoreMiss, NoRequest, mem
<1>2. CASE ProcessForward
  BY <1>2 DEF ProcessForward, ForwardClose, ForwardRead, ForwardNothing, mem
<1>3. CASE ProcessInputs
  BY <1>3 DEF ProcessInputs, TakeReplay, PassthruRsp, TakeFill, TakeProbe, Coalesce, TakeCore,
              NoInput, mem
<1>4. CASE EndTick \/ Issue \/ CoreDrain \/ MemRespond \/ FlushBegin
  BY <1>4 DEF EndTick, Issue, CoreDrain, MemRespond, FlushBegin, mem
<1>5. CASE UNCHANGED vars
  BY <1>5 DEF vars
<1> QED BY <1>1, <1>2, <1>3, <1>4, <1>5 DEF Next, Tick

KeepsForeign ==
  \A a \in Addr, b \in config.foreign : ram[a][b] = Foreign => ram'[a][b] = Foreign

LEMMA InvForeign == BankInv /\ [Next]_vars => KeepsForeign
<1> SUFFICES ASSUME BankInv, [Next]_vars, NEW a \in Addr, NEW b \in config.foreign,
                    ram[a][b] = Foreign
             PROVE  ram'[a][b] = Foreign
  BY DEF KeepsForeign
<1>1. MemType /\ config \in Configs /\ b \in Bytes
  BY ConfigFacts DEF BankInv, ArrayInv
<1>2. CASE ram' = ram
  BY <1>2
<1>3. CASE MemAccept
  <2> DEFINE q == Head(memReq)
  <2>1. q \in MemReqType
    BY <1>1, <1>3, HeadTailProperties DEF MemAccept, MemType
  <2>2. q.op # "LD" => b \notin q.en
    BY <2>1 DEF MemReqType, Own
  <2>3. ram' = IF q.op = "LD" THEN ram
               ELSE [ram EXCEPT ![q.addr] = [c \in Bytes |-> IF c \in q.en THEN q.data[c] ELSE @[c]]]
    BY <1>3 DEF MemAccept
  <2> HIDE DEF q
  <2> QED BY <1>1, <2>2, <2>3 DEF MemType
<1>4. CASE ForeignWrite
  <2>1. PICK c : ram' = [ram EXCEPT ![c] =
                          [d \in Bytes |-> IF d \in config.foreign THEN Foreign ELSE @[d]]]
    BY <1>4 DEF ForeignWrite
  <2> QED BY <1>1, <2>1 DEF MemType
<1> QED BY <1>2, <1>3, <1>4, RamFrame

\* What another cache has written below stays: neither a store, an atomic, an
\* eviction nor the flush walk of this bank touches its bytes (dirty_mask).
THEOREM ForeignBytesStay == Spec => ForeignBytesKept
<1>1. BankInv /\ [Next]_vars => [KeepsForeign]_vars
  BY InvForeign
<1>2. ForeignBytesKept <=> [][KeepsForeign]_vars
  BY DEF ForeignBytesKept, KeepsForeign
<1> QED BY <1>1, <1>2, BankInvariant, PTL DEF Spec
=============================================================================

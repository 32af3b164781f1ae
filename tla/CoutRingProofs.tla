--------------------------- MODULE CoutRingProofs ---------------------------
(***************************************************************************)
(* Proofs about CoutRing, for any harts, ring size and counter width: what *)
(* the host prints is what was written, although the counters wrap, the    *)
(* two sides do not synchronise and any transfer may fail.                 *)
(***************************************************************************)
EXTENDS CoutRing, TLAPS, SequenceTheorems, WellFoundedInduction

(* One hart per slot and one queue that drains. *)
Alone ==
    /\ \A h, k \in Harts : SlotOf[h] = SlotOf[k] => h = k
    /\ \A d, e \in Drainers : d = e

-----------------------------------------------------------------------------
(* Counters that wrap.                                                     *)

LEMMA DivMod ==
    ASSUME NEW N \in Nat, N > 0, NEW x \in Int
    PROVE  /\ x = (x \div N) * N + (x % N)
           /\ x \div N \in Int /\ x % N \in 0 .. N - 1
<1>1. x = (x \div N) * N + (x % N)
  BY Z3
<1>2. x \div N \in Int
  BY SMT
<1>3. x % N \in 0 .. N - 1
  BY SMT
<1> QED BY <1>1, <1>2, <1>3

LEMMA ModUnique ==
    ASSUME NEW N \in Nat, N > 0, NEW x \in Int, NEW q \in Int, NEW r \in 0 .. N - 1,
           x = q * N + r
    PROVE  x % N = r
<1>1. PICK a \in Int, b \in 0 .. N - 1 : x = a * N + b /\ b = x % N
  BY DivMod
<1> DEFINE k == a - q
<1>2. k \in Int /\ k * N = r - b
  BY <1>1
<1> HIDE DEF k
<1>3. k >= 1 => k * N >= N
  BY <1>2
<1>4. k <= -1 => k * N <= -N
  BY <1>2
<1>5. k * N \in Int
  BY <1>2
<1>6. k = 0
  BY <1>1, <1>2, <1>3, <1>4, <1>5
<1>7. k * N = 0
  BY <1>6
<1>8. r - b = 0
  BY <1>2, <1>7
<1>9. r = b
  BY <1>1, <1>8
<1> QED BY <1>1, <1>9

(* The difference of two wrapped counters, less than a wrap apart. *)
LEMMA ModDiff ==
    ASSUME NEW N \in Nat, N > 0, NEW a \in Nat, NEW b \in Nat, b <= a, a - b < N
    PROVE  ((a % N) - (b % N)) % N = a - b
<1>1. PICK p \in Int, u \in 0 .. N - 1 : a = p * N + u /\ u = a % N
  <2>1. a = (a \div N) * N + (a % N) /\ a \div N \in Int /\ a % N \in 0 .. N - 1
    BY DivMod
  <2> QED BY <2>1
<1>2. PICK q \in Int, v \in 0 .. N - 1 : b = q * N + v /\ v = b % N
  <2>1. b = (b \div N) * N + (b % N) /\ b \div N \in Int /\ b % N \in 0 .. N - 1
    BY DivMod
  <2> QED BY <2>1
<1>3. u - v = (q - p) * N + (a - b) /\ u - v \in Int /\ q - p \in Int /\ a - b \in 0 .. N - 1
  BY <1>1, <1>2
<1>4. (u - v) % N = a - b
  BY <1>3, ModUnique
<1> QED BY <1>1, <1>2, <1>4

(* The constants, in the form the lemmas take. *)
LEMMA Sizes ==
    /\ RingSize \in Nat /\ RingSize > 0 /\ Word \in Nat /\ Word > 0 /\ Word > RingSize
    /\ Word % RingSize = 0
BY CoutAssumption

(* Indexing by a wrapped counter. *)
LEMMA ModAdd ==
    ASSUME NEW M \in Nat, M > 0, Word % M = 0, NEW a \in Nat, NEW k \in Int
    PROVE  ((a % Word) + k) % M = (a + k) % M
<1> DEFINE N == Word
<1>0. N \in Nat /\ N > 0 /\ N % M = 0
  BY Sizes
<1> HIDE DEF N
<1>1. PICK p \in Int, u \in 0 .. N - 1 : a = p * N + u /\ u = a % N
  <2>1. a = (a \div N) * N + (a % N) /\ a \div N \in Int /\ a % N \in 0 .. N - 1
    BY <1>0, DivMod
  <2> QED BY <1>0, <2>1
<1>2. PICK c \in Int : N = c * M
  <2>1. N = (N \div M) * M + (N % M) /\ N \div M \in Int
    BY <1>0, DivMod
  <2>2. (N \div M) * M \in Int
    BY <2>1
  <2>3. N = (N \div M) * M
    BY <1>0, <2>1, <2>2
  <2> QED BY <2>1, <2>3, Zenon
<1>3. PICK q \in Int, r \in 0 .. M - 1 : a + k = q * M + r /\ r = (a + k) % M
  <2>1. a + k \in Int
    OBVIOUS
  <2> QED BY <2>1, DivMod
<1>4. p * N = (p * c) * M /\ p * c \in Int
  BY <1>0, <1>2
<1>5. u + k = (q - p * c) * M + r
  BY <1>1, <1>3, <1>4
<1>6. q - p * c \in Int /\ u + k \in Int
  BY <1>3, <1>4
<1>7. (u + k) % M = r
  BY <1>5, <1>6, ModUnique
<1> QED BY <1>1, <1>3, <1>7 DEF N

LEMMA WordDiff ==
    ASSUME NEW a \in Nat, NEW b \in Nat, b <= a, a - b < Word
    PROVE  ((a % Word) - (b % Word)) % Word = a - b
BY Sizes, ModDiff, Zenon

LEMMA WordAdd ==
    ASSUME NEW a \in Nat, NEW k \in Int
    PROVE  /\ ((a % Word) + k) % RingSize = (a + k) % RingSize
           /\ ((a % Word) + k) % Word = (a + k) % Word
<1>1. Word % Word = 0
  <2>1. Word = 1 * Word + 0 /\ 0 \in 0 .. Word - 1
    BY Sizes
  <2> QED BY <2>1, Sizes, ModUnique
<1>2. ((a % Word) + k) % RingSize = (a + k) % RingSize
  BY Sizes, ModAdd, Zenon
<1>3. ((a % Word) + k) % Word = (a + k) % Word
  BY <1>1, Sizes, ModAdd, Zenon
<1> QED BY <1>2, <1>3

(* Places less than a ring apart are different. *)
LEMMA ModDistinct ==
    ASSUME NEW N \in Nat, N > 0, NEW a \in Nat, NEW b \in Nat, b < a, a - b < N
    PROVE  b % N # a % N
<1>0. b <= a
  OBVIOUS
<1>1. ((a % N) - (b % N)) % N = a - b
  BY <1>0, ModDiff, Zenon
<1>2. a % N \in Int /\ (0 % N) = 0
  <2>1. a % N \in Int
    BY DivMod
  <2>2. 0 = 0 * N + 0 /\ 0 \in 0 .. N - 1
    OBVIOUS
  <2> QED BY <2>1, <2>2, ModUnique
<1> QED BY <1>1, <1>2
-----------------------------------------------------------------------------
(* The invariant.                                                          *)

HartType == [at : {"idle", "store", "publish", "drop"}, wr : Int]
DrainType == [at : {"idle", "lost", "slots", "data"}, wr : [SlotIds -> Int],
              lost : [SlotIds -> Int], left : SUBSET SlotIds, rd : Int, advanced : BOOLEAN]

CoutTypes ==
    /\ wr \in [SlotIds -> Int] /\ rd \in [SlotIds -> Int] /\ cout_rd \in [SlotIds -> Int]
    /\ lost \in [SlotIds -> Int]
    /\ data \in [SlotIds -> [0 .. RingSize - 1 -> Nat]]
    /\ hart \in [Harts -> HartType] /\ puts \in [Harts -> Nat]
    /\ drain \in [Drainers -> DrainType]
    /\ accepted \in [SlotIds -> Seq(Nat)] /\ printed \in [SlotIds -> Seq(Nat)]

(* The characters published and printed so far; wr and cout_rd_ count them *)
(* modulo the word.                                                        *)
Taken(s) == Len(accepted[s])
Shown(s) == Len(printed[s])

CountInv ==
    \A s \in SlotIds : wr[s] = Taken(s) % Word /\ cout_rd[s] = Shown(s) % Word

Writing(s) == \E h \in Harts : SlotOf[h] = s /\ hart[h].at \in {"store", "publish"}

(* The published rd stands for r characters: what is not older than those  *)
(* is still in the ring, and a hart that writes has room for one more.     *)
Holds(s, r) ==
    /\ rd[s] = r % Word
    /\ Taken(s) - r <= RingSize
    /\ Writing(s) => Taken(s) - r < RingSize
    /\ \A i \in r + 1 .. Taken(s) : data[s][(i - 1) % RingSize] = accepted[s][i]

RingInv == \A s \in SlotIds : \E r \in 0 .. Shown(s) : Holds(s, r)

(* A hart that writes has the current wr, and publishes what it stored. *)
HartInv ==
    \A h \in Harts :
        LET s == SlotOf[h]
        IN  /\ hart[h].at \in {"store", "publish"} => hart[h].wr = Taken(s) % Word
            /\ hart[h].at = "publish" => data[s][Taken(s) % RingSize] = puts[h]

(* What a drain goes for lies between what is printed and what is written. *)
DrainInv ==
    \A d \in Drainers : drain[d].at # "idle" =>
        /\ \A s \in SlotIds : \E w \in Shown(s) .. Taken(s) : drain[d].wr[s] = w % Word
        /\ drain[d].at = "data" => drain[d].left # {} /\ drain[d].rd = cout_rd[Current(d)]

CoutInv == CoutTypes /\ CountInv /\ RingInv /\ HartInv /\ DrainInv /\ PrintedIsWritten

LEMMA Lengths ==
    ASSUME CoutTypes, NEW s \in SlotIds
    PROVE  /\ Taken(s) \in Nat /\ Shown(s) \in Nat
           /\ accepted[s] \in Seq(Nat) /\ printed[s] \in Seq(Nat)
           /\ DOMAIN accepted[s] = 1 .. Taken(s) /\ DOMAIN printed[s] = 1 .. Shown(s)
<1>1. accepted[s] \in Seq(Nat) /\ printed[s] \in Seq(Nat)
  BY DEF CoutTypes
<1> QED BY <1>1 DEF Taken, Shown

LEMMA OneHart ==
    ASSUME Alone, NEW h \in Harts
    PROVE  /\ SlotOf[h] \in SlotIds
           /\ \A k \in Harts : SlotOf[k] = SlotOf[h] => k = h
BY DEF Alone, SlotIds
-----------------------------------------------------------------------------
(* Every step preserves it.                                                *)

LEMMA CoutInitInv == CoutInit => CoutInv
<1> SUFFICES ASSUME CoutInit PROVE CoutInv
  OBVIOUS
<1>1. \A s \in SlotIds : /\ wr[s] = 0 /\ rd[s] = 0 /\ cout_rd[s] = 0
                         /\ accepted[s] = <<>> /\ printed[s] = <<>>
                         /\ Taken(s) = 0 /\ Shown(s) = 0
  BY DEF CoutInit, Taken, Shown
<1>2. 0 % Word = 0 /\ 0 \in 0 .. Word - 1
  BY Sizes
<1>3. CoutTypes
  <2>1. NoDrain \in DrainType
    BY DEF NoDrain, DrainType
  <2>2. [at |-> "idle", wr |-> 0] \in HartType
    BY DEF HartType
  <2>3. [i \in 0 .. RingSize - 1 |-> 0] \in [0 .. RingSize - 1 -> Nat]
    OBVIOUS
  <2>4. <<>> \in Seq(Nat)
    OBVIOUS
  <2> QED BY <2>1, <2>2, <2>3, <2>4 DEF CoutInit, CoutTypes
<1>4. CountInv
  BY <1>1, <1>2 DEF CountInv
<1>5. RingInv
  <2> SUFFICES ASSUME NEW s \in SlotIds PROVE Holds(s, 0) /\ 0 \in 0 .. Shown(s)
    BY DEF RingInv
  <2>1. \A h \in Harts : hart[h].at = "idle"
    BY DEF CoutInit
  <2> QED BY <1>1, <1>2, <2>1, Sizes DEF Holds, Writing
<1>6. HartInv /\ DrainInv
  BY DEF CoutInit, HartInv, DrainInv, NoDrain
<1>7. PrintedIsWritten
  BY <1>1 DEF PrintedIsWritten, IsPrefixOf
<1> QED BY <1>3, <1>4, <1>5, <1>6, <1>7 DEF CoutInv

(* A step that leaves the ring and its readers alone. *)
LEMMA KeepRing ==
    ASSUME CoutInv, UNCHANGED <<wr, rd, data, accepted, hart, puts, cout_rd, printed>>
    PROVE  CountInv' /\ RingInv' /\ HartInv' /\ PrintedIsWritten'
<1>1. \A s : Taken(s)' = Taken(s) /\ Shown(s)' = Shown(s)
  BY DEF Taken, Shown
<1>2. CountInv' /\ HartInv'
  BY <1>1 DEF CoutInv, CountInv, HartInv
<1>3. RingInv'
  <2>1. \A s, r : Holds(s, r) => Holds(s, r)'
    BY <1>1 DEF Holds, Writing
  <2> QED BY <1>1, <2>1 DEF CoutInv, RingInv
<1>4. PrintedIsWritten'
  BY DEF CoutInv, PrintedIsWritten, IsPrefixOf
<1> QED BY <1>2, <1>3, <1>4

(* More characters do not disturb a drain. *)
LEMMA KeepDrain ==
    ASSUME CoutInv, UNCHANGED <<drain, cout_rd, printed>>,
           \A s \in SlotIds : Taken(s)' \in Nat /\ Taken(s)' >= Taken(s)
    PROVE  DrainInv'
<1> SUFFICES ASSUME NEW d \in Drainers, drain[d].at # "idle"
             PROVE  /\ \A s \in SlotIds :
                         \E w \in Shown(s)' .. Taken(s)' : drain[d].wr[s] = w % Word
                    /\ drain[d].at = "data" =>
                         drain[d].left # {} /\ drain[d].rd = cout_rd[Current(d)]
  BY DEF DrainInv, Current
<1>1. ASSUME NEW s \in SlotIds
      PROVE  \E w \in Shown(s)' .. Taken(s)' : drain[d].wr[s] = w % Word
  <2>1. PICK w \in Shown(s) .. Taken(s) : drain[d].wr[s] = w % Word
    BY DEF CoutInv, DrainInv
  <2>2. Taken(s) \in Nat /\ Shown(s) \in Nat /\ Shown(s)' = Shown(s)
    BY Lengths DEF CoutInv, Shown
  <2>3. w \in Shown(s)' .. Taken(s)'
    BY <2>1, <2>2
  <2> QED BY <2>1, <2>3
<1>2. drain[d].at = "data" => drain[d].left # {} /\ drain[d].rd = cout_rd[Current(d)]
  BY DEF CoutInv, DrainInv
<1> QED BY <1>1, <1>2

LEMMA PutcharInv ==
    ASSUME Alone, CoutInv, NEW h \in Harts, Putchar(h)
    PROVE  CoutInv'
<1> DEFINE s == SlotOf[h]
<1>0. CoutTypes /\ CountInv /\ RingInv /\ HartInv /\ DrainInv /\ PrintedIsWritten
  BY DEF CoutInv
<1>1. /\ s \in SlotIds /\ hart[h].at = "idle"
      /\ hart' = [hart EXCEPT ![h] = [at |-> IF Full(wr[s], rd[s]) THEN "drop" ELSE "store",
                                      wr |-> wr[s]]]
      /\ puts' = [puts EXCEPT ![h] = puts[h] + 1]
      /\ UNCHANGED <<wr, rd, lost, data, accepted, cout_rd, drain, printed>>
  BY OneHart DEF Putchar, ringVars, hostVars
<1>2. /\ hart'[h] = [at |-> IF Full(wr[s], rd[s]) THEN "drop" ELSE "store", wr |-> wr[s]]
      /\ \A k \in Harts : k # h => hart'[k] = hart[k] /\ puts'[k] = puts[k]
  BY <1>0, <1>1 DEF CoutTypes
<1>3. \A x : Taken(x)' = Taken(x) /\ Shown(x)' = Shown(x)
  BY <1>1 DEF Taken, Shown
<1>4. CoutTypes'
  <2>1. wr[s] \in Int /\ hart'[h] \in HartType /\ puts[h] + 1 \in Nat
    BY <1>0, <1>1, <1>2 DEF CoutTypes, HartType
  <2>2. hart' \in [Harts -> HartType] /\ puts' \in [Harts -> Nat]
    BY <1>0, <1>1, <1>2, <2>1 DEF CoutTypes
  <2> QED BY <1>0, <1>1, <2>2 DEF CoutTypes
<1>5. CountInv'
  BY <1>0, <1>1, <1>3 DEF CountInv
<1>6. RingInv'
  <2> SUFFICES ASSUME NEW x \in SlotIds PROVE \E r \in 0 .. Shown(x)' : Holds(x, r)'
    BY DEF RingInv
  <2>1. PICK r \in 0 .. Shown(x) : Holds(x, r)
    BY <1>0 DEF RingInv
  <2>2. Writing(x)' => Taken(x) - r < RingSize
    <3>1. CASE Writing(x)
      BY <2>1, <3>1 DEF Holds
    <3>2. CASE ~Writing(x) /\ Writing(x)'
      <4>1. x = s /\ hart'[h].at = "store"
        BY <1>2, <3>2 DEF Writing
      <4>2. ~Full(wr[s], rd[s])
        BY <1>2, <4>1
      <4>3. Taken(s) \in Nat /\ Shown(s) \in Nat
        BY <1>0, <1>1, Lengths
      <4>4. wr[s] = Taken(s) % Word /\ rd[s] = r % Word /\ Taken(s) - r <= RingSize
        BY <1>0, <1>1, <2>1, <4>1 DEF CountInv, Holds
      <4>5. Shown(s) <= Taken(s)
        BY <1>0, <1>1 DEF PrintedIsWritten, IsPrefixOf, Taken, Shown
      <4>6. r \in Nat /\ r <= Taken(s) /\ Taken(s) - r < Word
        BY <2>1, <4>1, <4>3, <4>4, <4>5, Sizes
      <4>7. ((Taken(s) % Word) - (r % Word)) % Word = Taken(s) - r
        BY <4>3, <4>6, WordDiff
      <4>8. ~(Taken(s) - r >= RingSize)
        BY <4>2, <4>4, <4>7 DEF Full
      <4> QED BY <4>1, <4>3, <4>6, <4>8, Sizes
    <3>3. CASE ~Writing(x)'
      BY <3>3
    <3> QED BY <3>1, <3>2, <3>3
  <2>3. Holds(x, r)'
    BY <1>1, <1>3, <2>1, <2>2 DEF Holds
  <2> QED BY <1>3, <2>1, <2>3
<1>7. HartInv'
  <2> SUFFICES ASSUME NEW k \in Harts
               PROVE  /\ hart'[k].at \in {"store", "publish"} =>
                           hart'[k].wr = Taken(SlotOf[k]) % Word
                      /\ hart'[k].at = "publish" =>
                           data[SlotOf[k]][Taken(SlotOf[k]) % RingSize] = puts'[k]
    BY <1>1, <1>3 DEF HartInv
  <2>1. CASE k # h
    BY <1>0, <1>2, <2>1 DEF HartInv
  <2>2. CASE k = h
    BY <1>0, <1>1, <1>2, <2>2 DEF CountInv
  <2> QED BY <2>1, <2>2
<1>8. DrainInv'
  <2>1. \A x \in SlotIds : Taken(x)' \in Nat /\ Taken(x)' >= Taken(x)
    BY <1>0, <1>3, Lengths
  <2> QED BY <1>1, <2>1, KeepDrain
<1>9. PrintedIsWritten'
  BY <1>0, <1>1 DEF PrintedIsWritten, IsPrefixOf
<1> QED BY <1>4, <1>5, <1>6, <1>7, <1>8, <1>9 DEF CoutInv
(* The character goes where no unread one is. *)
LEMMA StoreInv ==
    ASSUME Alone, CoutInv, NEW h \in Harts, Store(h)
    PROVE  CoutInv'
<1> DEFINE s == SlotOf[h]
           p == Taken(s) % RingSize
<1>0. CoutTypes /\ CountInv /\ RingInv /\ HartInv /\ DrainInv /\ PrintedIsWritten
  BY DEF CoutInv
<1>1. /\ s \in SlotIds /\ hart[h].at = "store"
      /\ data' = [data EXCEPT ![s][hart[h].wr % RingSize] = puts[h]]
      /\ hart' = [hart EXCEPT ![h].at = "publish"]
      /\ UNCHANGED <<wr, rd, lost, puts, accepted, cout_rd, drain, printed>>
  BY OneHart DEF Store, hostVars
<1>2. Taken(s) \in Nat /\ Shown(s) \in Nat
  BY <1>0, <1>1, Lengths
<1>3. hart[h].wr % RingSize = p
  <2>1. hart[h].wr = Taken(s) % Word
    BY <1>0, <1>1 DEF HartInv
  <2>2. ((Taken(s) % Word) + 0) % RingSize = (Taken(s) + 0) % RingSize
    BY <1>2, WordAdd
  <2>3. Taken(s) % Word \in Int
    BY <1>2, Sizes, DivMod
  <2> QED BY <1>2, <2>1, <2>2, <2>3
<1>4. p \in 0 .. RingSize - 1
  BY <1>2, Sizes, DivMod
<1> HIDE DEF p
<1>5. /\ data' = [data EXCEPT ![s] = [data[s] EXCEPT ![p] = puts[h]]]
      /\ hart' = [hart EXCEPT ![h] = [hart[h] EXCEPT !.at = "publish"]]
  BY <1>1, <1>3
<1>6. /\ hart'[h].at = "publish" /\ hart'[h].wr = hart[h].wr
      /\ \A k \in Harts : k # h => hart'[k] = hart[k]
      /\ hart'[h] \in HartType
  <2>1. hart[h] \in HartType /\ hart \in [Harts -> HartType]
    BY <1>0 DEF CoutTypes
  <2>2. hart'[h] = [hart[h] EXCEPT !.at = "publish"]
    BY <1>5, <2>1
  <2> QED BY <1>5, <2>1, <2>2 DEF HartType
<1>7. /\ data[s] \in [0 .. RingSize - 1 -> Nat] /\ data'[s] = [data[s] EXCEPT ![p] = puts[h]]
      /\ \A x \in SlotIds : x # s => data'[x] = data[x]
      /\ puts[h] \in Nat
  BY <1>0, <1>1, <1>5 DEF CoutTypes
<1>8. \A x : Taken(x)' = Taken(x) /\ Shown(x)' = Shown(x)
  BY <1>1 DEF Taken, Shown
<1>9. CoutTypes'
  <2>1. data'[s] \in [0 .. RingSize - 1 -> Nat]
    BY <1>7
  <2>2. data' \in [SlotIds -> [0 .. RingSize - 1 -> Nat]]
    BY <1>0, <1>5, <1>7, <2>1 DEF CoutTypes
  <2>3. hart' \in [Harts -> HartType]
    BY <1>0, <1>5, <1>6 DEF CoutTypes
  <2> QED BY <1>0, <1>1, <2>2, <2>3 DEF CoutTypes
<1>10. CountInv'
  BY <1>0, <1>1, <1>8 DEF CountInv
<1>11. RingInv'
  <2> SUFFICES ASSUME NEW x \in SlotIds PROVE \E r \in 0 .. Shown(x)' : Holds(x, r)'
    BY DEF RingInv
  <2>1. PICK r \in 0 .. Shown(x) : Holds(x, r)
    BY <1>0 DEF RingInv
  <2>2. Writing(x)' <=> Writing(x)
    BY <1>1, <1>6 DEF Writing
  <2>3. ASSUME NEW i \in r + 1 .. Taken(x)
        PROVE  data'[x][(i - 1) % RingSize] = accepted[x][i]
    <3>1. data[x][(i - 1) % RingSize] = accepted[x][i]
      BY <2>1 DEF Holds
    <3>2. CASE x # s
      BY <1>7, <3>1, <3>2
    <3>3. CASE x = s
      <4>1. Writing(s)
        BY <1>1 DEF Writing
      <4>2. Taken(s) - r < RingSize
        BY <2>1, <3>3, <4>1 DEF Holds
      <4>3. i - 1 \in Nat /\ i - 1 < Taken(s) /\ Taken(s) - (i - 1) < RingSize
        BY <1>2, <2>1, <3>3, <4>2, Sizes
      <4>4. (i - 1) % RingSize # p
        BY <1>2, <4>3, Sizes, ModDistinct DEF p
      <4>5. (i - 1) % RingSize \in 0 .. RingSize - 1
        BY <4>3, Sizes, DivMod
      <4> QED BY <1>7, <3>1, <3>3, <4>4, <4>5
    <3> QED BY <3>2, <3>3
  <2>4. Holds(x, r)'
    BY <1>1, <1>8, <2>1, <2>2, <2>3 DEF Holds
  <2> QED BY <1>8, <2>1, <2>4
<1>12. HartInv'
  <2> SUFFICES ASSUME NEW k \in Harts
               PROVE  /\ hart'[k].at \in {"store", "publish"} =>
                           hart'[k].wr = Taken(SlotOf[k]) % Word
                      /\ hart'[k].at = "publish" =>
                           data'[SlotOf[k]][Taken(SlotOf[k]) % RingSize] = puts[k]
    BY <1>1, <1>8 DEF HartInv
  <2>1. CASE k # h
    <3>1. SlotOf[k] # s /\ SlotOf[k] \in SlotIds
      BY <2>1, OneHart
    <3> QED BY <1>0, <1>6, <1>7, <2>1, <3>1 DEF HartInv
  <2>2. CASE k = h
    <3>1. hart[h].wr = Taken(s) % Word
      BY <1>0, <1>1 DEF HartInv
    <3>2. data'[s][p] = puts[h]
      BY <1>4, <1>7
    <3> QED BY <1>6, <2>2, <3>1, <3>2 DEF p
  <2> QED BY <2>1, <2>2
<1>13. DrainInv'
  <2>1. \A x \in SlotIds : Taken(x)' \in Nat /\ Taken(x)' >= Taken(x)
    BY <1>0, <1>8, Lengths
  <2> QED BY <1>1, <2>1, KeepDrain
<1>14. PrintedIsWritten'
  BY <1>0, <1>1 DEF PrintedIsWritten, IsPrefixOf
<1> QED BY <1>9, <1>10, <1>11, <1>12, <1>13, <1>14 DEF CoutInv

LEMMA DropInv ==
    ASSUME Alone, CoutInv, NEW h \in Harts, Drop(h)
    PROVE  CoutInv'
<1>0. CoutTypes /\ CountInv /\ RingInv /\ HartInv /\ DrainInv /\ PrintedIsWritten
  BY DEF CoutInv
<1>1. /\ hart[h].at = "drop"
      /\ hart' = [hart EXCEPT ![h] = [hart[h] EXCEPT !.at = "idle"]]
      /\ lost' = [lost EXCEPT ![SlotOf[h]] = (lost[SlotOf[h]] + 1) % Word]
      /\ UNCHANGED <<wr, rd, data, puts, accepted, cout_rd, drain, printed>>
  BY DEF Drop, hostVars
<1>2. /\ hart'[h].at = "idle" /\ \A k \in Harts : k # h => hart'[k] = hart[k]
      /\ hart'[h] \in HartType
  <2>1. hart[h] \in HartType /\ hart \in [Harts -> HartType]
    BY <1>0 DEF CoutTypes
  <2>2. hart'[h] = [hart[h] EXCEPT !.at = "idle"]
    BY <1>1, <2>1
  <2> QED BY <1>1, <2>1, <2>2 DEF HartType
<1>3. \A x : Taken(x)' = Taken(x) /\ Shown(x)' = Shown(x)
  BY <1>1 DEF Taken, Shown
<1>4. CoutTypes'
  <2>1. hart' \in [Harts -> HartType]
    BY <1>0, <1>1, <1>2 DEF CoutTypes
  <2>2. lost[SlotOf[h]] \in Int
    BY <1>0, OneHart DEF CoutTypes
  <2>3. (lost[SlotOf[h]] + 1) % Word \in Int
    BY <2>2, Sizes, DivMod
  <2>4. lost' \in [SlotIds -> Int]
    BY <1>0, <1>1, <2>3 DEF CoutTypes
  <2> QED BY <1>0, <1>1, <2>1, <2>4 DEF CoutTypes
<1>5. CountInv'
  BY <1>0, <1>1, <1>3 DEF CountInv
<1>6. RingInv'
  <2>1. \A x : Writing(x)' <=> Writing(x)
    BY <1>1, <1>2 DEF Writing
  <2>2. \A x, r : Holds(x, r) => Holds(x, r)'
    BY <1>1, <1>3, <2>1 DEF Holds
  <2> QED BY <1>0, <1>3, <2>2 DEF RingInv
<1>7. HartInv'
  BY <1>0, <1>1, <1>2, <1>3 DEF HartInv
<1>8. DrainInv'
  <2>1. \A x \in SlotIds : Taken(x)' \in Nat /\ Taken(x)' >= Taken(x)
    BY <1>0, <1>3, Lengths
  <2> QED BY <1>1, <2>1, KeepDrain
<1>9. PrintedIsWritten'
  BY <1>0, <1>1 DEF PrintedIsWritten, IsPrefixOf
<1> QED BY <1>4, <1>5, <1>6, <1>7, <1>8, <1>9 DEF CoutInv

LEMMA PublishWrInv ==
    ASSUME Alone, CoutInv, NEW h \in Harts, PublishWr(h)
    PROVE  CoutInv'
<1> DEFINE s == SlotOf[h]
<1>0. CoutTypes /\ CountInv /\ RingInv /\ HartInv /\ DrainInv /\ PrintedIsWritten
  BY DEF CoutInv
<1>1. /\ s \in SlotIds /\ hart[h].at = "publish"
      /\ wr' = [wr EXCEPT ![s] = (hart[h].wr + 1) % Word]
      /\ hart' = [hart EXCEPT ![h] = [hart[h] EXCEPT !.at = "idle"]]
      /\ accepted' = [accepted EXCEPT ![s] = Append(accepted[s], puts[h])]
      /\ UNCHANGED <<rd, lost, data, puts, cout_rd, drain, printed>>
  BY OneHart DEF PublishWr, hostVars
<1>2. Taken(s) \in Nat /\ Shown(s) \in Nat /\ accepted[s] \in Seq(Nat) /\ puts[h] \in Nat
  BY <1>0, <1>1, Lengths DEF CoutTypes
<1>3. /\ hart'[h].at = "idle" /\ \A k \in Harts : k # h => hart'[k] = hart[k]
      /\ hart'[h] \in HartType
  <2>1. hart[h] \in HartType /\ hart \in [Harts -> HartType]
    BY <1>0 DEF CoutTypes
  <2>2. hart'[h] = [hart[h] EXCEPT !.at = "idle"]
    BY <1>1, <2>1
  <2> QED BY <1>1, <2>1, <2>2 DEF HartType
<1>4. accepted'[s] = Append(accepted[s], puts[h]) /\ \A x \in SlotIds : x # s => accepted'[x] = accepted[x]
  BY <1>0, <1>1 DEF CoutTypes
<1>5. /\ accepted'[s] \in Seq(Nat) /\ Taken(s)' = Taken(s) + 1
      /\ accepted'[s][Taken(s) + 1] = puts[h]
      /\ \A i \in 1 .. Taken(s) : accepted'[s][i] = accepted[s][i]
  BY <1>2, <1>4 DEF Taken
<1>6. (\A x \in SlotIds : x # s => Taken(x)' = Taken(x)) /\ \A x : Shown(x)' = Shown(x)
  BY <1>1, <1>4 DEF Taken, Shown
<1>7. (hart[h].wr + 1) % Word = (Taken(s) + 1) % Word
  <2>1. hart[h].wr = Taken(s) % Word
    BY <1>0, <1>1 DEF HartInv
  <2>2. ((Taken(s) % Word) + 1) % Word = (Taken(s) + 1) % Word
    BY <1>2, WordAdd
  <2> QED BY <2>1, <2>2
<1>8. CoutTypes'
  <2>1. hart' \in [Harts -> HartType]
    BY <1>0, <1>1, <1>3 DEF CoutTypes
  <2>2. (hart[h].wr + 1) % Word \in Int
    BY <1>2, <1>7, Sizes, DivMod
  <2>3. wr' \in [SlotIds -> Int]
    BY <1>0, <1>1, <2>2 DEF CoutTypes
  <2>4. accepted' \in [SlotIds -> Seq(Nat)]
    BY <1>0, <1>1, <1>4, <1>5 DEF CoutTypes
  <2> QED BY <1>0, <1>1, <2>1, <2>3, <2>4 DEF CoutTypes
<1>9. CountInv'
  <2> SUFFICES ASSUME NEW x \in SlotIds
               PROVE  wr'[x] = Taken(x)' % Word /\ cout_rd'[x] = Shown(x)' % Word
    BY DEF CountInv
  <2>1. cout_rd'[x] = Shown(x)' % Word
    BY <1>0, <1>1, <1>6 DEF CountInv
  <2>2. CASE x = s
    BY <1>0, <1>1, <1>5, <1>7, <2>1, <2>2 DEF CoutTypes
  <2>3. CASE x # s
    BY <1>0, <1>1, <1>6, <2>1, <2>3 DEF CoutTypes, CountInv
  <2> QED BY <2>2, <2>3
<1>10. RingInv'
  <2> SUFFICES ASSUME NEW x \in SlotIds PROVE \E r \in 0 .. Shown(x)' : Holds(x, r)'
    BY DEF RingInv
  <2>1. PICK r \in 0 .. Shown(x) : Holds(x, r)
    BY <1>0 DEF RingInv
  <2>2. CASE x # s
    <3>1. Writing(x)' => Writing(x)
      BY <1>3, <2>2 DEF Writing
    <3>2. Holds(x, r)'
      BY <1>1, <1>4, <1>6, <2>1, <2>2, <3>1 DEF Holds
    <3> QED BY <1>6, <2>1, <3>2
  <2>3. CASE x = s
    <3>1. ~Writing(s)'
      BY <1>3, OneHart DEF Writing
    <3>2. Writing(s)
      BY <1>1 DEF Writing
    <3>3. r \in Nat /\ Taken(s) - r < RingSize /\ rd[s] = r % Word
      BY <2>1, <2>3, <3>2, <1>2 DEF Holds
    <3>4. Taken(s)' - r <= RingSize
      BY <1>2, <1>5, <3>3, Sizes
    <3>5. ASSUME NEW i \in r + 1 .. Taken(s) + 1
          PROVE  data[s][(i - 1) % RingSize] = accepted'[s][i]
      <4>1. CASE i = Taken(s) + 1
        <5>1. data[s][Taken(s) % RingSize] = puts[h]
          BY <1>0, <1>1 DEF HartInv
        <5>2. i - 1 = Taken(s)
          BY <1>2, <4>1
        <5> QED BY <1>5, <4>1, <5>1, <5>2
      <4>2. CASE i # Taken(s) + 1
        <5>1. i \in r + 1 .. Taken(s) /\ i \in 1 .. Taken(s)
          BY <1>2, <3>3, <4>2
        <5>2. data[s][(i - 1) % RingSize] = accepted[s][i]
          BY <2>1, <2>3, <5>1 DEF Holds
        <5> QED BY <1>5, <5>1, <5>2
      <4> QED BY <4>1, <4>2
    <3>6. Holds(s, r)'
      BY <1>1, <1>5, <3>1, <3>3, <3>4, <3>5 DEF Holds
    <3> QED BY <1>6, <2>1, <2>3, <3>6
  <2> QED BY <2>2, <2>3
<1>11. HartInv'
  <2> SUFFICES ASSUME NEW k \in Harts
               PROVE  /\ hart'[k].at \in {"store", "publish"} =>
                           hart'[k].wr = Taken(SlotOf[k])' % Word
                      /\ hart'[k].at = "publish" =>
                           data[SlotOf[k]][Taken(SlotOf[k])' % RingSize] = puts[k]
    BY <1>1 DEF HartInv
  <2>1. CASE k # h
    <3>1. SlotOf[k] # s /\ SlotOf[k] \in SlotIds
      BY <2>1, OneHart
    <3> QED BY <1>0, <1>3, <1>6, <2>1, <3>1 DEF HartInv
  <2>2. CASE k = h
    BY <1>3, <2>2
  <2> QED BY <2>1, <2>2
<1>12. DrainInv'
  <2>1. ASSUME NEW x \in SlotIds PROVE Taken(x)' \in Nat /\ Taken(x)' >= Taken(x)
    <3>1. Taken(x) \in Nat
      BY <1>0, Lengths
    <3> QED BY <1>5, <1>6, <3>1
  <2> QED BY <1>1, <2>1, KeepDrain
<1>13. PrintedIsWritten'
  <2> SUFFICES ASSUME NEW x \in SlotIds PROVE IsPrefixOf(printed[x], accepted'[x])
    BY <1>1 DEF PrintedIsWritten
  <2>1. Len(printed[x]) <= Len(accepted[x]) /\ \A i \in DOMAIN printed[x] : printed[x][i] = accepted[x][i]
    BY <1>0 DEF PrintedIsWritten, IsPrefixOf
  <2>2. CASE x # s
    BY <1>4, <2>1, <2>2 DEF IsPrefixOf
  <2>3. CASE x = s
    <3>1. DOMAIN printed[s] = 1 .. Shown(s) /\ Shown(s) <= Taken(s)
      BY <1>0, <1>1, <2>1, <2>3, Lengths DEF Taken, Shown
    <3>2. ASSUME NEW i \in 1 .. Shown(s) PROVE printed[s][i] = accepted'[s][i]
      <4>1. i \in 1 .. Taken(s)
        BY <1>2, <3>1
      <4>2. printed[s][i] = accepted[s][i]
        BY <2>1, <2>3, <3>1
      <4> QED BY <1>5, <4>1, <4>2
    <3>3. Len(printed[s]) <= Len(accepted'[s])
      BY <1>2, <1>5, <3>1 DEF Taken, Shown
    <3> QED BY <2>3, <3>1, <3>2, <3>3 DEF IsPrefixOf
  <2> QED BY <2>2, <2>3
<1> QED BY <1>8, <1>9, <1>10, <1>11, <1>12, <1>13 DEF CoutInv
(* The parts of a drain that the invariant speaks of, for the one drainer. *)
LEMMA DrainParts ==
    ASSUME Alone, NEW d \in Drainers,
           drain'[d].at # "idle" =>
             /\ \A s \in SlotIds : \E w \in Shown(s)' .. Taken(s)' : drain'[d].wr[s] = w % Word
             /\ drain'[d].at = "data" =>
                  drain'[d].left # {} /\ drain'[d].rd = cout_rd'[Current(d)']
    PROVE  DrainInv'
<1> SUFFICES ASSUME NEW e \in Drainers, drain'[e].at # "idle"
             PROVE  /\ \A s \in SlotIds : \E w \in Shown(s)' .. Taken(s)' : drain'[e].wr[s] = w % Word
                    /\ drain'[e].at = "data" =>
                         drain'[e].left # {} /\ drain'[e].rd = cout_rd'[Current(e)']
  BY DEF DrainInv
<1>1. e = d
  BY DEF Alone
<1> QED BY <1>1

(* drain_cout begins, goes on to the counters of lost characters, gives up. *)
LEMMA ReadWrInv ==
    ASSUME Alone, CoutInv, NEW d \in Drainers, ReadWr(d) \/ ReadLost(d) \/ TransferFails(d)
    PROVE  CoutInv'
<1>0. CoutTypes /\ CountInv /\ RingInv /\ HartInv /\ DrainInv /\ PrintedIsWritten
  BY DEF CoutInv
<1>1. /\ UNCHANGED <<wr, rd, lost, data, hart, puts, accepted, cout_rd, printed>>
      /\ drain \in [Drainers -> DrainType] /\ drain[d] \in DrainType
      /\ wr \in [SlotIds -> Int] /\ lost \in [SlotIds -> Int]
  BY <1>0 DEF ReadWr, ReadLost, TransferFails, ringVars, kernelVars, CoutTypes
<1>2. NoDrain \in DrainType /\ NoDrain.at = "idle"
  BY DEF NoDrain, DrainType
<1>3. \A x \in SlotIds : /\ Taken(x)' = Taken(x) /\ Shown(x)' = Shown(x)
                         /\ Taken(x) \in Nat /\ Shown(x) \in Nat /\ Shown(x) <= Taken(x)
  <2>1. \A x : Taken(x)' = Taken(x) /\ Shown(x)' = Shown(x)
    BY <1>1 DEF Taken, Shown
  <2>2. ASSUME NEW x \in SlotIds PROVE Taken(x) \in Nat /\ Shown(x) \in Nat /\ Shown(x) <= Taken(x)
    BY <1>0, Lengths DEF PrintedIsWritten, IsPrefixOf, Taken, Shown
  <2> QED BY <2>1, <2>2
<1>4. drain' \in [Drainers -> DrainType] /\ DrainInv'
  <2>1. CASE ReadWr(d)
    <3> DEFINE r == [NoDrain EXCEPT !.at = "lost", !.wr = wr]
    <3>1. r \in DrainType /\ r.at = "lost" /\ r.wr = wr
      BY <1>1, <1>2 DEF DrainType
    <3>2. drain' = [drain EXCEPT ![d] = r]
      BY <2>1 DEF ReadWr
    <3> HIDE DEF r
    <3>3. drain' \in [Drainers -> DrainType] /\ drain'[d] = r
      BY <1>1, <3>1, <3>2
    <3>4. ASSUME NEW s \in SlotIds
          PROVE  \E w \in Shown(s)' .. Taken(s)' : drain'[d].wr[s] = w % Word
      <4>1. Taken(s) \in Shown(s)' .. Taken(s)'
        BY <1>3
      <4>2. drain'[d].wr[s] = Taken(s) % Word
        BY <1>0, <3>1, <3>3 DEF CountInv
      <4> QED BY <4>1, <4>2
    <3>5. drain'[d].at # "data"
      BY <3>1, <3>3
    <3> QED BY <3>3, <3>4, <3>5, DrainParts
  <2>2. CASE ReadLost(d)
    <3> DEFINE r == [drain[d] EXCEPT !.at = "slots", !.lost = lost, !.left = SlotIds]
    <3>1. r \in DrainType /\ r.at = "slots" /\ r.wr = drain[d].wr
      BY <1>1 DEF DrainType
    <3>2. drain' = [drain EXCEPT ![d] = r] /\ drain[d].at = "lost"
      BY <2>2 DEF ReadLost
    <3> HIDE DEF r
    <3>3. drain' \in [Drainers -> DrainType] /\ drain'[d] = r
      BY <1>1, <3>1, <3>2
    <3>4. ASSUME NEW s \in SlotIds
          PROVE  \E w \in Shown(s)' .. Taken(s)' : drain'[d].wr[s] = w % Word
      <4>1. PICK w \in Shown(s) .. Taken(s) : drain[d].wr[s] = w % Word
        BY <1>0, <3>2 DEF DrainInv
      <4> QED BY <1>3, <3>1, <3>3, <4>1
    <3>5. drain'[d].at # "data"
      BY <3>1, <3>3
    <3> QED BY <3>3, <3>4, <3>5, DrainParts
  <2>3. CASE TransferFails(d)
    <3>1. drain' = [drain EXCEPT ![d] = NoDrain]
      BY <2>3 DEF TransferFails
    <3>2. drain' \in [Drainers -> DrainType] /\ drain'[d] = NoDrain
      BY <1>1, <1>2, <3>1
    <3> QED BY <1>2, <3>2, DrainParts
  <2> QED BY <2>1, <2>2, <2>3
<1>5. CoutTypes'
  BY <1>0, <1>1, <1>4 DEF CoutTypes
<1>6. CountInv' /\ RingInv' /\ HartInv' /\ PrintedIsWritten'
  BY <1>1, KeepRing
<1> QED BY <1>4, <1>5, <1>6 DEF CoutInv

(* drain_cout takes the slots in order: there is a next one. *)
LEMMA CurrentLeft ==
    ASSUME CoutTypes, NEW d \in Drainers, drain[d].left # {}
    PROVE  Current(d) \in drain[d].left /\ Current(d) \in SlotIds
<1> DEFINE T == drain[d].left
           R == OpToRel(<, Nat)
<1>1. T \subseteq SlotIds
  BY DEF CoutTypes, DrainType
<1>2. SlotIds \subseteq Nat
  BY CoutAssumption DEF SlotIds
<1>3. IsWellFoundedOn(R, Nat)
  BY NatLessThanWellFounded
<1>4. \A x, y \in Nat : <<y, x>> \in R <=> y < x
  BY DEF OpToRel
<1> HIDE DEF R
<1>5. \E x \in T : \A y \in T : ~ (<<y, x>> \in R)
  BY <1>1, <1>2, <1>3, WFMin
<1>6. \E x \in T : \A y \in T : x <= y
  <2>1. PICK x \in T : \A y \in T : ~ (<<y, x>> \in R)
    BY <1>5
  <2>2. ASSUME NEW y \in T PROVE x <= y
    <3>1. x \in Nat /\ y \in Nat /\ ~ (<<y, x>> \in R)
      BY <1>1, <1>2, <2>1
    <3>2. ~ (y < x)
      BY <1>4, <3>1
    <3> QED BY <3>1, <3>2
  <2> QED BY <2>2
<1> QED BY <1>1, <1>6 DEF Current

LEMMA NextSlotInv ==
    ASSUME Alone, CoutInv, NEW d \in Drainers, NextSlot(d)
    PROVE  CoutInv'
<1> DEFINE s == Current(d)
           new == drain[d].wr[s] # cout_rd[s]
           r == [drain[d] EXCEPT !.at = IF new THEN "data" ELSE "slots", !.rd = cout_rd[s],
                                 !.left = IF new THEN drain[d].left ELSE drain[d].left \ {s}]
<1>0. CoutTypes /\ CountInv /\ RingInv /\ HartInv /\ DrainInv /\ PrintedIsWritten
  BY DEF CoutInv
<1>1. /\ UNCHANGED <<wr, rd, lost, data, hart, puts, accepted, cout_rd, printed>>
      /\ drain[d].at = "slots" /\ drain[d].left # {}
      /\ drain' = [drain EXCEPT ![d] = r]
  BY DEF NextSlot, ringVars, kernelVars
<1>2. s \in SlotIds
  BY <1>0, <1>1, CurrentLeft
<1>3. /\ drain \in [Drainers -> DrainType] /\ drain[d] \in DrainType /\ cout_rd[s] \in Int
  BY <1>0, <1>2 DEF CoutTypes
<1>4. /\ r \in DrainType /\ r.wr = drain[d].wr /\ r.rd = cout_rd[s]
      /\ r.at = "data" => r.left = drain[d].left
  BY <1>3 DEF DrainType
<1> HIDE DEF r
<1>5. drain' \in [Drainers -> DrainType] /\ drain'[d] = r
  BY <1>1, <1>3, <1>4
<1>6. \A x : Taken(x)' = Taken(x) /\ Shown(x)' = Shown(x)
  BY <1>1 DEF Taken, Shown
<1>7. DrainInv'
  <2>1. ASSUME NEW x \in SlotIds
        PROVE  \E w \in Shown(x)' .. Taken(x)' : drain'[d].wr[x] = w % Word
    <3>1. PICK w \in Shown(x) .. Taken(x) : drain[d].wr[x] = w % Word
      BY <1>0, <1>1 DEF DrainInv
    <3> QED BY <1>4, <1>5, <1>6, <3>1
  <2>2. drain'[d].at = "data" => drain'[d].left # {} /\ drain'[d].rd = cout_rd'[Current(d)']
    <3> SUFFICES ASSUME drain'[d].at = "data"
                 PROVE  drain'[d].left # {} /\ drain'[d].rd = cout_rd'[Current(d)']
      OBVIOUS
    <3>1. drain'[d].left = drain[d].left
      BY <1>4, <1>5
    <3>2. Current(d)' = s
      BY <3>1 DEF Current
    <3> QED BY <1>1, <1>4, <1>5, <3>2
  <2> QED BY <2>1, <2>2, DrainParts
<1>8. CoutTypes'
  BY <1>0, <1>1, <1>5 DEF CoutTypes
<1>9. CountInv' /\ RingInv' /\ HartInv' /\ PrintedIsWritten'
  BY <1>1, KeepRing
<1> QED BY <1>7, <1>8, <1>9 DEF CoutInv

(* The characters read are the ones published after those printed.         *)
LEMMA NewCharsAre ==
    ASSUME CoutInv, NEW s \in SlotIds, NEW w \in Shown(s) .. Taken(s)
    PROVE  LET c == NewChars(s, cout_rd[s], w % Word)
           IN  /\ c \in Seq(Nat) /\ Len(c) = w - Shown(s)
               /\ \A i \in 1 .. w - Shown(s) : c[i] = accepted[s][Shown(s) + i]
<1>0. CoutTypes /\ CountInv /\ RingInv
  BY DEF CoutInv
<1>1. Taken(s) \in Nat /\ Shown(s) \in Nat /\ accepted[s] \in Seq(Nat) /\ cout_rd[s] = Shown(s) % Word
  BY <1>0, Lengths DEF CountInv
<1>2. PICK r \in 0 .. Shown(s) : Holds(s, r)
  BY <1>0 DEF RingInv
<1> DEFINE m == w - Shown(s)
<1>3. m \in Nat /\ m <= RingSize /\ w \in Nat /\ Shown(s) <= w /\ m < Word
  BY <1>1, <1>2, Sizes DEF Holds
<1>4. ((w % Word) - (Shown(s) % Word)) % Word = m
  BY <1>1, <1>3, WordDiff
<1> DEFINE c == [i \in 1 .. m |-> data[s][((Shown(s) % Word) + (i - 1)) % RingSize]]
<1>5. NewChars(s, cout_rd[s], w % Word) = c
  BY <1>1, <1>3, <1>4, Sizes DEF NewChars
<1>6. ASSUME NEW i \in 1 .. m
      PROVE  data[s][((Shown(s) % Word) + (i - 1)) % RingSize] = accepted[s][Shown(s) + i]
  <2>1. i - 1 \in Int /\ Shown(s) % Word \in Int
    BY <1>1, Sizes, DivMod
  <2>2. ((Shown(s) % Word) + (i - 1)) % RingSize = (Shown(s) + (i - 1)) % RingSize
    BY <1>1, <2>1, WordAdd
  <2>3. (Shown(s) + i) - 1 = Shown(s) + (i - 1)
    BY <1>1, <1>3
  <2>4. Shown(s) + i \in r + 1 .. Taken(s)
    BY <1>1, <1>2, <1>3
  <2>5. data[s][((Shown(s) + i) - 1) % RingSize] = accepted[s][Shown(s) + i]
    BY <1>2, <2>4 DEF Holds
  <2> QED BY <2>2, <2>3, <2>5
<1>7. \A i \in 1 .. m : c[i] = accepted[s][Shown(s) + i]
  BY <1>6
<1>8. ASSUME NEW i \in 1 .. m PROVE accepted[s][Shown(s) + i] \in Nat
  <2>1. Shown(s) + i \in 1 .. Taken(s)
    BY <1>1, <1>3
  <2>2. PICK q : q = accepted[s]
    OBVIOUS
  <2>3. q \in Seq(Nat) /\ Shown(s) + i \in 1 .. Len(q)
    BY <1>1, <2>1, <2>2 DEF Taken
  <2>4. q[Shown(s) + i] \in Nat
    BY <2>3, ElementOfSeq
  <2> QED BY <2>2, <2>4
<1>9. c \in [1 .. m -> Nat]
  BY <1>6, <1>8
<1> HIDE DEF c, m
<1>10. c \in Seq(Nat) /\ Len(c) = m
  BY <1>3, <1>9
<1> QED BY <1>5, <1>7, <1>10 DEF m
LEMMA ReadDataInv ==
    ASSUME Alone, CoutInv, NEW d \in Drainers, ReadData(d)
    PROVE  CoutInv'
<1>0. CoutTypes /\ CountInv /\ RingInv /\ HartInv /\ DrainInv /\ PrintedIsWritten
  BY DEF CoutInv
<1>2. PICK s \in SlotIds : s = Current(d)
  <2>1. drain[d].left # {}
    BY <1>0 DEF DrainInv, ReadData
  <2> QED BY <1>0, <2>1, CurrentLeft
<1> DEFINE c == NewChars(s, drain[d].rd, drain[d].wr[s])
           r == [drain[d] EXCEPT !.at = "slots", !.left = drain[d].left \ {s}, !.advanced = TRUE]
<1>1. /\ UNCHANGED <<wr, rd, lost, data, hart, puts, accepted>> /\ drain[d].at = "data"
      /\ printed' = [printed EXCEPT ![s] = printed[s] \o c]
      /\ cout_rd' = [cout_rd EXCEPT ![s] = drain[d].wr[s]]
      /\ drain' = [drain EXCEPT ![d] = r]
  BY <1>2 DEF ReadData, ringVars, kernelVars
<1>3. drain[d].rd = cout_rd[s]
  BY <1>0, <1>1, <1>2 DEF DrainInv
<1>4. PICK w \in Shown(s) .. Taken(s) : drain[d].wr[s] = w % Word
  BY <1>0, <1>1, <1>2 DEF DrainInv
<1>5. /\ Taken(s) \in Nat /\ Shown(s) \in Nat /\ w \in Nat /\ w <= Taken(s) /\ Shown(s) <= w
      /\ printed[s] \in Seq(Nat) /\ DOMAIN printed[s] = 1 .. Shown(s)
  BY <1>0, <1>2, <1>4, Lengths
<1>6. /\ c \in Seq(Nat) /\ Len(c) = w - Shown(s)
      /\ \A i \in 1 .. w - Shown(s) : c[i] = accepted[s][Shown(s) + i]
  BY <1>2, <1>3, <1>4, NewCharsAre
<1> HIDE DEF c
<1>7. /\ drain[d] \in DrainType /\ drain \in [Drainers -> DrainType] /\ cout_rd \in [SlotIds -> Int]
      /\ printed \in [SlotIds -> Seq(Nat)] /\ drain[d].wr[s] \in Int
  BY <1>0, <1>2 DEF CoutTypes, DrainType
<1>8. r \in DrainType /\ r.wr = drain[d].wr /\ r.at = "slots"
  BY <1>7 DEF DrainType
<1> HIDE DEF r
<1>9. drain' \in [Drainers -> DrainType] /\ drain'[d] = r /\ cout_rd' \in [SlotIds -> Int]
  BY <1>1, <1>7, <1>8
<1>10. printed'[s] = printed[s] \o c /\ \A x \in SlotIds : x # s => printed'[x] = printed[x]
  BY <1>1, <1>2, <1>7
<1>11. printed'[s] \in Seq(Nat) /\ Len(printed'[s]) = w
  <2>1. Len(printed[s] \o c) = Len(printed[s]) + Len(c) /\ printed[s] \o c \in Seq(Nat)
    BY <1>5, <1>6, ConcatProperties
  <2> QED BY <1>5, <1>6, <1>10, <2>1 DEF Shown
<1>12. /\ \A x \in SlotIds : Taken(x)' = Taken(x)
       /\ Shown(s)' = w /\ \A x \in SlotIds : x # s => Shown(x)' = Shown(x)
  BY <1>1, <1>10, <1>11 DEF Taken, Shown
<1>13. CoutTypes'
  <2>1. printed' \in [SlotIds -> Seq(Nat)]
    BY <1>1, <1>7, <1>10, <1>11
  <2> QED BY <1>0, <1>1, <1>9, <2>1 DEF CoutTypes
<1>14. CountInv'
  <2> SUFFICES ASSUME NEW x \in SlotIds
               PROVE  wr'[x] = Taken(x)' % Word /\ cout_rd'[x] = Shown(x)' % Word
    BY DEF CountInv
  <2>1. wr'[x] = Taken(x)' % Word
    BY <1>0, <1>1, <1>12 DEF CountInv
  <2>2. CASE x = s
    BY <1>1, <1>4, <1>7, <1>12, <2>1, <2>2
  <2>3. CASE x # s
    BY <1>0, <1>1, <1>7, <1>12, <2>1, <2>3 DEF CountInv
  <2> QED BY <2>2, <2>3
<1>15. RingInv'
  <2> SUFFICES ASSUME NEW x \in SlotIds PROVE \E q \in 0 .. Shown(x)' : Holds(x, q)'
    BY DEF RingInv
  <2>1. PICK q \in 0 .. Shown(x) : Holds(x, q)
    BY <1>0 DEF RingInv
  <2>2. Holds(x, q)'
    BY <1>1, <1>12, <2>1 DEF Holds, Writing
  <2>3. q \in 0 .. Shown(x)'
    BY <1>5, <1>12, <2>1
  <2> QED BY <2>2, <2>3
<1>16. HartInv'
  <2>1. \A h \in Harts : Taken(SlotOf[h])' = Taken(SlotOf[h])
    BY <1>12 DEF SlotIds
  <2> QED BY <1>0, <1>1, <2>1 DEF HartInv
<1>17. DrainInv'
  <2>1. ASSUME NEW x \in SlotIds
        PROVE  \E v \in Shown(x)' .. Taken(x)' : drain'[d].wr[x] = v % Word
    <3>1. CASE x = s
      BY <1>4, <1>5, <1>8, <1>9, <1>12, <3>1
    <3>2. CASE x # s
      <4>1. PICK v \in Shown(x) .. Taken(x) : drain[d].wr[x] = v % Word
        BY <1>0, <1>1 DEF DrainInv
      <4> QED BY <1>8, <1>9, <1>12, <3>2, <4>1
    <3> QED BY <3>1, <3>2
  <2>2. drain'[d].at # "data"
    BY <1>8, <1>9
  <2> QED BY <2>1, <2>2, DrainParts
<1>18. PrintedIsWritten'
  <2> SUFFICES ASSUME NEW x \in SlotIds PROVE IsPrefixOf(printed'[x], accepted[x])
    BY <1>1 DEF PrintedIsWritten
  <2>1. Len(printed[x]) <= Len(accepted[x]) /\ \A i \in DOMAIN printed[x] : printed[x][i] = accepted[x][i]
    BY <1>0 DEF PrintedIsWritten, IsPrefixOf
  <2>2. CASE x # s
    BY <1>10, <2>1, <2>2 DEF IsPrefixOf
  <2>3. CASE x = s
    <3>1. DOMAIN printed'[s] = 1 .. w
      BY <1>11
    <3>2. ASSUME NEW i \in 1 .. w PROVE printed'[s][i] = accepted[s][i]
      <4>1. CASE i \in 1 .. Shown(s)
        <5>1. printed'[s][i] = printed[s][i]
          BY <1>5, <1>6, <1>10, <4>1 DEF Shown
        <5> QED BY <1>5, <2>1, <2>3, <4>1, <5>1
      <4>2. CASE ~(i \in 1 .. Shown(s))
        <5>1. /\ i - Shown(s) \in 1 .. w - Shown(s) /\ Shown(s) + (i - Shown(s)) = i
              /\ i > Shown(s)
          BY <1>5, <4>2
        <5>2. printed'[s][i] = c[i - Shown(s)]
          BY <1>5, <1>6, <1>10, <5>1 DEF Shown
        <5> QED BY <1>6, <5>1, <5>2
      <4> QED BY <4>1, <4>2
    <3>3. Len(printed'[s]) <= Len(accepted[s])
      BY <1>5, <1>11 DEF Taken
    <3> QED BY <2>3, <3>1, <3>2, <3>3 DEF IsPrefixOf
  <2> QED BY <2>2, <2>3
<1> QED BY <1>13, <1>14, <1>15, <1>16, <1>17, <1>18 DEF CoutInv

(* Publishing rd gives back room, never too much. *)
LEMMA PublishRdInv ==
    ASSUME Alone, CoutInv, NEW d \in Drainers, PublishRd(d)
    PROVE  CoutInv'
<1>0. CoutTypes /\ CountInv /\ RingInv /\ HartInv /\ DrainInv /\ PrintedIsWritten
  BY DEF CoutInv
<1>1. /\ UNCHANGED <<wr, lost, data, hart, puts, accepted, cout_rd, printed>>
      /\ rd' = rd \/ rd' = cout_rd
      /\ drain' = [drain EXCEPT ![d] = NoDrain]
  BY DEF PublishRd, kernelVars
<1>2. NoDrain \in DrainType /\ NoDrain.at = "idle"
  BY DEF NoDrain, DrainType
<1>3. drain' \in [Drainers -> DrainType] /\ drain'[d] = NoDrain
  BY <1>0, <1>1, <1>2 DEF CoutTypes
<1>4. \A x : Taken(x)' = Taken(x) /\ Shown(x)' = Shown(x) /\ (Writing(x)' <=> Writing(x))
  BY <1>1 DEF Taken, Shown, Writing
<1>5. CoutTypes'
  BY <1>0, <1>1, <1>3 DEF CoutTypes
<1>6. CountInv' /\ HartInv' /\ PrintedIsWritten'
  BY <1>0, <1>1, <1>4 DEF CountInv, HartInv, PrintedIsWritten, IsPrefixOf
<1>7. DrainInv'
  BY <1>2, <1>3, DrainParts
<1>8. RingInv'
  <2> SUFFICES ASSUME NEW x \in SlotIds PROVE \E r \in 0 .. Shown(x)' : Holds(x, r)'
    BY DEF RingInv
  <2>1. PICK r \in 0 .. Shown(x) : Holds(x, r)
    BY <1>0 DEF RingInv
  <2>2. CASE rd' = rd
    <3>1. Holds(x, r)'
      BY <1>1, <1>4, <2>1, <2>2 DEF Holds
    <3> QED BY <1>4, <2>1, <3>1
  <2>3. CASE rd' = cout_rd
    <3>1. Taken(x) \in Nat /\ Shown(x) \in Nat
      BY <1>0, Lengths
    <3>2. rd'[x] = Shown(x) % Word
      BY <1>0, <2>3 DEF CountInv
    <3>3. /\ Taken(x) - Shown(x) <= RingSize
          /\ Writing(x) => Taken(x) - Shown(x) < RingSize
      BY <2>1, <3>1, Sizes DEF Holds
    <3>4. \A i \in Shown(x) + 1 .. Taken(x) : i \in r + 1 .. Taken(x)
      BY <2>1, <3>1
    <3>5. \A i \in Shown(x) + 1 .. Taken(x) : data[x][(i - 1) % RingSize] = accepted[x][i]
      BY <2>1, <3>4 DEF Holds
    <3>6. Holds(x, Shown(x))'
      BY <1>1, <1>4, <3>2, <3>3, <3>5 DEF Holds
    <3>7. Shown(x) \in 0 .. Shown(x)'
      BY <1>4, <3>1
    <3>8. \A q : q = Shown(x) => Holds(x, q)'
      BY <1>1, <1>4, <3>2, <3>3, <3>5 DEF Holds
    <3> QED BY <3>7, <3>8
  <2> QED BY <1>1, <2>2, <2>3
<1> QED BY <1>5, <1>6, <1>7, <1>8 DEF CoutInv
LEMMA CoutNextInv ==
    ASSUME Alone, CoutInv, [CoutNext]_coutVars
    PROVE  CoutInv'
<1>1. ASSUME NEW h \in Harts, HartStep(h) PROVE CoutInv'
  BY <1>1, PutcharInv, StoreInv, PublishWrInv, DropInv DEF HartStep
<1>2. ASSUME NEW d \in Drainers, DrainStep(d) \/ TransferFails(d) PROVE CoutInv'
  BY <1>2, ReadWrInv, NextSlotInv, ReadDataInv, PublishRdInv DEF DrainStep
<1>3. CASE UNCHANGED coutVars
  <2>1. UNCHANGED <<wr, rd, lost, data, hart, puts, accepted, cout_rd, drain, printed>>
    BY <1>3 DEF coutVars, ringVars, kernelVars, hostVars
  <2>2. CountInv' /\ RingInv' /\ HartInv' /\ PrintedIsWritten'
    BY <2>1, KeepRing
  <2>3. CoutTypes'
    BY <2>1 DEF CoutInv, CoutTypes
  <2>4. DrainInv'
    BY <2>1 DEF CoutInv, DrainInv, Taken, Shown, Current
  <2> QED BY <2>2, <2>3, <2>4 DEF CoutInv
<1> QED BY <1>1, <1>2, <1>3 DEF CoutNext

(***************************************************************************)
(* With a ring per hart and one queue draining, drain_cout prints of each  *)
(* ring what vx_putchar published, in order and once, for every ring size  *)
(* and width of the counters, whatever the interleaving and whichever      *)
(* transfers fail: the rd it publishes never lets a hart overwrite what it *)
(* has yet to read.                                                        *)
(***************************************************************************)
THEOREM PrintsWhatIsWritten ==
    ASSUME Alone
    PROVE  CoutSpec => []PrintedIsWritten
<1>1. CoutInit => CoutInv
  BY CoutInitInv
<1>2. CoutInv /\ [CoutNext]_coutVars => CoutInv'
  BY CoutNextInv
<1>3. CoutInv => PrintedIsWritten
  BY DEF CoutInv
<1> QED BY <1>1, <1>2, <1>3, PTL DEF CoutSpec
=============================================================================

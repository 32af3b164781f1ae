------------------------------ MODULE CoutRing ------------------------------
(***************************************************************************)
(* The console: a lossy ring of characters per hart in device memory,      *)
(* written by vx_putchar (sw/kernel/src/vx_print.S) and read out by        *)
(* Device::drain_cout (device.cpp) after a launch, while kernels of other  *)
(* queues may be printing.                                                 *)
(*                                                                         *)
(* Every access to device memory is a step of its own.  A character is the *)
(* number of the vx_putchar call, so that printing is visible as a         *)
(* sequence of numbers; assembling lines is left out.                      *)
(***************************************************************************)
EXTENDS Integers, Sequences, FiniteSets

CONSTANTS
    Harts,      \* the harts that print
    SlotOf,     \* SlotOf[h]: MHARTID modulo the number of slots
    RingSize,   \* VX_MEM_IO_COUT_RING, a power of two
    Word,       \* 2^32: the counters wrap
    Drainers,   \* the queue workers that drain
    MaxPuts,    \* MaxPuts[h]: bound on the vx_putchar calls of hart h
    MaxFaults   \* bound on the device transfers that fail

SlotIds == {SlotOf[h] : h \in Harts}
WordType == 0 .. Word - 1

ASSUME CoutAssumption ==
    /\ RingSize \in Nat \ {0} /\ Word \in Nat /\ Word % RingSize = 0 /\ Word > RingSize
    /\ SlotOf \in [Harts -> Nat] /\ MaxPuts \in [Harts -> Nat] /\ MaxFaults \in Nat

VARIABLES
    wr, rd, lost,   \* the counters of each slot in device memory
    data,           \* data[s]: the ring
    hart,           \* hart[h]: a vx_putchar in progress
    puts,           \* vx_putchar calls of each hart
    cout_rd,        \* cout_rd_: the host's copy of rd
    lost_seen,      \* cout_lost_seen_
    drain,          \* drain[d]: a drain_cout in progress
    faults,         \* transfers that have failed
    accepted,       \* history: the characters published in each slot, in order
    dropped,        \* history: the characters dropped
    printed,        \* history: the characters the host has printed
    reported        \* history: the characters it has reported lost

ringVars == <<wr, rd, lost, data>>
kernelVars == <<hart, puts, accepted, dropped>>
hostVars == <<cout_rd, lost_seen, drain, faults, printed, reported>>
coutVars == <<ringVars, kernelVars, hostVars>>

NoDrain == [at |-> "idle", wr |-> [s \in SlotIds |-> 0], lost |-> [s \in SlotIds |-> 0],
            left |-> {}, rd |-> 0, advanced |-> FALSE]

(* init_cp zeroes wr, rd and lost, and leaves data as it is. *)
CoutInit ==
    /\ wr = [s \in SlotIds |-> 0] /\ rd = [s \in SlotIds |-> 0]
    /\ lost = [s \in SlotIds |-> 0]
    /\ data = [s \in SlotIds |-> [i \in 0 .. RingSize - 1 |-> 0]]
    /\ hart = [h \in Harts |-> [at |-> "idle", wr |-> 0]]
    /\ puts = [h \in Harts |-> 0]
    /\ cout_rd = [s \in SlotIds |-> 0] /\ lost_seen = [s \in SlotIds |-> 0]
    /\ drain = [d \in Drainers |-> NoDrain]
    /\ faults = 0
    /\ accepted = [s \in SlotIds |-> <<>>] /\ printed = [s \in SlotIds |-> <<>>]
    /\ dropped = [s \in SlotIds |-> 0] /\ reported = [s \in SlotIds |-> 0]

-----------------------------------------------------------------------------
(* vx_putchar: load wr and rd, then store the character and publish wr, or *)
(* count it as lost.                                                       *)

(* Mutant: the ring takes one character too many. *)
FullLate(w, r) == (w - r) % Word > RingSize

Full(w, r) == (w - r) % Word >= RingSize

Putchar(h) ==
    LET s == SlotOf[h]
    IN  /\ hart[h].at = "idle" /\ puts[h] < MaxPuts[h]
        /\ hart' = [hart EXCEPT ![h] = [at |-> IF Full(wr[s], rd[s]) THEN "drop" ELSE "store",
                                        wr |-> wr[s]]]
        /\ puts' = [puts EXCEPT ![h] = @ + 1]
        /\ UNCHANGED <<ringVars, accepted, dropped, hostVars>>

Store(h) ==
    /\ hart[h].at = "store"
    /\ data' = [data EXCEPT ![SlotOf[h]][hart[h].wr % RingSize] = puts[h]]
    /\ hart' = [hart EXCEPT ![h].at = "publish"]
    /\ UNCHANGED <<wr, rd, lost, puts, accepted, dropped, hostVars>>

PublishWr(h) ==
    /\ hart[h].at = "publish"
    /\ wr' = [wr EXCEPT ![SlotOf[h]] = (hart[h].wr + 1) % Word]
    /\ hart' = [hart EXCEPT ![h].at = "idle"]
    /\ accepted' = [accepted EXCEPT ![SlotOf[h]] = Append(@, puts[h])]
    /\ UNCHANGED <<rd, lost, data, puts, dropped, hostVars>>

Drop(h) ==
    /\ hart[h].at = "drop"
    /\ lost' = [lost EXCEPT ![SlotOf[h]] = (@ + 1) % Word]
    /\ hart' = [hart EXCEPT ![h].at = "idle"]
    /\ dropped' = [dropped EXCEPT ![SlotOf[h]] = @ + 1]
    /\ UNCHANGED <<wr, rd, data, puts, accepted, hostVars>>

-----------------------------------------------------------------------------
(* drain_cout: read wr, read lost, then slot by slot.  The host's copies   *)
(* are read and written without a lock.                                    *)

ReadWr(d) ==
    /\ drain[d].at = "idle"
    /\ drain' = [drain EXCEPT ![d] = [NoDrain EXCEPT !.at = "lost", !.wr = wr]]
    /\ UNCHANGED <<ringVars, kernelVars, cout_rd, lost_seen, faults, printed, reported>>

ReadLost(d) ==
    /\ drain[d].at = "lost"
    /\ drain' = [drain EXCEPT ![d].at = "slots", ![d].lost = lost, ![d].left = SlotIds]
    /\ UNCHANGED <<ringVars, kernelVars, cout_rd, lost_seen, faults, printed, reported>>

(* The slots are taken in order. *)
Current(d) == CHOOSE x \in drain[d].left : \A y \in drain[d].left : x <= y

(* Mutant: a slot without characters takes the flag back. *)
NextSlotForgets(d) ==
    /\ drain[d].at = "slots" /\ drain[d].left # {}
    /\ LET s == Current(d)
           new == drain[d].wr[s] # cout_rd[s]
       IN  /\ reported' = [reported EXCEPT
                             ![s] = @ + ((drain[d].lost[s] - lost_seen[s]) % Word)]
           /\ lost_seen' = [lost_seen EXCEPT ![s] = drain[d].lost[s]]
           /\ drain' = [drain EXCEPT
                ![d].at = IF new THEN "data" ELSE "slots",
                ![d].rd = cout_rd[s],
                ![d].advanced = new,
                ![d].left = IF new THEN @ ELSE @ \ {s}]
    /\ UNCHANGED <<ringVars, kernelVars, cout_rd, faults, printed>>

(* The next slot: report what was lost since, and go for the characters if *)
(* there are any.                                                          *)
NextSlot(d) ==
    /\ drain[d].at = "slots" /\ drain[d].left # {}
    /\ LET s == Current(d)
           new == drain[d].wr[s] # cout_rd[s]
       IN  /\ reported' = [reported EXCEPT
                             ![s] = @ + ((drain[d].lost[s] - lost_seen[s]) % Word)]
           /\ lost_seen' = [lost_seen EXCEPT ![s] = drain[d].lost[s]]
           /\ drain' = [drain EXCEPT
                ![d].at = IF new THEN "data" ELSE "slots",
                ![d].rd = cout_rd[s],
                ![d].left = IF new THEN @ ELSE @ \ {s}]
    /\ UNCHANGED <<ringVars, kernelVars, cout_rd, faults, printed>>

(* The characters between the host's rd and the wr it has read. *)
NewChars(s, from, to) ==
    LET n == (to - from) % Word
    IN  [i \in 1 .. (IF n > RingSize THEN RingSize ELSE n) |->
            data[s][(from + i - 1) % RingSize]]

ReadData(d) ==
    /\ drain[d].at = "data"
    /\ LET s == Current(d)
       IN  /\ printed' = [printed EXCEPT ![s] = @ \o NewChars(s, drain[d].rd, drain[d].wr[s])]
           /\ cout_rd' = [cout_rd EXCEPT ![s] = drain[d].wr[s]]
           /\ drain' = [drain EXCEPT ![d].at = "slots", ![d].left = @ \ {s},
                                     ![d].advanced = TRUE]
    /\ UNCHANGED <<ringVars, kernelVars, lost_seen, faults, reported>>

(* rd is published if any slot has advanced. *)
PublishRd(d) ==
    /\ drain[d].at = "slots" /\ drain[d].left = {}
    /\ rd' = IF drain[d].advanced THEN cout_rd ELSE rd
    /\ drain' = [drain EXCEPT ![d] = NoDrain]
    /\ UNCHANGED <<wr, lost, data, kernelVars, cout_rd, lost_seen, faults, printed, reported>>

(* A transfer fails: drain_cout returns the error from where it is.        *)
TransferFails(d) ==
    /\ faults < MaxFaults
    /\ \/ drain[d].at \in {"lost", "data"}
       \/ drain[d].at = "slots" /\ drain[d].left = {} /\ drain[d].advanced
    /\ faults' = faults + 1
    /\ drain' = [drain EXCEPT ![d] = NoDrain]
    /\ UNCHANGED <<ringVars, kernelVars, cout_rd, lost_seen, printed, reported>>

-----------------------------------------------------------------------------
HartStep(h) == Putchar(h) \/ Store(h) \/ PublishWr(h) \/ Drop(h)

DrainStep(d) == ReadWr(d) \/ ReadLost(d) \/ NextSlot(d) \/ ReadData(d) \/ PublishRd(d)

CoutNext ==
    \/ \E h \in Harts : HartStep(h)
    \/ \E d \in Drainers : DrainStep(d) \/ TransferFails(d)

CoutSpec == CoutInit /\ [][CoutNext]_coutVars
-----------------------------------------------------------------------------
(* Properties. *)

IsPrefixOf(s, t) == Len(s) <= Len(t) /\ \A i \in DOMAIN s : s[i] = t[i]

(***************************************************************************)
(* What the host prints of a slot is what its hart published, in order,    *)
(* each character once, none of them overwritten while the host reads it,  *)
(* across the wrap of the counters and the failure of a transfer.          *)
(***************************************************************************)
PrintedIsWritten ==
    \A s \in SlotIds : IsPrefixOf(printed[s], accepted[s])

(***************************************************************************)
(* A full ring is emptied, unless a transfer has failed: then the host's   *)
(* rd may be ahead of the published one, and with the ring full no further *)
(* character arrives that would make drain_cout publish it.                *)
(***************************************************************************)
FullIsRelieved ==
    \A s \in SlotIds : []<>(~Full(wr[s], rd[s]) \/ faults > 0)
=============================================================================

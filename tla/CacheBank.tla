------------------------------ MODULE CacheBank ------------------------------
(***************************************************************************)
(* One bank of a cache (CacheBank in cache.cpp) between a core and the     *)
(* memory below it: tag array, MSHR, the two-entry pipeline, the           *)
(* fill-forward window, the table of atomics passed through to memory, the *)
(* reservations of LR/SC (AmoUnit) and the flush walk.                     *)
(*                                                                         *)
(* on_tick() runs processRequests, processForward, processInputs and       *)
(* processFlush in this order; `phase` names the one that comes next, and  *)
(* each way through one of them is an action.  Between two ticks the core  *)
(* issues requests and takes responses, and memory takes requests (reading *)
(* or writing RAM as it takes them, Memory::tick) and answers in any order.*)
(*                                                                         *)
(* The bank has one set.  An address is a line tag and a sector.  A store, *)
(* a swap or a conditional store writes the number of its request in the   *)
(* bytes it enables, so that a value names the write it comes from; 0 is   *)
(* what memory held first and Foreign what another cache wrote below.      *)
(***************************************************************************)
EXTENDS Integers, Sequences, FiniteSets, FiniteSetsExt


CONSTANTS
  Tags,         \* the lines that map to the set
  Sectors,      \* the sectors of a line
  Bytes,        \* the bytes of a sector
  Harts,        \* the harts that share the bank
  PassSize,     \* AMO_PASSTHRU_CAP
  Latency,      \* config.latency, the delay of pipe_req_
  PipeDepth,    \* capacity of pipe_req_
  Depth,        \* capacity of the memory and core response channels
  MaxReqs,      \* bound: requests the core ever issues
  Configs,      \* the configurations of the bank and the traffic it is given
  NoTag         \* no line is reserved

Addr == Tags \X Sectors
Pids == 1 .. PassSize
Ids == 1 .. MaxReqs
Foreign == MaxReqs + 1
Data == [Bytes -> 0 .. Foreign]
Zero == [b \in Bytes |-> 0]
Ops == {"LD", "ST", "LR", "SC", "RMW"}
Request == [op : Ops, addr : Addr, en : SUBSET Bytes, hart : Harts, strsp : BOOLEAN]

\* traffic is the set of requests the core may make under the configuration, and
\* foreign the bytes of a sector that only another cache writes.  LR and SC of a
\* bank that is not the last level go to the bank below, which is not here.
ASSUME CacheAssumption ==
  /\ {PassSize, Latency, PipeDepth, Depth, MaxReqs} \subseteq Nat \ {0}
  /\ NoTag \notin Tags
  /\ Sectors \subseteq Int /\ IsFiniteSet(Sectors)
  /\ \A c \in Configs :
       /\ {c.write_back, c.is_llc, c.write_response} \subseteq BOOLEAN
       /\ {c.ways, c.mshr_size} \subseteq Nat \ {0}
       /\ c.repl \in {"FIFO", "RANDOM", "PLRU"}
       /\ c.traffic \subseteq Request
       /\ c.foreign \subseteq Bytes
       /\ \A r \in c.traffic : r.op # "LD" => r.en \cap c.foreign = {}
       /\ \A r \in c.traffic : r.op \in {"LR", "SC"} => c.is_llc

VARIABLES
  config,       \* config_
  phase,        \* the part of on_tick() that comes next
  way,          \* the lines of the set: tag, lru_ctr and sectors
  repl,         \* fifo_ptr and rand_ctr_
  mshr,         \* the entries of mshr_
  pipe,         \* pipe_req_, with the ticks each entry has been in it
  pending,      \* pending_mshr_size_, pending_amo_probes_, pending_fill_reqs_
  pipeLines,    \* pipe_core_lines_
  fwd,          \* fwd_active_ and the chain it is armed for
  crspSent,     \* crsp_sent_
  admSeq,       \* adm_seq_ctr_
  flush,        \* flushing_: "off" before the first flush, then "on" or "done"
  reservation,  \* reservations_ of the AmoUnit
  passthru,     \* amo_passthru_: the request each valid entry stands for, or 0
  coreReq,      \* core_req_in
  coreRsp,      \* occupancy of core_rsp_out
  memReq,       \* mem_req_out
  memRsp,       \* mem_rsp_in
  dram,         \* answers memory has not sent yet
  ram,          \* the memory below
  issued,       \* history: every request the core has made
  answer,       \* history: the response to each request
  overtaken,    \* history: sectors where a store has overtaken an older access
  remissed      \* history: a replay has found its sector gone and missed again

array   == <<way, repl>>
core    == <<coreReq, coreRsp, answer>>
mem     == <<memReq, memRsp, dram, ram>>
history == <<config, issued, overtaken, remissed>>
vars == <<config, phase, way, repl, mshr, pipe, pending, pipeLines, fwd, crspSent,
          admSeq, flush, reservation, passthru, coreReq, coreRsp, memReq, memRsp,
          dram, ram, issued, answer, overtaken, remissed>>

Way == 1 .. config.ways     \* lines_per_set
MshrSize == config.mshr_size
Entries == 1 .. MshrSize

NoAnswer == [done |-> FALSE, data |-> Zero, ok |-> FALSE]
NoEntry == [type |-> "None"]
EmptySector == [valid |-> FALSE, dirty |-> {}, data |-> Zero]
Closed == [on |-> FALSE, addr |-> CHOOSE a \in Addr : TRUE]

\* on_reset()
Init ==
  /\ config \in Configs
  /\ phase = "requests"
  /\ way = [w \in Way |-> [tag |-> NoTag, lru |-> 0,
                           sec |-> [s \in Sectors |-> EmptySector]]]
  /\ repl = [fifo |-> 0, rand |-> 0]
  /\ mshr = [m \in Entries |-> NoEntry]
  /\ pipe = << >>
  /\ pending = [mshr |-> 0, probes |-> 0, fills |-> 0]
  /\ pipeLines = << >>
  /\ fwd = Closed
  /\ crspSent = FALSE
  /\ admSeq = 0
  /\ flush = "off"
  /\ reservation = [h \in Harts |-> NoTag]
  /\ passthru = [p \in Pids |-> 0]
  /\ coreReq = << >> /\ coreRsp = 0
  /\ memReq = << >> /\ memRsp = << >> /\ dram = {}
  /\ ram = [a \in Addr |-> Zero]
  /\ issued = << >>
  /\ answer = [i \in Ids |-> NoAnswer]
  /\ overtaken = {} /\ remissed = FALSE

-----------------------------------------------------------------------------
(* The tag array: set_t and line_t.                                        *)

AnyValid(w) == \E s \in Sectors : way[w].sec[s].valid
Resident(tag) == {w \in Way : AnyValid(w) /\ way[w].tag = tag}
HitWays(a) == {w \in Resident(a[1]) : way[w].sec[a[2]].valid}
Hit(a) == HitWays(a) # {}

\* The way that holds the sector, when there is a hit.
Line(a) == Max(HitWays(a))
Cached(a) == way[Line(a)].sec[a[2]]

\* select_victim(): a free way, or the one the policy names.
SelectVictim ==
  LET free == {w \in Way : ~AnyValid(w)}
      oldest == {w \in Way : \A v \in Way : way[v].lru <= way[w].lru}
  IN IF free # {} THEN Min(free)
     ELSE CASE config.repl = "FIFO"   -> (repl.fifo % config.ways) + 1
            [] config.repl = "RANDOM" -> (repl.rand % config.ways) + 1
            [] config.repl = "PLRU"   -> Max(oldest)

\* update_lru(): every valid line ages but the one that was hit.
UpdateLru(wy, hit) ==
  IF config.repl # "PLRU" THEN wy
  ELSE [w \in Way |-> IF ~AnyValid(w) THEN wy[w]
                      ELSE [wy[w] EXCEPT !.lru = IF w \in hit THEN 0 ELSE @ + 1]]

Merge(data, en, id) == [b \in Bytes |-> IF b \in en THEN id ELSE data[b]]

\* sector_merge() and, in a write-back cache, the dirty bytes.
MergeSectorClean(a, r) == [way EXCEPT ![Line(a)].sec[a[2]].data = Merge(@, r.en, r.id)]
MergeSector(a, r) ==
  [way EXCEPT ![Line(a)].sec[a[2]] =
     [valid |-> TRUE,
      dirty |-> IF config.write_back THEN @.dirty \cup r.en ELSE @.dirty,
      data  |-> Merge(@.data, r.en, r.id)]]

-----------------------------------------------------------------------------
(* The MSHR.                                                               *)

InUse == {m \in Entries : mshr[m].type # "None"}
Ready == {m \in Entries : mshr[m].type = "Replay"}
Chain(a) == {m \in InUse : mshr[m].req.addr = a}
MshrFull == InUse = Entries

\* has_pending_fill(): the chain still waits for its fill.
PendingFillNever(a) == FALSE
PendingFill(a) == \E m \in Chain(a) : mshr[m].type = "Core"

\* enqueue(), followed by defer_to_replay() when type is "Replay".
Enqueue(r, type) == [mshr EXCEPT ![Min(Entries \ InUse)] = [type |-> type, req |-> r]]

\* peek_next_replay() and dequeue(): the oldest admission first.
NextReplayYoungest == CHOOSE m \in Ready : \A n \in Ready : mshr[m].req.seq >= mshr[n].req.seq
NextReplay == CHOOSE m \in Ready : \A n \in Ready : mshr[m].req.seq <= mshr[n].req.seq
Dequeue == [mshr EXCEPT ![NextReplay] = NoEntry]

\* replay(): the whole chain of a filled sector may go.
MarkReplay(a) ==
  [m \in Entries |-> IF m \in Chain(a) THEN [mshr[m] EXCEPT !.type = "Replay"] ELSE mshr[m]]

-----------------------------------------------------------------------------
(* Channels, responses and reservations.                                   *)

MemRoom(n) == Len(memReq) + n <= Depth
RspRoom == coreRsp < Depth

FillReq(m, a) == [op |-> "LD", addr |-> a, tag |-> m, data |-> Zero, en |-> Bytes]
Write(a, data, en) == [op |-> "ST", addr |-> a, tag |-> 0, data |-> data, en |-> en]
InOrder(D) == CHOOSE f \in [1 .. Cardinality(D) -> D] : \A i, j \in DOMAIN f : i < j => f[i] < f[j]
WriteBackWhole(w, s) == Write(<<way[w].tag, s>>, way[w].sec[s].data, Bytes)
WriteBack(w, s) == Write(<<way[w].tag, s>>, way[w].sec[s].data, way[w].sec[s].dirty)
WriteBacks(w) ==
  LET order == InOrder({s \in Sectors : way[w].sec[s].valid /\ way[w].sec[s].dirty # {}})
  IN [i \in DOMAIN order |-> WriteBack(w, order[i])]

NeedRsp(r) == r.op # "ST" \/ config.write_response \/ r.strsp
WtStore(r) == r.op = "ST" /\ ~config.write_back
Atomic(r) == r.op \in {"LR", "SC"}

Respond(r, data, ok) ==
  /\ coreRsp' = coreRsp + 1
  /\ answer' = [answer EXCEPT ![r.id] = [done |-> TRUE, data |-> data, ok |-> ok]]
RespondIf(c, r, data) ==
  IF c THEN Respond(r, data, TRUE) ELSE UNCHANGED <<coreRsp, answer>>

BreakOthers(r, res) ==
  [h \in Harts |-> IF h # r.hart /\ res[h] = r.addr[1] THEN NoTag ELSE res[h]]
BreakAtLlc(r) == reservation' = IF config.is_llc THEN BreakOthers(r, reservation) ELSE reservation

-----------------------------------------------------------------------------
(* processRequests(): the head of the pipeline.                            *)

HeadReady == pipe # << >> /\ Head(pipe).age = Latency
HeadIs(type) == phase = "requests" /\ HeadReady /\ Head(pipe).type = type
Req == Head(pipe).req
A == Req.addr

\* A Core request leaves the pipeline: its reservation of an MSHR slot and its
\* line in the mirror go with it (pipeLineErase).
LeavePipe ==
  /\ pending' = [pending EXCEPT !.mshr = @ - 1]
  /\ LET i == Min({j \in DOMAIN pipeLines : pipeLines[j] = A[1]})
     IN pipeLines' = SubSeq(pipeLines, 1, i - 1) \o SubSeq(pipeLines, i + 1, Len(pipeLines))
Popped == pipe' = Tail(pipe) /\ phase' = "forward"

\* AmoProbe: write back and drop the cached copy, then pass the atomic down.
ProbeDirty == Hit(A) /\ Cached(A).dirty # {}
ProbeReady == MemRoom(IF ProbeDirty THEN 2 ELSE 1) /\ \E p \in Pids : passthru[p] = 0
AmoProbe ==
  /\ HeadIs("AmoProbe") /\ ProbeReady
  /\ LET pid == Min({p \in Pids : passthru[p] = 0})
     IN /\ passthru' = [passthru EXCEPT ![pid] = Req.id]
        /\ memReq' = memReq
             \o (IF ProbeDirty THEN <<Write(A, Cached(A).data, Cached(A).dirty)>> ELSE << >>)
             \o <<[op |-> Req.op, addr |-> A, tag |-> MshrSize + pid,
                   data |-> Merge(Zero, Req.en, Req.id), en |-> Req.en]>>
  /\ way' = IF Hit(A) THEN [way EXCEPT ![Line(A)].sec[A[2]] = EmptySector] ELSE way
  /\ pending' = [pending EXCEPT !.fills = @ + 1, !.probes = @ - 1]
  /\ Popped
  /\ UNCHANGED <<repl, mshr, pipeLines, fwd, crspSent, admSeq, flush, reservation, core,
                 memRsp, dram, ram, history>>

\* Fill: install the sector in its resident line, or in a victim whose dirty
\* sectors are written back first, and let its chain go.
FillAddr == Head(pipe).addr
Refill == Resident(FillAddr[1]) # {}
FillReady == Refill \/ MemRoom(Len(WriteBacks(SelectVictim)))
Fill ==
  /\ HeadIs("Fill") /\ FillReady
  /\ LET w    == IF Refill THEN Min(Resident(FillAddr[1])) ELSE SelectVictim
         kept == IF Refill THEN way[w].sec ELSE [s \in Sectors |-> EmptySector]
     IN /\ way' = [way EXCEPT ![w] =
                     [tag |-> FillAddr[1], lru |-> 0,
                      sec |-> [kept EXCEPT ![FillAddr[2]] =
                                 [valid |-> TRUE, dirty |-> {}, data |-> Head(pipe).data]]]]
        /\ memReq' = IF Refill THEN memReq ELSE memReq \o WriteBacks(w)
        /\ repl' = IF Refill THEN repl
                   ELSE CASE config.repl = "FIFO" -> [repl EXCEPT !.fifo = (@ + 1) % config.ways]
                          [] config.repl = "RANDOM" -> [repl EXCEPT !.rand = (@ + 1) % config.ways]
                          [] OTHER -> repl
  /\ mshr' = MarkReplay(FillAddr)
  /\ fwd' = [on |-> TRUE, addr |-> FillAddr]
  /\ Popped
  /\ UNCHANGED <<pending, pipeLines, crspSent, admSeq, flush, reservation, passthru, core,
                 memRsp, dram, ram, history>>

\* commitAmo(): LR takes a reservation; SC stores if it still holds one.
ScFails == Req.op = "SC" /\ reservation[Req.hart] # A[1]
AmoStores == Req.op = "SC" /\ ~ScFails
AmoReady == RspRoom /\ (AmoStores /\ ~config.write_back => MemRoom(1))
CommitAmo ==
  /\ LET taken == IF Req.op = "LR" THEN [reservation EXCEPT ![Req.hart] = A[1]]
                  ELSE IF ScFails THEN reservation
                  ELSE [reservation EXCEPT ![Req.hart] = NoTag]
     IN reservation' = IF AmoStores THEN BreakOthers(Req, taken) ELSE taken
  /\ way' = UpdateLru(IF AmoStores THEN MergeSector(A, Req) ELSE way, HitWays(A))
  /\ memReq' = IF AmoStores /\ ~config.write_back
               THEN Append(memReq, Write(A, Merge(Zero, Req.en, Req.id), Req.en)) ELSE memReq
  /\ Respond(Req, Cached(A).data, ~ScFails)
  /\ crspSent' = TRUE

\* Replay: the chained request meets the sector its fill has installed.
ReplayHit ==
  /\ HeadIs("Replay") /\ Hit(A) /\ ~Atomic(Req)
  /\ NeedRsp(Req) => RspRoom
  /\ way' = UpdateLru(IF Req.op = "ST" THEN MergeSector(A, Req) ELSE way, HitWays(A))
  /\ reservation' = IF Req.op = "ST" /\ config.is_llc /\ config.write_back
                    THEN BreakOthers(Req, reservation) ELSE reservation
  /\ RespondIf(NeedRsp(Req) /\ ~Req.skip, Req, Cached(A).data)
  /\ crspSent' = (crspSent \/ (NeedRsp(Req) /\ ~Req.skip))
  /\ Popped
  /\ UNCHANGED <<repl, mshr, pending, pipeLines, fwd, admSeq, flush, passthru, coreReq,
                 mem, history>>

ReplayAmo ==
  /\ HeadIs("Replay") /\ Hit(A) /\ Atomic(Req) /\ AmoReady
  /\ CommitAmo /\ Popped
  /\ UNCHANGED <<repl, mshr, pending, pipeLines, fwd, admSeq, flush, passthru, coreReq,
                 memRsp, dram, ram, history>>

\* The sector is gone again: a merge is dropped, anything else misses afresh.
RemissReady == (PendingFill(A) \/ MemRoom(1)) /\ ~MshrFull
ReplayDrop ==
  /\ HeadIs("Replay") /\ ~Hit(A) /\ Req.op = "ST" /\ Req.skip
  /\ Popped
  /\ UNCHANGED <<array, mshr, pending, pipeLines, fwd, crspSent, admSeq, flush, reservation,
                 passthru, core, mem, history>>
ReplayMiss ==
  /\ HeadIs("Replay") /\ ~Hit(A) /\ ~(Req.op = "ST" /\ Req.skip) /\ RemissReady
  /\ mshr' = Enqueue(Req, "Core")
  /\ memReq' = IF PendingFill(A) THEN memReq
               ELSE Append(memReq, FillReq(Min(Entries \ InUse), A))
  /\ pending' = IF PendingFill(A) THEN pending ELSE [pending EXCEPT !.fills = @ + 1]
  /\ remissed' = TRUE
  /\ Popped
  /\ UNCHANGED <<array, pipeLines, fwd, crspSent, admSeq, flush, reservation, passthru, core,
                 memRsp, dram, ram, config, issued, overtaken>>

\* emitWritethrough(): both channels are checked before either is used.
EmitReady == MemRoom(1) /\ (NeedRsp(Req) => RspRoom)
EmitWritethrough ==
  /\ memReq' = Append(memReq, Write(A, Merge(Zero, Req.en, Req.id), Req.en))
  /\ BreakAtLlc(Req)
  /\ RespondIf(NeedRsp(Req), Req, Zero)
  /\ crspSent' = (crspSent \/ NeedRsp(Req))

\* The head passes an older access to its sector: a replay that follows it in the
\* pipeline, or a conditional store in the MSHR, which writes memory later.
OlderReplayBehind ==
  \E i \in DOMAIN pipe : /\ pipe[i].type = "Replay" /\ pipe[i].req.addr = A
                         /\ pipe[i].req.seq < Req.seq
Overtakes == OlderReplayBehind \/ \E m \in Chain(A) : mshr[m].req.op = "SC"
NoteOvertaken == overtaken' = IF WtStore(Req) /\ Overtakes THEN overtaken \cup {A} ELSE overtaken

\* Core, hit under a chain: older requests wait to replay; queue behind them.  A
\* write-through store is emitted at once and queues its merge only.  Here and in
\* CoreMiss the code asserts !mshr_.full(), and the program ends if it is.
CoreDefer ==
  /\ HeadIs("Core") /\ Hit(A) /\ Chain(A) # {} /\ ~MshrFull
  /\ IF WtStore(Req) THEN EmitReady /\ EmitWritethrough
     ELSE UNCHANGED <<memReq, reservation, coreRsp, answer, crspSent>>
  /\ mshr' = Enqueue([Req EXCEPT !.skip = WtStore(Req)], "Replay")
  /\ NoteOvertaken
  /\ LeavePipe /\ Popped
  /\ UNCHANGED <<array, fwd, admSeq, flush, passthru, coreReq, memRsp, dram, ram, config, issued,
                 remissed>>

CoreAmo ==
  /\ HeadIs("Core") /\ Hit(A) /\ Chain(A) = {} /\ Atomic(Req) /\ AmoReady
  /\ CommitAmo
  /\ LeavePipe /\ Popped
  /\ UNCHANGED <<repl, mshr, fwd, admSeq, flush, passthru, coreReq, memRsp, dram, ram, history>>

CoreHit ==
  /\ HeadIs("Core") /\ Hit(A) /\ Chain(A) = {} /\ ~Atomic(Req)
  /\ WtStore(Req) => MemRoom(1)
  /\ NeedRsp(Req) => RspRoom
  /\ way' = UpdateLru(IF Req.op = "ST" THEN MergeSector(A, Req) ELSE way, HitWays(A))
  /\ memReq' = IF WtStore(Req)
               THEN Append(memReq, Write(A, Merge(Zero, Req.en, Req.id), Req.en)) ELSE memReq
  /\ IF Req.op = "ST" THEN BreakAtLlc(Req) ELSE UNCHANGED reservation
  /\ RespondIf(NeedRsp(Req), Req, Cached(A).data)
  /\ crspSent' = (crspSent \/ NeedRsp(Req))
  /\ NoteOvertaken
  /\ LeavePipe /\ Popped
  /\ UNCHANGED <<repl, mshr, fwd, admSeq, flush, passthru, coreReq, memRsp, dram, ram, config,
                 issued, remissed>>

\* A write-through store that misses goes to memory at once; if a fill of its
\* sector is under way, its bytes are merged when the fill arrives.
StoreMissReady == EmitReady /\ (PendingFill(A) => ~MshrFull)
CoreStoreMiss ==
  /\ HeadIs("Core") /\ ~Hit(A) /\ WtStore(Req) /\ StoreMissReady
  /\ EmitWritethrough
  /\ mshr' = IF PendingFill(A) THEN Enqueue([Req EXCEPT !.skip = TRUE], "Core") ELSE mshr
  /\ way' = UpdateLru(way, {})
  /\ NoteOvertaken
  /\ LeavePipe /\ Popped
  /\ UNCHANGED <<repl, fwd, admSeq, flush, passthru, coreReq, memRsp, dram, ram, config, issued,
                 remissed>>

\* Any other miss takes an MSHR entry; the first of its chain asks for the fill.
CoreMiss ==
  /\ HeadIs("Core") /\ ~Hit(A) /\ ~WtStore(Req) /\ ~MshrFull
  /\ PendingFill(A) \/ MemRoom(1)
  /\ mshr' = Enqueue(Req, "Core")
  /\ memReq' = IF PendingFill(A) THEN memReq
               ELSE Append(memReq, FillReq(Min(Entries \ InUse), A))
  /\ LET i == Min({j \in DOMAIN pipeLines : pipeLines[j] = A[1]})
     IN pipeLines' = SubSeq(pipeLines, 1, i - 1) \o SubSeq(pipeLines, i + 1, Len(pipeLines))
  /\ pending' = [pending EXCEPT !.mshr = @ - 1,
                                !.fills = IF PendingFill(A) THEN @ ELSE @ + 1]
  /\ way' = UpdateLru(way, {})
  /\ Popped
  /\ UNCHANGED <<repl, fwd, crspSent, admSeq, flush, reservation, passthru, core,
                 memRsp, dram, ram, history>>

\* A head that finds a channel or the MSHR full stays where it is.
HeadProceeds ==
  CASE Head(pipe).type = "AmoProbe" -> ProbeReady
    [] Head(pipe).type = "Fill"     -> FillReady
    [] Head(pipe).type = "Replay"   ->
         IF Hit(A) THEN IF Atomic(Req) THEN AmoReady ELSE NeedRsp(Req) => RspRoom
         ELSE (Req.op = "ST" /\ Req.skip) \/ RemissReady
    [] Head(pipe).type = "Core"     ->
         IF ~Hit(A) THEN IF WtStore(Req) THEN StoreMissReady ELSE PendingFill(A) \/ MemRoom(1)
         ELSE IF Chain(A) # {} THEN WtStore(Req) => EmitReady
         ELSE IF Atomic(Req) THEN AmoReady
         ELSE (WtStore(Req) => MemRoom(1)) /\ (NeedRsp(Req) => RspRoom)
NoRequest ==
  /\ phase = "requests"
  /\ HeadReady => ~HeadProceeds
  /\ phase' = "forward"
  /\ UNCHANGED <<array, mshr, pipe, pending, pipeLines, fwd, crspSent, admSeq, flush,
                 reservation, passthru, core, mem, history>>

ProcessRequests ==
  \/ AmoProbe \/ Fill \/ ReplayHit \/ ReplayAmo \/ ReplayDrop \/ ReplayMiss
  \/ CoreDefer \/ CoreAmo \/ CoreHit \/ CoreStoreMiss \/ CoreMiss
  \/ NoRequest

-----------------------------------------------------------------------------
(* processForward(): while the window of the last fill is open, the oldest  *)
(* chained read is answered from the sector, outside the pipeline.          *)

FwdHead == mshr[NextReplay].req
FwdServes ==
  Ready # {} /\ FwdHead.addr = fwd.addr /\ FwdHead.op = "LD" /\ Hit(FwdHead.addr)

ForwardClose ==
  /\ phase = "forward" /\ fwd.on /\ ~FwdServes
  /\ fwd' = Closed
  /\ phase' = "inputs"
  /\ UNCHANGED <<array, mshr, pipe, pending, pipeLines, crspSent, admSeq, flush, reservation,
                 passthru, core, mem, history>>

ForwardRead ==
  /\ phase = "forward" /\ fwd.on /\ FwdServes
  /\ ~crspSent /\ RspRoom
  /\ Respond(FwdHead, Cached(FwdHead.addr).data, TRUE)
  /\ mshr' = Dequeue
  /\ phase' = "inputs_after_forward"
  /\ UNCHANGED <<array, pipe, pending, pipeLines, fwd, crspSent, admSeq, flush, reservation,
                 passthru, coreReq, mem, history>>

ForwardNothing ==
  /\ phase = "forward"
  /\ fwd.on => FwdServes /\ (crspSent \/ ~RspRoom)
  /\ phase' = "inputs"
  /\ UNCHANGED <<array, mshr, pipe, pending, pipeLines, fwd, crspSent, admSeq, flush,
                 reservation, passthru, core, mem, history>>

ProcessForward == ForwardClose \/ ForwardRead \/ ForwardNothing

-----------------------------------------------------------------------------
(* processInputs(): one replay, else one memory response, else one request. *)

Inputs == phase \in {"inputs", "inputs_after_forward"} /\ Len(pipe) < PipeDepth
ReplayTurn == Inputs /\ Ready # {} /\ phase = "inputs"
RspTurn == Inputs /\ ~ReplayTurn /\ memRsp # << >> /\ ~fwd.on
CoreTurn == Inputs /\ ~ReplayTurn /\ ~RspTurn /\ coreReq # << >>

Push(item) == pipe' = Append(pipe, item) /\ phase' = "flush"

TakeReplay ==
  /\ ReplayTurn
  /\ Push([type |-> "Replay", req |-> mshr[NextReplay].req, age |-> 0])
  /\ mshr' = Dequeue
  /\ UNCHANGED <<array, pending, pipeLines, fwd, crspSent, admSeq, flush, reservation,
                 passthru, core, mem, history>>

Rsp == Head(memRsp)
PassthruRsp ==
  /\ RspTurn /\ Rsp.tag > MshrSize /\ RspRoom
  /\ LET p == Rsp.tag - MshrSize
     IN /\ Respond(issued[passthru[p]], Rsp.data, TRUE)
        /\ passthru' = [passthru EXCEPT ![p] = 0]
  /\ memRsp' = Tail(memRsp)
  /\ pending' = [pending EXCEPT !.fills = @ - 1]
  /\ phase' = "flush"
  /\ UNCHANGED <<array, mshr, pipe, pipeLines, fwd, crspSent, admSeq, flush, reservation,
                 coreReq, memReq, dram, ram, history>>

\* The address of a fill is the one its MSHR entry holds now.
TakeFill ==
  /\ RspTurn /\ Rsp.tag <= MshrSize
  /\ Push([type |-> "Fill", addr |-> mshr[Rsp.tag].req.addr, data |-> Rsp.data, age |-> 0])
  /\ memRsp' = Tail(memRsp)
  /\ pending' = [pending EXCEPT !.fills = @ - 1]
  /\ UNCHANGED <<array, mshr, pipeLines, fwd, crspSent, admSeq, flush, reservation, passthru,
                 core, memReq, dram, ram, history>>

In == [Head(coreReq) EXCEPT !.seq = admSeq]
IsPassthru == In.op = "RMW" \/ (Atomic(In) /\ ~config.is_llc)

\* An atomic that goes through waits for a table slot, and for every older
\* access to its line to have left the MSHR and the pipeline.
ProbeGate ==
  /\ Cardinality({p \in Pids : passthru[p] = 0}) > pending.probes
  /\ Chain(In.addr) = {}
  /\ \A i \in DOMAIN pipeLines : pipeLines[i] # In.addr[1]
MshrGateNoPending == Cardinality(InUse) < MshrSize
MshrGate == Cardinality(InUse) + pending.mshr < MshrSize

TakeProbe ==
  /\ CoreTurn /\ IsPassthru /\ ProbeGate
  /\ Push([type |-> "AmoProbe", req |-> In, age |-> 0])
  /\ pending' = [pending EXCEPT !.probes = @ + 1]
  /\ admSeq' = admSeq + 1
  /\ coreReq' = Tail(coreReq)
  /\ UNCHANGED <<array, mshr, pipeLines, fwd, crspSent, flush, reservation, passthru,
                 coreRsp, answer, mem, history>>

\* A request to a sector with a chain joins the chain here.
JoinTypeWaits == "Core"
JoinType == IF PendingFill(In.addr) THEN "Core" ELSE "Replay"
Joins == ~WtStore(In) /\ Chain(In.addr) # {}
Coalesce ==
  /\ CoreTurn /\ ~IsPassthru /\ MshrGate /\ Joins
  /\ mshr' = Enqueue(In, JoinType)
  /\ admSeq' = admSeq + 1
  /\ coreReq' = Tail(coreReq)
  /\ phase' = "flush"
  /\ UNCHANGED <<array, pipe, pending, pipeLines, fwd, crspSent, flush, reservation, passthru,
                 coreRsp, answer, mem, history>>

TakeCore ==
  /\ CoreTurn /\ ~IsPassthru /\ MshrGate /\ ~Joins
  /\ Push([type |-> "Core", req |-> In, age |-> 0])
  /\ pending' = [pending EXCEPT !.mshr = @ + 1]
  /\ pipeLines' = Append(pipeLines, In.addr[1])
  /\ admSeq' = admSeq + 1
  /\ coreReq' = Tail(coreReq)
  /\ UNCHANGED <<array, mshr, fwd, crspSent, flush, reservation, passthru, coreRsp, answer,
                 mem, history>>

NoInput ==
  /\ phase \in {"inputs", "inputs_after_forward"}
  /\ ~ReplayTurn
  /\ RspTurn => Rsp.tag > MshrSize /\ ~RspRoom
  /\ CoreTurn => IF IsPassthru THEN ~ProbeGate ELSE ~MshrGate
  /\ phase' = "flush"
  /\ UNCHANGED <<array, mshr, pipe, pending, pipeLines, fwd, crspSent, admSeq, flush,
                 reservation, passthru, core, mem, history>>

ProcessInputs ==
  TakeReplay \/ PassthruRsp \/ TakeFill \/ TakeProbe \/ Coalesce \/ TakeCore \/ NoInput

-----------------------------------------------------------------------------
(* processFlush() and the end of the tick.                                  *)

DirtySectors == {x \in Way \X Sectors : way[x[1]].sec[x[2]].valid /\ way[x[1]].sec[x[2]].dirty # {}}
WalkBefore(x, y) == x[1] < y[1] \/ (x[1] = y[1] /\ x[2] < y[2])

\* The walk writes back in order until the channel is full, and resumes there.
Walk ==
  LET ahead(x) == Cardinality({y \in DirtySectors : WalkBefore(y, x)})
      sent == {x \in DirtySectors : MemRoom(ahead(x) + 1)}
      nth(i) == CHOOSE x \in sent : ahead(x) = i - 1
  IN /\ memReq' = memReq \o
          [i \in 1 .. Cardinality(sent) |->
             LET x == nth(i) IN WriteBack(x[1], x[2])]
     /\ way' = [w \in Way |-> [way[w] EXCEPT !.sec =
                  [s \in Sectors |-> IF <<w, s>> \in sent THEN [@[s] EXCEPT !.dirty = {}]
                                     ELSE @[s]]]]
     /\ flush' = IF sent = DirtySectors THEN "done" ELSE "on"

FlushGoes == flush = "on" /\ pending.fills = 0 /\ ~HeadReady /\ InUse = {}
EndTick ==
  /\ phase = "flush"
  /\ IF FlushGoes THEN Walk ELSE UNCHANGED <<way, memReq, flush>>
  /\ pipe' = [i \in DOMAIN pipe |-> [pipe[i] EXCEPT !.age = Min({@ + 1, Latency})]]
  /\ crspSent' = FALSE
  /\ phase' = "requests"
  /\ UNCHANGED <<repl, mshr, pending, pipeLines, fwd, admSeq, reservation, passthru, core,
                 memRsp, dram, ram, history>>

Tick == ProcessRequests \/ ProcessForward \/ ProcessInputs \/ EndTick

-----------------------------------------------------------------------------
(* What surrounds the bank, between two ticks.                              *)

bank == <<config, overtaken, remissed, phase, array, mshr, pipe, pending, pipeLines, fwd, crspSent, admSeq,
          reservation, passthru>>

\* The core makes a request.  The first flush comes when the launch is over, and
\* the next launch starts with a reset.
Issue ==
  /\ phase = "requests" /\ flush = "off"
  /\ Len(issued) < MaxReqs /\ Len(coreReq) < Depth
  /\ \E t \in config.traffic :
       LET r == [id |-> Len(issued) + 1, op |-> t.op, addr |-> t.addr, en |-> t.en,
                 hart |-> t.hart, strsp |-> t.strsp, seq |-> 0, skip |-> FALSE]
       IN coreReq' = Append(coreReq, r) /\ issued' = Append(issued, r)
  /\ UNCHANGED <<bank, flush, coreRsp, answer, mem>>

CoreDrain ==
  /\ phase = "requests" /\ coreRsp > 0
  /\ coreRsp' = coreRsp - 1
  /\ UNCHANGED <<bank, flush, coreReq, issued, answer, mem>>

\* Memory::tick(): a request takes effect in RAM as it is accepted; a read or an
\* atomic captures its answer then.
MemAccept ==
  /\ phase = "requests" /\ memReq # << >>
  /\ LET q == Head(memReq)
     IN /\ ram' = IF q.op = "LD" THEN ram
                  ELSE [ram EXCEPT ![q.addr] =
                          [b \in Bytes |-> IF b \in q.en THEN q.data[b] ELSE @[b]]]
        /\ dram' = IF q.op = "ST" THEN dram
                   ELSE dram \cup {[tag |-> q.tag, data |-> ram[q.addr]]}
  /\ memReq' = Tail(memReq)
  /\ UNCHANGED <<bank, flush, core, issued, memRsp>>

MemRespond ==
  /\ phase = "requests" /\ Len(memRsp) < Depth
  /\ \E d \in dram : memRsp' = Append(memRsp, d) /\ dram' = dram \ {d}
  /\ UNCHANGED <<bank, flush, core, issued, memReq, ram>>

\* Another cache writes its own bytes of a sector this core stores to.
ForeignWrite ==
  /\ phase = "requests" /\ config.foreign # {}
  /\ \E a \in {r.addr : r \in {t \in config.traffic : t.op = "ST"}} :
       ram' = [ram EXCEPT ![a] = [b \in Bytes |-> IF b \in config.foreign THEN Foreign ELSE @[b]]]
  /\ UNCHANGED <<bank, flush, core, issued, memReq, memRsp, dram>>

Outstanding == {i \in DOMAIN issued : NeedRsp(issued[i]) /\ ~answer[i].done}

\* SimChannelBase::inflight_count() = 0: what ProcessorImpl::run() waits for once
\* the cores have stopped.  The MSHR and the memory may still be at work, for
\* stores that nobody waits for.
ChannelsEmpty ==
  coreReq = << >> /\ coreRsp = 0 /\ pipe = << >> /\ memReq = << >> /\ memRsp = << >>

\* flush_begin(), when the launch is over and for each core the host flushes; a
\* write-through bank has nothing to do.
FlushBegin ==
  /\ phase = "requests" /\ flush # "on" /\ Outstanding = {} /\ ChannelsEmpty
  /\ flush' = IF config.write_back THEN "on" ELSE "done"
  /\ UNCHANGED <<bank, core, issued, mem>>

Next ==
  \/ Tick
  \/ Issue \/ CoreDrain \/ MemAccept \/ MemRespond \/ ForeignWrite \/ FlushBegin

\* Every tick of the platform ticks the bank and the memory and lets the core
\* take a response.  The three are offered their step between two ticks of the
\* bank only, hence strong fairness.
Fairness ==
  /\ WF_vars(Tick)
  /\ SF_vars(CoreDrain) /\ SF_vars(MemAccept) /\ SF_vars(MemRespond)

Spec == Init /\ [][Next]_vars /\ Fairness

-----------------------------------------------------------------------------
(* Properties.                                                              *)

Writes(i, a, b) ==
  /\ issued[i].addr = a /\ b \in issued[i].en
  /\ issued[i].op \in {"ST", "RMW"} \/ (issued[i].op = "SC" /\ answer[i].ok)
\* The value byte b of a has once the first n requests have taken effect in order.
Value(n, a, b) == Max({0} \cup {i \in 1 .. n : Writes(i, a, b)})
Matches(v, n, a, b) == v = Value(n, a, b) \/ (b \in config.foreign /\ v = Foreign)

ReadsInOrder(i) ==
  answer[i].done /\ issued[i].op \in {"LD", "LR", "RMW"} =>
    \A b \in Bytes : Matches(answer[i].data[b], i - 1, issued[i].addr, b)

\* A read, a reserved read or a read-modify-write is answered with the bytes the
\* requests before it in program order left at its address: no younger store is
\* seen and no older one missed, through misses, coalescing, replays, the
\* forward window, evictions, write-backs and atomics done in memory
\* (processInputs, processRequests, processForward).
LoadsSeeProgramOrder == \A i \in DOMAIN issued : ReadsInOrder(i)

\* The same, but for the sectors where a write-through store has passed an older
\* merge or conditional store of its sector, as it does in the run store_overtakes.
LoadsSeeOrderUnlessOvertaken ==
  \A i \in DOMAIN issued : issued[i].addr \notin overtaken => ReadsInOrder(i)

Pipelined(type) == {i \in DOMAIN pipe : pipe[i].type = type}

\* Admission reserves what the pipeline later takes: probes in the pipeline never
\* exceed the free slots of the pass-through table, and the counters and the
\* mirror of lines agree with the pipeline (pending_mshr_size_,
\* pending_amo_probes_, pipe_core_lines_).  Entries in use and requests still in
\* the pipeline never exceed the MSHR (the assertions on !mshr_.full()), unless a
\* replay has missed again: it takes an entry that admission did not count.
SlotsReserved ==
  /\ pending.mshr = Cardinality(Pipelined("Core"))
  /\ pending.probes = Cardinality(Pipelined("AmoProbe"))
  /\ Len(pipeLines) = pending.mshr
  /\ \A i \in Pipelined("Core") :
       \E j \in DOMAIN pipeLines : pipeLines[j] = pipe[i].req.addr[1]
  /\ remissed \/ Cardinality(InUse) + pending.mshr <= MshrSize
  /\ Cardinality({p \in Pids : passthru[p] # 0}) + pending.probes <= PassSize

\* The request at the end of the pipeline is about to take an entry of the MSHR.
TakesEntry ==
  /\ HeadIs("Core")
  /\ IF Hit(A) THEN Chain(A) # {} /\ (WtStore(Req) => EmitReady)
     ELSE ~WtStore(Req) /\ (PendingFill(A) \/ MemRoom(1))
\* It finds one: processRequests() asserts !mshr_.full() here, and enqueue() calls
\* std::abort() when there is none.
MissFindsSlot == TakesEntry => ~MshrFull

\* What is under way to the bank under a tag: a request memory has not taken, an
\* answer it has not sent, or a response the bank has not taken.
UnderWay(t) ==
  {<<"request", i>> : i \in {j \in DOMAIN memReq : memReq[j].op # "ST" /\ memReq[j].tag = t}}
    \cup {<<"memory", d>> : d \in {e \in dram : e.tag = t}}
    \cup {<<"response", i>> : i \in {j \in DOMAIN memRsp : memRsp[j].tag = t}}
Awaiting(a) == {m \in Chain(a) : mshr[m].type = "Core"}
FillsOf(a) ==
  (UNION {UnderWay(m) : m \in Awaiting(a)})
    \cup {<<"pipeline", i>> : i \in {j \in Pipelined("Fill") : pipe[j].addr = a}}

\* A chain that waits for its fill has exactly one fill under way: none would
\* strand the chain and two would install a sector over newer bytes
\* (has_pending_fill(), replay()).  So has every atomic in the pass-through table
\* its answer, and pending_fill_reqs_ counts them all.
OneFillPerChain ==
  /\ \A a \in Addr : Awaiting(a) # {} => Cardinality(FillsOf(a)) = 1
  /\ \A p \in Pids : passthru[p] # 0 => Cardinality(UnderWay(MshrSize + p)) = 1
  /\ pending.fills = Cardinality(UNION {UnderWay(t) : t \in 1 .. MshrSize + PassSize})

\* A conditional store that succeeds had its reservation to itself: no other
\* hart wrote the line between the reserved read and the store, whose order is
\* that of the requests ("SC and any committed store to the line invalidate other
\* harts", docs/designs/atomic_memory_operations.md; AmoUnit).
ScIsAtomic ==
  \A i \in DOMAIN issued : issued[i].op = "SC" /\ answer[i].ok =>
    \E l \in 1 .. i - 1 :
      /\ issued[l].op = "LR" /\ issued[l].hart = issued[i].hart
      /\ issued[l].addr[1] = issued[i].addr[1]
      /\ \A k \in l + 1 .. i - 1 :
           ~(issued[k].hart # issued[i].hart /\ \E b \in Bytes, s \in Sectors :
               Writes(k, <<issued[i].addr[1], s>>, b))


\* What another cache has written below stays: a write-back carries the bytes
\* this bank has written and no others (dirty_mask).
ForeignBytesKept ==
  [][\A a \in Addr, b \in config.foreign : ram[a][b] = Foreign => ram'[a][b] = Foreign]_vars

\* flush_caches() has returned: the walk is over and the channels are empty.
FlushReturned == flush = "done" /\ ChannelsEmpty
RamIsCurrent(a) == \A b \in Bytes : Matches(ram[a][b], Len(issued), a, b)

\* After a flush RAM holds the outcome of all requests ("every dirty line has
\* reached memsim_'s backing RAM", ProcessorImpl::dcr_read()).
FlushReachesRam == FlushReturned => \A a \in Addr : RamIsCurrent(a)

\* With nothing in flight, every byte the bank holds, and every byte of RAM that
\* is not dirty in the bank, is the outcome of all requests in order, but for the
\* sectors where a store has been overtaken: no store is lost between the write
\* policies, evictions, replays and a flush that begins while the MSHR still waits
\* for fills (processFlush()).  And where every store waits for its answer, as
\* loads do, a flush leaves nothing out.
QuietValue ==
  /\ ChannelsEmpty /\ InUse = {} /\ dram = {} =>
       \A a \in Addr \ overtaken, b \in Bytes :
         /\ Hit(a) => Matches(Cached(a).data[b], Len(issued), a, b)
         /\ (Hit(a) /\ b \in Cached(a).dirty) \/ Matches(ram[a][b], Len(issued), a, b)
  /\ (\A i \in DOMAIN issued : NeedRsp(issued[i])) => FlushReachesRam

\* Every request that wants a response gets it and every flush ends: no chain is
\* stranded, and the full pipeline, MSHR and pass-through table never wait for
\* each other ("a deadlock the input gate must make unreachable",
\* processInputs(); flush_caches() loops until flush_done()).
EverythingSettles == []<>(Outstanding = {} /\ flush # "on")
=============================================================================

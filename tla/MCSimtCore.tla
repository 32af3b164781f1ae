----------------------------- MODULE MCSimtCore -----------------------------
(***************************************************************************)
(* Small kernels for SimtCore, one for each mechanism.                     *)
(***************************************************************************)
EXTENDS SimtCore

All == 0 .. 9

Op(op) == [op |-> op, bar |-> 0, glob |-> FALSE, n |-> 0, to |-> 0, who |-> All]
To(op, target) == [Op(op) EXCEPT !.to = target]
Leader(op) == [Op(op) EXCEPT !.who = {0}]
Global(op) == [Op(op) EXCEPT !.glob = TRUE, !.n = Cardinality(Cores)]
Mask(n) == [Op("TMC") EXCEPT !.n = n]
Spawn(n, target) == [Op("WSPAWN") EXCEPT !.n = n, !.to = target]

App(blocks, threads, prog) ==
    [ kernel |-> [grid |-> <<blocks, 1, 1>>, block |-> <<threads, 1, 1>>,
                  cluster |-> <<1, 1, 1>>, lmem_size |-> 0],
      code |-> prog ]

(* Three CTAs of two warps that fill local memory: the third waits for a   *)
(* slot, and finds the barrier as the CTA before it left it.               *)
SyncApp == [App(3, NumThreads + 1, <<Op("SYNC"), Op("SYNC"), Op("EXIT")>>)
              EXCEPT !.kernel.lmem_size = LmemCapacity]

(* Three CTAs of two warps: the third has a slot but waits for a warp. *)
PlainApp == App(3, NumThreads + 1, <<Op("EXIT")>>)

(* Nested divergence. *)
DivergeApp == App(1, NumThreads, <<Op("SPLIT"), Op("SPLIT"), Op("SPLIT"), Op("NOP"),
                                   To("JOIN", 3), To("JOIN", 2), To("JOIN", 1), Op("EXIT")>>)

LoopApp == App(1, 2, <<Op("NOP"), To("PRED", 1), Op("EXIT")>>)

(* Arrive, work, wait: two generations. *)
AsyncApp == App(1, NumThreads + 1, <<Op("ARRIVE"), Op("NOP"), Op("WAIT"),
                        Op("ARRIVE"), Op("WAIT"), Op("EXIT")>>)

(* The leader announces and issues a transfer, all wait for it, twice. *)
TransferApp == App(1, NumThreads + 1, <<Leader("TX"), Leader("DXA"), Op("SYNC"),
                           Leader("TX"), Leader("DXA"), Op("SYNC"), Op("EXIT")>>)

(* The thread mask is narrowed and widened again. *)
MaskApp == App(1, NumThreads, <<Mask(1), Op("NOP"), Mask(NumThreads), Op("NOP"), Op("EXIT")>>)

(* All warps of both cores meet, waiting at once or later. *)
GlobalApp == App(Cardinality(Cores) * 2, 1, <<Global("SYNC"), Global("SYNC"), Op("EXIT")>>)

GlobalAsyncApp == App(Cardinality(Cores) + 1, 1,
                      <<Global("ARRIVE"), Global("WAIT"), Op("EXIT")>>)

(* Warp 0 spawns twice; the second time it waits for the first to be over. *)
SpawnApp == App(1, 1, <<Spawn(2, 4), Spawn(9, 4), Op("EXIT"), Op("NOP"), Op("EXIT")>>)

(* Grids for the dispatchers: clusters of two with a partial warp, blocks  *)
(* whose warp step carries from axis to axis, more local memory than there *)
(* is, clusters along z in two slots, clusters too large for the slots,    *)
(* and an empty grid.                                                      *)
Shape(grid, block, cluster, lmem) ==
    [ kernel |-> [grid |-> grid, block |-> block, cluster |-> cluster, lmem_size |-> lmem],
      code |-> <<Op("EXIT")>> ]

Shapes ==
    { Shape(<<2, 2, 1>>, <<3, 1, 1>>, <<2, 1, 1>>, 0),
      Shape(<<2, 1, 1>>, <<3, 2, 2>>, <<1, 1, 1>>, 3),
      Shape(<<1, 1, 3>>, <<1, 1, 5>>, <<1, 1, 1>>, 9),
      Shape(<<3, 1, 2>>, <<1, 2, 2>>, <<1, 1, 2>>, 2),
      Shape(<<2, 2, 1>>, <<3, 1, 2>>, <<2, 1, 1>>, 5),
      Shape(<<2, 0, 1>>, <<1, 1, 1>>, <<1, 1, 1>>, 0) }

MCApps ==
    Shapes \cup {SyncApp, PlainApp, DivergeApp, LoopApp, AsyncApp, TransferApp, MaskApp,
                 GlobalApp, GlobalAsyncApp, SpawnApp}
MCKernels == {a.kernel : a \in MCApps}

(* Three generations on one barrier. *)
LongAsyncApp == App(1, NumThreads + 1, <<Op("ARRIVE"), Op("WAIT"), Op("ARRIVE"), Op("WAIT"),
                            Op("ARRIVE"), Op("WAIT"), Op("EXIT")>>)

LongAsyncApps == {LongAsyncApp}
LongAsyncKernels == {a.kernel : a \in LongAsyncApps}
=============================================================================

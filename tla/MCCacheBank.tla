----------------------------- MODULE MCCacheBank -----------------------------
(***************************************************************************)
(* Configurations of CacheBank for TLC.                                    *)
(***************************************************************************)
EXTENDS CacheBank

Rq(op, t, s, en, h) ==
  [op |-> op, addr |-> <<t, s>>, en |-> en, hart |-> h, strsp |-> FALSE]
\* The same requests, but stores ask for a response.
StRsp(traffic) == {[r EXCEPT !.strsp = (r.op = "ST")] : r \in traffic}
Config(wb, llc, rsp, policy, ways, size, foreign, traffic) ==
  [write_back |-> wb, is_llc |-> llc, write_response |-> rsp, repl |-> policy, ways |-> ways,
   mshr_size |-> size, foreign |-> foreign, traffic |-> traffic]

\* Loads of the lines L and stores to the lines S, which share the set.
Lines(L, S) == {Rq("LD", t, 0, Bytes, 1) : t \in L} \cup {Rq("ST", t, 0, {1}, 1) : t \in S}
\* LR, SC and the other operations in ops by two harts, on one line.
Reserve(ops) == {Rq(op, 1, 0, {1}, h) : op \in {"LR", "SC"} \cup ops, h \in Harts}
\* Atomics done in memory against loads and stores of the same line.
Atomics == {Rq("LD", 1, 0, Bytes, 1), Rq("ST", 1, 0, {1}, 1), Rq("RMW", 1, 0, {1}, 1),
            Rq("RMW", 2, 0, {1}, 1)}
\* Two sectors of one line and another line that evicts it.
Sectored == {Rq("LD", 1, 1, Bytes, 1), Rq("ST", 1, 0, {1}, 1), Rq("LD", 2, 0, Bytes, 1)}

\* A set of two ways that three lines compete for, of one way, the policies, a
\* small and a large MSHR, the last level, atomics, and a second cache below.
MCConfigs ==
  {Config(wb, FALSE, FALSE, "FIFO", 2, 2, {}, Lines({1, 2, 3}, {1, 2})) : wb \in BOOLEAN}
    \cup {Config(TRUE, FALSE, FALSE, "FIFO", 1, 3, {}, StRsp(Lines({1, 2}, {1}))),
          Config(FALSE, FALSE, TRUE, "FIFO", 1, 3, {}, Lines({1, 2}, {1}))}
    \cup {Config(TRUE, FALSE, FALSE, policy, 2, 2, {}, Lines({1, 2, 3}, {1})) :
            policy \in {"PLRU", "RANDOM"}}
    \cup {Config(TRUE, TRUE, TRUE, "FIFO", 2, 2, {}, Reserve({"ST"})),
          Config(FALSE, TRUE, FALSE, "FIFO", 2, 3, {}, Reserve({"ST"}))}
    \cup {Config(wb, FALSE, FALSE, "FIFO", 2, 2, {}, Atomics) : wb \in BOOLEAN}
    \cup {Config(TRUE, FALSE, FALSE, "FIFO", 1, 2, {2}, Sectored)}

\* A write-through bank, as the data cache of a device with several cores is.
WriteThroughConfigs == {Config(FALSE, FALSE, FALSE, "FIFO", 2, 3, {}, Lines({1}, {1}))}

\* A write-through bank of the last level with stores among its LR and SC, as the
\* data cache of a device with several cores and no second level is.
LlcStoreConfigs == {Config(FALSE, TRUE, FALSE, "FIFO", 2, 3, {}, Reserve({"ST"}))}
\* One way, so that each of two fills in the pipeline evicts the other's line.
EvictConfigs ==
  {Config(TRUE, FALSE, FALSE, "FIFO", 1, 3, {}, Lines({2, 3}, {1}))}
\* A write-back bank whose stores nobody waits for.
StoreConfigs == {Config(TRUE, FALSE, FALSE, "FIFO", 1, 2, {}, Lines({}, {1}))}
=============================================================================

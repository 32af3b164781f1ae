------------------------ MODULE LegacyRuntimeProofs ------------------------
(***************************************************************************)
(* Proofs about LegacyRuntime, for any threads, entry points, timeouts and *)
(* number of calls: who owns the events, and what a successful             *)
(* vx_ready_wait or vx_dev_close promises.                                 *)
(***************************************************************************)
EXTENDS LegacyRuntime, TLAPS, FiniteSetTheorems, SequenceTheorems

Places == {"idle", "take", "wait", "lookup", "register", "publish", "unregister",
           "enqueue", "launch", "remember", "copying"}

Kinds == {"dcr", "launch", "copy"}

Sent == [kind : Kinds, by : Callers, started : BOOLEAN, timedOut : BOOLEAN]

(* Events and counts.                                                      *)
EventTypes ==
    /\ sent \in Seq(Sent)
    /\ evrefs \in Seq(Int) /\ Len(evrefs) = Len(sent)
    /\ retired \in 0 .. Len(sent)
    /\ legacy_last \in 0 .. Len(sent)

CallerTypes ==
    /\ at \in [Callers -> Places]
    /\ call \in [Callers -> Entries]
    /\ ev \in [Callers -> 0 .. Len(sent)]
    /\ owed \in [Callers -> SUBSET Nat]
    /\ answer \in [Callers -> {"none", "ok", "timeout"}]

(* A thread holds an event only from taking or enqueueing it to the wait.  *)
Waits(t) == at[t] \in {"wait", "remember", "copying"}

HoldInv == \A t \in Callers : ev[t] # 0 => Waits(t)

OwnerInv == EventTypes /\ CallerTypes /\ HoldInv /\ EventOwned

-----------------------------------------------------------------------------
(* One driver: at most one thread launches, waits for launches and closes. *)

DriverCalls == {"start", "ready", "close"}
OneDriver ==
    \A t, u \in Callers :
        MayCall[t] \cap DriverCalls # {} /\ MayCall[u] \cap DriverCalls # {} => t = u

(* A thread in such a call is the driver, and a launch is the driver's.    *)
RoleInv ==
    \A t \in Callers :
        /\ call[t] # "copy" => call[t] \in MayCall[t]
        /\ at[t] \in {"take", "wait", "launch", "remember"} => call[t] # "copy"
        /\ at[t] \in {"launch", "remember"} => call[t] = "start"
        /\ at[t] = "copying" => call[t] = "copy"

(* What the driver has taken nobody has put back.                          *)
TakenInv ==
    \A t \in Callers :
        call[t] # "copy" /\ at[t] \notin {"idle", "take"} => legacy_last = 0

(* A launch not yet remembered is the one its thread is about to remember. *)
FreshInv ==
    \A e \in DOMAIN sent :
        sent[e].kind = "launch" /\ ~sent[e].started =>
            at[sent[e].by] = "remember" /\ ev[sent[e].by] = e

(* A started launch is complete, remembered, or waited for.                *)
Covered(e) ==
    \/ HasCompleted(e)
    \/ e = legacy_last
    \/ \E t \in Callers : at[t] = "wait" /\ e = ev[t]

LaunchInv == \A e \in Launched : Covered(e)

(* What a waiting call owes is complete, or what it takes and waits for.   *)
OwedInv ==
    \A t \in Callers :
        call[t] \in {"ready", "close"} /\ at[t] \in {"take", "wait"} =>
            \A e \in owed[t] :
                \/ HasCompleted(e)
                \/ at[t] = "take" /\ e = legacy_last
                \/ at[t] = "wait" /\ e = ev[t]

DriverInv == RoleInv /\ TakenInv /\ FreshInv /\ LaunchInv /\ OwedInv /\ ReadyMeansDone

-----------------------------------------------------------------------------
(* Who holds an event.                                                     *)

Holders(f, e) == {t \in Callers : f[t] = e}

LEMMA HoldersFinite ==
    ASSUME NEW f, NEW e
    PROVE  IsFiniteSet(Holders(f, e)) /\ Cardinality(Holders(f, e)) \in Nat
<1>1. Holders(f, e) \subseteq Callers /\ IsFiniteSet(Callers)
  BY LegacyAssumption DEF Holders
<1>2. IsFiniteSet(Holders(f, e))
  BY <1>1, FS_Subset
<1> QED BY <1>2, FS_CardinalityType

(* Changing what one thread holds changes the count of two events.         *)
LEMMA HolderCount ==
    \A f, g, e : \A t \in Callers :
        (\A u \in Callers : u # t => g[u] = f[u]) =>
            Cardinality(Holders(g, e))
              = Cardinality(Holders(f, e)) + (IF g[t] = e THEN 1 ELSE 0)
                                           - (IF f[t] = e THEN 1 ELSE 0)
<1> SUFFICES ASSUME NEW f, NEW g, NEW e, NEW t \in Callers,
                    \A u \in Callers : u # t => g[u] = f[u]
             PROVE  Cardinality(Holders(g, e))
                      = Cardinality(Holders(f, e)) + (IF g[t] = e THEN 1 ELSE 0)
                                                   - (IF f[t] = e THEN 1 ELSE 0)
  OBVIOUS
<1> DEFINE rest == Holders(f, e) \ {t}
<1>1. IsFiniteSet(Holders(f, e)) /\ Cardinality(Holders(f, e)) \in Nat
  BY HoldersFinite
<1>2. IsFiniteSet(rest) /\ t \notin rest
  BY <1>1, FS_Subset
<1>3. Cardinality(rest) = IF t \in Holders(f, e) THEN Cardinality(Holders(f, e)) - 1
                          ELSE Cardinality(Holders(f, e))
  BY <1>1, FS_RemoveElement, Zenon
<1>4. Cardinality(rest \cup {t}) = IF t \in rest THEN Cardinality(rest) ELSE Cardinality(rest) + 1
  BY <1>2, FS_AddElement, Zenon
<1>5. t \in Holders(f, e) <=> f[t] = e
  BY DEF Holders
<1>6. Holders(g, e) = IF g[t] = e THEN rest \cup {t} ELSE rest
  BY DEF Holders
<1> DEFINE n == Cardinality(Holders(f, e))
           m == Cardinality(rest)
<1>7. n \in Nat /\ m = IF f[t] = e THEN n - 1 ELSE n
  BY <1>1, <1>3, <1>5
<1>8. Cardinality(Holders(g, e)) = IF g[t] = e THEN m + 1 ELSE m
  BY <1>2, <1>4, <1>6
<1> HIDE DEF n, m
<1>9. Cardinality(Holders(g, e)) = n + (IF g[t] = e THEN 1 ELSE 0) - (IF f[t] = e THEN 1 ELSE 0)
  BY <1>7, <1>8
<1> QED BY <1>9 DEF n

(* What a thread now holds, in the form the proofs below use. *)
LEMMA HeldNow ==
    ASSUME NEW t \in Callers, \A u \in Callers : u # t => ev'[u] = ev[u]
    PROVE  \A e : Cardinality(Holders(ev', e)) = Cardinality(Holders(ev, e))
             + (IF ev'[t] = e THEN 1 ELSE 0) - (IF ev[t] = e THEN 1 ELSE 0)
<1> DEFINE Counted(f, g, a, b) ==
      (\A u \in Callers : u # b => g[u] = f[u]) => Cardinality(Holders(g, a))
          = Cardinality(Holders(f, a)) + (IF g[b] = a THEN 1 ELSE 0)
                                       - (IF f[b] = a THEN 1 ELSE 0)
<1>2. \A f, g, a : \A b \in Callers : Counted(f, g, a, b)
  BY HolderCount
<1>3. \A g, a : \A b \in Callers : Counted(ev, g, a, b)
  BY <1>2, Zenon
<1>4. \A a : \A b \in Callers : Counted(ev, ev', a, b)
  BY <1>3, Zenon
<1>5. \A a : Counted(ev, ev', a, t)
  BY <1>4, Zenon
<1> QED BY <1>5, Zenon

(* The references event e should have.                                     *)
Due(e) == (IF e <= retired THEN 0 ELSE 1) + (IF legacy_last = e THEN 1 ELSE 0)
            + Cardinality(Holders(ev, e))

LEMMA OwnedMeansDue == EventOwned <=> \A e \in DOMAIN sent : evrefs[e] = Due(e)
BY DEF EventOwned, Due, HasCompleted, Holders

LEMMA TypeParts ==
    ASSUME EventTypes
    PROVE  /\ Len(sent) \in Nat /\ DOMAIN sent = 1 .. Len(sent)
           /\ DOMAIN evrefs = 1 .. Len(sent) /\ evrefs \in [1 .. Len(sent) -> Int]
           /\ retired \in Nat /\ legacy_last \in Nat
<1>1. Len(sent) \in Nat /\ DOMAIN sent = 1 .. Len(sent) /\ DOMAIN evrefs = 1 .. Len(sent)
  BY DEF EventTypes
<1>2. evrefs \in [1 .. Len(evrefs) -> Int]
  BY DEF EventTypes
<1> QED BY <1>1, <1>2 DEF EventTypes

(* Releasing an event: its count goes down by one, no other changes.       *)
LEMMA ReleasedParts ==
    ASSUME EventTypes, NEW x \in 0 .. Len(sent)
    PROVE  /\ Released(x) \in Seq(Int) /\ Len(Released(x)) = Len(sent)
           /\ \A e \in 1 .. Len(sent) :
                Released(x)[e] = evrefs[e] - (IF x = e THEN 1 ELSE 0)
<1>0. Len(sent) \in Nat /\ evrefs \in [1 .. Len(sent) -> Int] /\ evrefs \in Seq(Int)
      /\ Len(evrefs) = Len(sent)
  BY TypeParts DEF EventTypes
<1>1. CASE x = 0
  BY <1>0, <1>1 DEF Released
<1>2. CASE x # 0
  <2>1. x \in 1 .. Len(sent) /\ evrefs[x] - 1 \in Int
    BY <1>0, <1>2
  <2>2. Released(x) = [evrefs EXCEPT ![x] = evrefs[x] - 1]
    BY <1>2 DEF Released
  <2>3. Released(x) \in [1 .. Len(sent) -> Int]
    BY <1>0, <2>1, <2>2
  <2>4. Released(x) \in Seq(Int) /\ Len(Released(x)) = Len(sent)
    BY <1>0, <2>3
  <2>5. \A e \in 1 .. Len(sent) : Released(x)[e] = evrefs[e] - (IF x = e THEN 1 ELSE 0)
    BY <1>0, <2>1, <2>2
  <2> QED BY <2>4, <2>5
<1> QED BY <1>1, <1>2

-----------------------------------------------------------------------------
(* Every step keeps the owners right.                                      *)

LEMMA OwnerInit == LegacyInit => OwnerInv
<1> SUFFICES ASSUME LegacyInit PROVE OwnerInv
  OBVIOUS
<1>1. sent = <<>> /\ evrefs = <<>> /\ retired = 0 /\ legacy_last = 0 /\ Len(sent) = 0
  BY DEF LegacyInit
<1>2. EventTypes
  BY <1>1 DEF EventTypes
<1>3. CallerTypes /\ HoldInv
  BY <1>1 DEF LegacyInit, CallerTypes, HoldInv, Places, Entries
<1>4. EventOwned
  BY <1>1 DEF EventOwned
<1> QED BY <1>2, <1>3, <1>4 DEF OwnerInv

(* A thread moves without touching events. *)
LEMMA MoveOwner ==
    ASSUME OwnerInv, NEW t \in Callers, NEW p \in Places, ev[t] = 0,
           at' = [at EXCEPT ![t] = p],
           UNCHANGED <<sent, retired, evrefs, legacy_last, ev>>,
           call' \in [Callers -> Entries], owed' \in [Callers -> SUBSET Nat],
           answer' \in [Callers -> {"none", "ok", "timeout"}]
    PROVE  OwnerInv'
<1>1. EventTypes'
  BY DEF OwnerInv, EventTypes
<1>2. CallerTypes'
  BY DEF OwnerInv, CallerTypes
<1>3. HoldInv'
  BY DEF OwnerInv, CallerTypes, HoldInv, Waits
<1>4. EventOwned'
  BY DEF OwnerInv, EventOwned, HasCompleted
<1> QED BY <1>1, <1>2, <1>3, <1>4 DEF OwnerInv

(* A thread gives up the event it holds. *)
LEMMA ReleaseOwner ==
    ASSUME OwnerInv, NEW t \in Callers, NEW p \in Places, at' = [at EXCEPT ![t] = p],
           sent' \in Seq(Sent), Len(sent') = Len(sent),
           evrefs' = Released(ev[t]), ev' = [ev EXCEPT ![t] = 0],
           UNCHANGED <<retired, legacy_last, call, owed>>,
           answer' \in [Callers -> {"none", "ok", "timeout"}]
    PROVE  OwnerInv'
<1>0. EventTypes /\ CallerTypes /\ HoldInv /\ EventOwned
  BY DEF OwnerInv
<1>1. ev[t] \in 0 .. Len(sent) /\ ev \in [Callers -> 0 .. Len(sent)]
  BY <1>0 DEF CallerTypes
<1>2. /\ evrefs' \in Seq(Int) /\ Len(evrefs') = Len(sent)
      /\ \A e \in 1 .. Len(sent) : evrefs'[e] = evrefs[e] - (IF ev[t] = e THEN 1 ELSE 0)
  BY <1>0, <1>1, ReleasedParts
<1>3. /\ Len(sent) \in Nat /\ DOMAIN sent = 1 .. Len(sent) /\ DOMAIN sent' = 1 .. Len(sent)
      /\ retired \in Nat /\ legacy_last \in Nat
  BY <1>0, TypeParts
<1>4. EventTypes'
  BY <1>0, <1>2, <1>3 DEF EventTypes
<1>5. CallerTypes'
  BY <1>0, <1>3 DEF CallerTypes
<1>6. HoldInv'
  BY <1>0, <1>1 DEF HoldInv, Waits, CallerTypes
<1>7. ASSUME NEW e \in 1 .. Len(sent)
      PROVE  evrefs'[e] = Due(e)'
  <2>1. evrefs[e] = Due(e)
    BY <1>0, <1>3, OwnedMeansDue
  <2>2. Cardinality(Holders(ev', e))
          = Cardinality(Holders(ev, e)) + (IF 0 = e THEN 1 ELSE 0) - (IF ev[t] = e THEN 1 ELSE 0)
    <3>1. \A u \in Callers : u # t => ev'[u] = ev[u]
      BY <1>1, <1>2
    <3>2. ev'[t] = 0
      BY <1>1, <1>2
    <3>3. \A a : Cardinality(Holders(ev', a)) = Cardinality(Holders(ev, a))
             + (IF ev'[t] = a THEN 1 ELSE 0) - (IF ev[t] = a THEN 1 ELSE 0)
      BY <3>1, HeldNow
    <3> QED BY <3>2, <3>3
  <2>3. Cardinality(Holders(ev, e)) \in Nat /\ e # 0
    BY <1>3, HoldersFinite
  <2>4. Due(e)' = Due(e) - (IF ev[t] = e THEN 1 ELSE 0)
    BY <1>3, <2>2, <2>3 DEF Due, Holders
  <2> QED BY <1>2, <2>1, <2>4
<1>8. EventOwned'
  BY <1>3, <1>7, OwnedMeansDue DEF EventOwned, Due, HasCompleted, Holders
<1> QED BY <1>4, <1>5, <1>6, <1>8 DEF OwnerInv

LEMMA TakeOwner ==
    ASSUME OwnerInv, NEW t \in Callers, TakeLast(t)
    PROVE  OwnerInv'
<1>0. EventTypes /\ CallerTypes /\ HoldInv /\ EventOwned
  BY DEF OwnerInv
<1>1. ev[t] = 0 /\ ev \in [Callers -> 0 .. Len(sent)] /\ ev' = [ev EXCEPT ![t] = legacy_last]
  BY <1>0 DEF TakeLast, Go, HoldInv, Waits, CallerTypes
<1>2. /\ legacy_last' = 0 /\ sent' = sent /\ evrefs' = evrefs /\ retired' = retired
      /\ at' = [at EXCEPT ![t] = "wait"]
  BY DEF TakeLast, Go, queueVars
<1>3. Len(sent) \in Nat /\ DOMAIN sent = 1 .. Len(sent) /\ legacy_last \in Nat
  BY <1>0, TypeParts
<1>4. EventTypes'
  BY <1>0, <1>2, <1>3 DEF EventTypes
<1>5. CallerTypes'
  BY <1>0, <1>1, <1>2 DEF CallerTypes, EventTypes, TakeLast, Places
<1>6. HoldInv'
  BY <1>0, <1>1, <1>2 DEF HoldInv, Waits, CallerTypes
<1>7. ASSUME NEW e \in 1 .. Len(sent)
      PROVE  evrefs'[e] = Due(e)'
  <2>1. evrefs[e] = Due(e)
    BY <1>0, <1>3, OwnedMeansDue
  <2>2. Cardinality(Holders(ev', e)) = Cardinality(Holders(ev, e))
          + (IF legacy_last = e THEN 1 ELSE 0) - (IF ev[t] = e THEN 1 ELSE 0)
    <3>1. \A u \in Callers : u # t => ev'[u] = ev[u]
      BY <1>1, <1>2
    <3>2. ev'[t] = legacy_last
      BY <1>1, <1>2
    <3>3. \A a : Cardinality(Holders(ev', a)) = Cardinality(Holders(ev, a))
             + (IF ev'[t] = a THEN 1 ELSE 0) - (IF ev[t] = a THEN 1 ELSE 0)
      BY <3>1, HeldNow
    <3> QED BY <3>2, <3>3
  <2>3. Cardinality(Holders(ev, e)) \in Nat /\ e # 0
    BY <1>3, HoldersFinite
  <2>4. Due(e)' = Due(e)
    BY <1>1, <1>2, <1>3, <2>2, <2>3 DEF Due, Holders
  <2> QED BY <1>2, <2>1, <2>4
<1>8. EventOwned'
  BY <1>2, <1>3, <1>7, OwnedMeansDue DEF EventOwned, Due, HasCompleted, Holders
<1> QED BY <1>4, <1>5, <1>6, <1>8 DEF OwnerInv

(* A command is enqueued: the worker holds its event, and the thread too   *)
(* if it asked for it (x is the event then, and 0 otherwise).              *)
LEMMA AppendOwner ==
    ASSUME OwnerInv, NEW t \in Callers, NEW p \in Places, NEW k \in Kinds,
           ev[t] = 0, at' = [at EXCEPT ![t] = p],
           NEW n, NEW x, Append1(k, t, n), ev' = [ev EXCEPT ![t] = x],
           \/ n = 1 /\ x = 0
           \/ n = 2 /\ x = Len(sent) + 1 /\ p \in {"remember", "copying"},
           UNCHANGED <<legacy_last, call, owed, answer>>
    PROVE  OwnerInv'
<1>0. EventTypes /\ CallerTypes /\ HoldInv /\ EventOwned
  BY DEF OwnerInv
<1>1. /\ Len(sent) \in Nat /\ DOMAIN sent = 1 .. Len(sent) /\ evrefs \in [1 .. Len(sent) -> Int]
      /\ retired \in 0 .. Len(sent) /\ legacy_last \in 0 .. Len(sent)
      /\ ev \in [Callers -> 0 .. Len(sent)]
  BY <1>0, TypeParts DEF EventTypes, CallerTypes
<1> DEFINE r == [kind |-> k, by |-> t, started |-> FALSE, timedOut |-> FALSE]
<1>2. sent' = Append(sent, r) /\ evrefs' = Append(evrefs, n) /\ retired' = retired
  BY DEF Append1
<1>3. r \in Sent /\ n \in Int
  BY DEF Sent
<1> HIDE DEF r
<1>4. sent' \in Seq(Sent) /\ Len(sent') = Len(sent) + 1
  BY <1>0, <1>2, <1>3 DEF EventTypes
<1>5. /\ evrefs' \in Seq(Int) /\ Len(evrefs') = Len(sent) + 1
      /\ evrefs'[Len(sent) + 1] = n /\ \A e \in 1 .. Len(sent) : evrefs'[e] = evrefs[e]
  BY <1>0, <1>1, <1>2, <1>3 DEF EventTypes
<1>6. EventTypes'
  BY <1>1, <1>2, <1>4, <1>5 DEF EventTypes
<1>7. ev' \in [Callers -> 0 .. Len(sent')]
  BY <1>1, <1>4
<1>8. CallerTypes'
  BY <1>0, <1>7 DEF CallerTypes
<1>9. HoldInv'
  BY <1>0, <1>1 DEF HoldInv, Waits, CallerTypes
<1>10. ASSUME NEW e \in 1 .. Len(sent) + 1
       PROVE  evrefs'[e] = Due(e)'
  <2>1. Cardinality(Holders(ev', e)) = Cardinality(Holders(ev, e))
          + (IF x = e THEN 1 ELSE 0) - (IF ev[t] = e THEN 1 ELSE 0)
    <3>1. \A u \in Callers : u # t => ev'[u] = ev[u]
      BY <1>1, <1>2
    <3>2. ev'[t] = x
      BY <1>1, <1>2
    <3>3. \A a : Cardinality(Holders(ev', a)) = Cardinality(Holders(ev, a))
             + (IF ev'[t] = a THEN 1 ELSE 0) - (IF ev[t] = a THEN 1 ELSE 0)
      BY <3>1, HeldNow
    <3> QED BY <3>2, <3>3
  <2>2. Cardinality(Holders(ev, e)) \in Nat /\ e # 0
    BY <1>1, HoldersFinite
  <2>3. CASE e \in 1 .. Len(sent)
    <3>1. evrefs[e] = Due(e)
      BY <1>0, <1>1, <2>3, OwnedMeansDue
    <3>2. Due(e)' = Due(e)
      BY <1>1, <1>2, <2>1, <2>2, <2>3 DEF Due, Holders
    <3> QED BY <1>5, <2>3, <3>1, <3>2
  <2>4. CASE e = Len(sent) + 1
    <3>1. Holders(ev, e) = {}
      BY <1>1, <2>4 DEF Holders
    <3>2. Cardinality(Holders(ev, e)) = 0
      BY <3>1, FS_EmptySet
    <3>3. Cardinality(Holders(ev', e)) = IF x = e THEN 1 ELSE 0
      BY <2>1, <2>2, <3>2
    <3>4. Due(e)' = n
      BY <1>1, <1>2, <2>2, <2>4, <3>3 DEF Due, Holders
    <3> QED BY <1>5, <2>4, <3>4
  <2>5. e \in 1 .. Len(sent) \/ e = Len(sent) + 1
    BY <1>1
  <2> QED BY <2>3, <2>4, <2>5
<1>11. EventOwned'
  BY <1>4, <1>10, OwnedMeansDue DEF EventOwned, Due, HasCompleted, Holders
<1> QED BY <1>6, <1>8, <1>9, <1>11 DEF OwnerInv

(* Remembering: legacy_last_ gives up one event for the thread's.          *)
LEMMA RememberOwner ==
    ASSUME OwnerInv, NEW t \in Callers, Remember(t)
    PROVE  OwnerInv'
<1>0. EventTypes /\ CallerTypes /\ HoldInv /\ EventOwned
  BY DEF OwnerInv
<1>1. /\ Len(sent) \in Nat /\ DOMAIN sent = 1 .. Len(sent)
      /\ retired \in 0 .. Len(sent) /\ legacy_last \in 0 .. Len(sent)
      /\ ev \in [Callers -> 0 .. Len(sent)] /\ ev[t] \in 0 .. Len(sent)
  BY <1>0, TypeParts DEF EventTypes, CallerTypes
<1>2. /\ at' = [at EXCEPT ![t] = "idle"] /\ ev' = [ev EXCEPT ![t] = 0]
      /\ answer' = [answer EXCEPT ![t] = "ok"] /\ UNCHANGED <<call, owed, retired>>
      /\ legacy_last' = ev[t] /\ evrefs' = Released(legacy_last)
  BY DEF Remember, Returns, Go
<1>3. sent' \in Seq(Sent) /\ Len(sent') = Len(sent)
  <2>1. \A e \in 1 .. Len(sent) : sent[e] \in Sent
    BY <1>0 DEF EventTypes
  <2>2. sent' = [e \in 1 .. Len(sent) |->
                  [sent[e] EXCEPT !.started = @ \/ (sent[e].kind = "launch" /\ sent[e].by = t)]]
    BY <1>1 DEF Remember
  <2>3. \A e \in 1 .. Len(sent) :
          [sent[e] EXCEPT !.started = @ \/ (sent[e].kind = "launch" /\ sent[e].by = t)] \in Sent
    BY <2>1 DEF Sent
  <2>4. sent' \in [1 .. Len(sent) -> Sent]
    BY <2>2, <2>3
  <2> QED BY <1>1, <2>4
<1>4. /\ evrefs' \in Seq(Int) /\ Len(evrefs') = Len(sent)
      /\ \A e \in 1 .. Len(sent) : evrefs'[e] = evrefs[e] - (IF legacy_last = e THEN 1 ELSE 0)
  BY <1>0, <1>1, <1>2, ReleasedParts
<1>5. EventTypes'
  BY <1>1, <1>2, <1>3, <1>4 DEF EventTypes
<1>6. CallerTypes'
  BY <1>0, <1>1, <1>2, <1>3 DEF CallerTypes, Places
<1>7. HoldInv'
  BY <1>0, <1>1, <1>2 DEF HoldInv, Waits, CallerTypes
<1>8. ASSUME NEW e \in 1 .. Len(sent)
      PROVE  evrefs'[e] = Due(e)'
  <2>1. evrefs[e] = Due(e)
    BY <1>0, <1>1, OwnedMeansDue
  <2>2. Cardinality(Holders(ev', e))
          = Cardinality(Holders(ev, e)) + (IF 0 = e THEN 1 ELSE 0) - (IF ev[t] = e THEN 1 ELSE 0)
    <3>1. \A u \in Callers : u # t => ev'[u] = ev[u]
      BY <1>1, <1>2
    <3>2. ev'[t] = 0
      BY <1>1, <1>2
    <3>3. \A a : Cardinality(Holders(ev', a)) = Cardinality(Holders(ev, a))
             + (IF ev'[t] = a THEN 1 ELSE 0) - (IF ev[t] = a THEN 1 ELSE 0)
      BY <3>1, HeldNow
    <3> QED BY <3>2, <3>3
  <2>3. Cardinality(Holders(ev, e)) \in Nat /\ e # 0
    BY <1>1, HoldersFinite
  <2>4. Due(e)' = Due(e) - (IF legacy_last = e THEN 1 ELSE 0)
    BY <1>1, <1>2, <2>2, <2>3 DEF Due, Holders
  <2> QED BY <1>4, <2>1, <2>4
<1>9. EventOwned'
  BY <1>1, <1>3, <1>8, OwnedMeansDue DEF EventOwned, Due, HasCompleted, Holders
<1> QED BY <1>5, <1>6, <1>7, <1>9 DEF OwnerInv

LEMMA WorkerOwner ==
    ASSUME OwnerInv, WorkerCompletes
    PROVE  OwnerInv'
<1>0. EventTypes /\ CallerTypes /\ HoldInv /\ EventOwned
  BY DEF OwnerInv
<1>1. /\ Len(sent) \in Nat /\ DOMAIN sent = 1 .. Len(sent) /\ retired \in 0 .. Len(sent)
      /\ retired + 1 \in 0 .. Len(sent)
  BY <1>0, TypeParts DEF EventTypes, WorkerCompletes
<1>2. /\ retired' = retired + 1 /\ evrefs' = Released(retired + 1)
      /\ UNCHANGED <<sent, legacy_last, ev, at, call, owed, answer>>
  BY DEF WorkerCompletes, deviceVars
<1>3. /\ evrefs' \in Seq(Int) /\ Len(evrefs') = Len(sent)
      /\ \A e \in 1 .. Len(sent) : evrefs'[e] = evrefs[e] - (IF retired + 1 = e THEN 1 ELSE 0)
  BY <1>0, <1>1, <1>2, ReleasedParts
<1>4. EventTypes'
  BY <1>0, <1>1, <1>2, <1>3 DEF EventTypes
<1>5. CallerTypes' /\ HoldInv'
  BY <1>0, <1>2 DEF CallerTypes, HoldInv, Waits
<1>6. ASSUME NEW e \in 1 .. Len(sent)
      PROVE  evrefs'[e] = Due(e)'
  <2>1. evrefs[e] = Due(e)
    BY <1>0, <1>1, OwnedMeansDue
  <2>2. Holders(ev', e) = Holders(ev, e) /\ Cardinality(Holders(ev, e)) \in Nat
    BY <1>2, HoldersFinite
  <2>3. Due(e)' = Due(e) - (IF retired + 1 = e THEN 1 ELSE 0)
    BY <1>1, <1>2, <2>2 DEF Due, Holders
  <2> QED BY <1>3, <2>1, <2>3
<1>7. EventOwned'
  BY <1>1, <1>2, <1>6, OwnedMeansDue DEF EventOwned, Due, HasCompleted, Holders
<1> QED BY <1>4, <1>5, <1>7 DEF OwnerInv
(* A step leaves the types and the owners right. *)
LEMMA NextOwner ==
    ASSUME OwnerInv, [LegacyNext]_legacyVars
    PROVE  OwnerInv'
<1>0. /\ EventTypes /\ CallerTypes /\ HoldInv /\ EventOwned
      /\ Len(sent) \in Nat /\ DOMAIN sent = 1 .. Len(sent)
      /\ at \in [Callers -> Places] /\ call \in [Callers -> Entries]
      /\ owed \in [Callers -> SUBSET Nat] /\ answer \in [Callers -> {"none", "ok", "timeout"}]
      /\ ev \in [Callers -> 0 .. Len(sent)]
  BY TypeParts DEF OwnerInv, CallerTypes
<1>1. \A t \in Callers : ev[t] # 0 => at[t] \in {"wait", "remember", "copying"}
  BY <1>0 DEF HoldInv, Waits
<1>2. ASSUME NEW t \in Callers, NEW c \in Entries, Call(t, c)
      PROVE  OwnerInv'
  <2>1. PICK p \in Places : at' = [at EXCEPT ![t] = p]
    BY <1>2 DEF Call, Go, Places
  <2>2. ev[t] = 0
    BY <1>1, <1>2 DEF Call, Go
  <2>3. Launched \subseteq Nat
    BY <1>0 DEF Launched
  <2>4. owed' \in [Callers -> SUBSET Nat]
    BY <1>0, <1>2, <2>3 DEF Call
  <2>5. call' \in [Callers -> Entries] /\ answer' \in [Callers -> {"none", "ok", "timeout"}]
    BY <1>0, <1>2 DEF Call
  <2>6. UNCHANGED <<sent, retired, evrefs, legacy_last, ev>>
    BY <1>2 DEF Call, deviceVars, queueVars
  <2> QED BY <2>1, <2>2, <2>4, <2>5, <2>6, MoveOwner
<1>3. ASSUME NEW t \in Callers, Lookup(t) \/ RegisterQueue(t) \/ Publish(t)
      PROVE  OwnerInv'
  <2>1. PICK p \in Places : at' = [at EXCEPT ![t] = p]
    BY <1>3 DEF Lookup, RegisterQueue, Publish, Go, Places
  <2>2. ev[t] = 0
    BY <1>1, <1>3 DEF Lookup, RegisterQueue, Publish, Go
  <2>3. UNCHANGED <<sent, retired, evrefs, legacy_last, ev, call, owed, answer>>
    BY <1>3 DEF Lookup, RegisterQueue, Publish, deviceVars, queueVars, Stays
  <2> QED BY <1>0, <2>1, <2>2, <2>3, MoveOwner
<1>4. ASSUME NEW t \in Callers,
             Drained(t) \/ ReadyReturns(t) \/ CloseReturns(t) \/ CopyReturns(t)
      PROVE  OwnerInv'
  <2>1. PICK p \in Places : at' = [at EXCEPT ![t] = p]
    BY <1>4 DEF Drained, ReadyReturns, CloseReturns, CopyReturns, Returns, Go, Places
  <2>2. /\ evrefs' = Released(ev[t]) /\ ev' = [ev EXCEPT ![t] = 0]
        /\ UNCHANGED <<sent, retired, legacy_last, call, owed>>
    BY <1>4 DEF Drained, ReadyReturns, CloseReturns, CopyReturns, Returns, deviceVars
  <2>3. answer' = answer \/ answer' = [answer EXCEPT ![t] = "ok"]
    BY <1>4 DEF Drained, ReadyReturns, CloseReturns, CopyReturns, Returns
  <2>4. answer' \in [Callers -> {"none", "ok", "timeout"}]
    BY <1>0, <2>3
  <2>5. sent' \in Seq(Sent) /\ Len(sent') = Len(sent)
    BY <1>0, <2>2 DEF EventTypes
  <2> QED BY <2>1, <2>2, <2>4, <2>5, ReleaseOwner
<1>5. ASSUME NEW t \in Callers, ReadyTimesOut(t)
      PROVE  OwnerInv'
  <2>1. "idle" \in Places /\ at' = [at EXCEPT ![t] = "idle"]
    BY <1>5 DEF ReadyTimesOut, Returns, Go, Places
  <2>2. /\ evrefs' = Released(ev[t]) /\ ev' = [ev EXCEPT ![t] = 0]
        /\ UNCHANGED <<retired, legacy_last, call, owed>>
    BY <1>5 DEF ReadyTimesOut, Returns, deviceVars
  <2>3. answer' \in [Callers -> {"none", "ok", "timeout"}]
    BY <1>0, <1>5 DEF ReadyTimesOut, Returns
  <2>4. ev[t] \in 1 .. Len(sent) /\ sent[ev[t]] \in Sent /\ sent \in Seq(Sent)
    <3>1. ev[t] \in 1 .. Len(sent) /\ sent \in Seq(Sent)
      BY <1>0, <1>5 DEF ReadyTimesOut, HasCompleted, EventTypes
    <3> QED BY <3>1
  <2>5. sent' = [sent EXCEPT ![ev[t]] = [sent[ev[t]] EXCEPT !.timedOut = TRUE]]
    BY <1>5 DEF ReadyTimesOut
  <2>6. [sent[ev[t]] EXCEPT !.timedOut = TRUE] \in Sent
    BY <2>4 DEF Sent
  <2>7. sent' \in Seq(Sent) /\ Len(sent') = Len(sent)
    BY <1>0, <2>4, <2>5, <2>6
  <2> QED BY <2>1, <2>2, <2>3, <2>7, ReleaseOwner
<1>6. ASSUME NEW t \in Callers, EnqueueWrites(t)
      PROVE  OwnerInv'
  <2>1. ev[t] = 0 /\ "launch" \in Places /\ "dcr" \in Kinds
    BY <1>1, <1>6 DEF EnqueueWrites, Go, Places, Kinds
  <2>2. /\ at' = [at EXCEPT ![t] = "launch"] /\ Append1("dcr", t, 1)
        /\ UNCHANGED <<legacy_last, call, owed, answer, ev>>
    BY <1>6 DEF EnqueueWrites, Go, deviceVars, Stays
  <2>3. ev' = [ev EXCEPT ![t] = 0]
    BY <1>0, <2>1, <2>2
  <2> QED BY <2>1, <2>2, <2>3, AppendOwner
<1>7. ASSUME NEW t \in Callers, EnqueueLaunch(t)
      PROVE  OwnerInv'
  <2>1. ev[t] = 0 /\ "remember" \in Places /\ "launch" \in Kinds
    BY <1>1, <1>7 DEF EnqueueLaunch, Go, Places, Kinds
  <2>2. /\ at' = [at EXCEPT ![t] = "remember"] /\ Append1("launch", t, 2)
        /\ ev' = [ev EXCEPT ![t] = Len(sent) + 1]
        /\ UNCHANGED <<legacy_last, call, owed, answer>>
    BY <1>7 DEF EnqueueLaunch, Go, deviceVars
  <2> QED BY <2>1, <2>2, AppendOwner
<1>8. ASSUME NEW t \in Callers, EnqueueCopy(t)
      PROVE  OwnerInv'
  <2>1. ev[t] = 0 /\ "copying" \in Places /\ "copy" \in Kinds
    BY <1>1, <1>8 DEF EnqueueCopy, Go, Places, Kinds
  <2>2. /\ at' = [at EXCEPT ![t] = "copying"] /\ Append1("copy", t, 2)
        /\ ev' = [ev EXCEPT ![t] = Len(sent) + 1]
        /\ UNCHANGED <<legacy_last, call, owed, answer>>
    BY <1>8 DEF EnqueueCopy, Go, deviceVars
  <2> QED BY <2>1, <2>2, AppendOwner
<1>9. CASE UNCHANGED legacyVars
  BY <1>9 DEF legacyVars, OwnerInv, EventTypes, CallerTypes, HoldInv, Waits, EventOwned, HasCompleted
<1>10. ASSUME NEW t \in Callers, CallerStep(t)
       PROVE  OwnerInv'
  BY <1>3, <1>4, <1>6, <1>7, <1>8, <1>10, TakeOwner, RememberOwner DEF CallerStep
<1> QED BY <1>2, <1>5, <1>9, <1>10, WorkerOwner DEF LegacyNext

(***************************************************************************)
(* However the calls and the worker interleave, the references to an event *)
(* are those of the worker until it completes it, of legacy_last_ and of   *)
(* the calls that wait for it: it is never deleted under one of them, and  *)
(* is deleted when the last is done (legacy_runtime.cpp, device.cpp).      *)
(***************************************************************************)
THEOREM EventsOwned == LegacySpec => []EventOwned
<1>1. LegacyInit => OwnerInv
  BY OwnerInit
<1>2. OwnerInv /\ [LegacyNext]_legacyVars => OwnerInv'
  BY NextOwner
<1>3. OwnerInv => EventOwned
  BY DEF OwnerInv
<1> QED BY <1>1, <1>2, <1>3, PTL DEF LegacySpec
-----------------------------------------------------------------------------
(* What a successful wait promises, when one thread launches and waits.    *)

(* Only one thread is in a call that launches or waits for launches. *)
LEMMA SoleDriver ==
    ASSUME OneDriver, CallerTypes, RoleInv, NEW t \in Callers, NEW u \in Callers,
           MayCall[t] \cap DriverCalls # {}, call[u] # "copy"
    PROVE  t = u
<1>1. call[u] \in MayCall[u] \cap DriverCalls
  BY DEF CallerTypes, RoleInv, Entries, DriverCalls
<1> QED BY <1>1 DEF OneDriver

LEMMA DriverOnly ==
    ASSUME OneDriver, CallerTypes, RoleInv, NEW t \in Callers, call[t] # "copy"
    PROVE  \A u \in Callers : call[u] # "copy" => u = t
<1>1. call[t] \in MayCall[t] \cap DriverCalls
  BY DEF CallerTypes, RoleInv, Entries, DriverCalls
<1> QED BY <1>1, SoleDriver

LEMMA DriverInit == LegacyInit => DriverInv
<1> SUFFICES ASSUME LegacyInit PROVE DriverInv
  OBVIOUS
<1>1. RoleInv /\ TakenInv /\ OwedInv /\ ReadyMeansDone
  BY DEF LegacyInit, RoleInv, TakenInv, OwedInv, ReadyMeansDone
<1>2. DOMAIN sent = {}
  BY DEF LegacyInit
<1>3. FreshInv /\ LaunchInv
  BY <1>2 DEF FreshInv, LaunchInv, Launched
<1> QED BY <1>1, <1>3 DEF DriverInv

(* A thread moves through legacy_default_queue. *)
LEMMA MoveDriver ==
    ASSUME OwnerInv, DriverInv, NEW t \in Callers,
           at[t] \in {"lookup", "register", "publish", "unregister"},
           NEW p \in {"register", "publish", "unregister", "enqueue"},
           at' = [at EXCEPT ![t] = p],
           UNCHANGED <<sent, retired, evrefs, legacy_last, ev, call, owed, answer>>
    PROVE  DriverInv'
<1>0. at \in [Callers -> Places] /\ EventTypes
  BY DEF OwnerInv, CallerTypes
<1>1. at'[t] = p /\ \A u \in Callers : u # t => at'[u] = at[u]
  BY <1>0
<1>2. RoleInv' /\ TakenInv'
  BY <1>1 DEF DriverInv, RoleInv, TakenInv
<1>3. FreshInv'
  <2> SUFFICES ASSUME NEW e \in DOMAIN sent, sent[e].kind = "launch", ~sent[e].started
               PROVE  at'[sent[e].by] = "remember" /\ ev[sent[e].by] = e
    BY DEF FreshInv
  <2>1. at[sent[e].by] = "remember" /\ ev[sent[e].by] = e
    BY DEF DriverInv, FreshInv
  <2>2. sent[e] \in Sent
    BY <1>0 DEF EventTypes
  <2>3. sent[e].by \in Callers
    BY <2>2 DEF Sent
  <2> QED BY <1>1, <2>1, <2>3
<1>4. LaunchInv'
  <2> SUFFICES ASSUME NEW e \in Launched PROVE Covered(e)'
    BY DEF LaunchInv, Launched
  <2>1. Covered(e)
    BY DEF DriverInv, LaunchInv
  <2> QED BY <1>1, <2>1 DEF Covered, HasCompleted
<1>5. OwedInv' /\ ReadyMeansDone'
  BY <1>1 DEF DriverInv, OwedInv, ReadyMeansDone, HasCompleted
<1> QED BY <1>2, <1>3, <1>4, <1>5 DEF DriverInv
(* A step of a thread that is not about to remember a launch. *)
LEMMA FreshKept ==
    ASSUME EventTypes, FreshInv, NEW t \in Callers, at[t] # "remember", sent' = sent,
           \A u \in Callers : u # t => at'[u] = at[u] /\ ev'[u] = ev[u]
    PROVE  FreshInv'
<1> SUFFICES ASSUME NEW e \in DOMAIN sent, sent[e].kind = "launch", ~sent[e].started
             PROVE  at'[sent[e].by] = "remember" /\ ev'[sent[e].by] = e
  BY DEF FreshInv
<1>1. at[sent[e].by] = "remember" /\ ev[sent[e].by] = e
  BY DEF FreshInv
<1>2. sent[e] \in Sent
  BY DEF EventTypes
<1>3. sent[e].by \in Callers
  BY <1>2 DEF Sent
<1> QED BY <1>1, <1>3

LEMMA CallDriver ==
    ASSUME OneDriver, OwnerInv, DriverInv, NEW t \in Callers, NEW c \in Entries, Call(t, c)
    PROVE  DriverInv'
<1>0. /\ EventTypes /\ CallerTypes /\ RoleInv /\ TakenInv /\ FreshInv /\ LaunchInv /\ OwedInv
      /\ ReadyMeansDone
  BY DEF OwnerInv, DriverInv
<1>1. /\ at[t] = "idle" /\ at'[t] = (IF c = "copy" THEN "lookup" ELSE "take") /\ call'[t] = c
      /\ c \in MayCall[t]
      /\ \A u \in Callers : u # t => at'[u] = at[u] /\ call'[u] = call[u] /\ owed'[u] = owed[u]
      /\ UNCHANGED <<sent, retired, legacy_last, ev, answer>>
  BY <1>0 DEF CallerTypes, Call, Go, deviceVars, queueVars
<1>2. c \in {"ready", "close"} => owed'[t] = Launched
  BY <1>0 DEF CallerTypes, Call
<1>3. RoleInv' /\ TakenInv'
  BY <1>0, <1>1 DEF RoleInv, TakenInv
<1>4. FreshInv'
  BY <1>0, <1>1, FreshKept
<1>5. LaunchInv'
  <2> SUFFICES ASSUME NEW e \in Launched PROVE Covered(e)'
    BY <1>1 DEF LaunchInv, Launched
  <2>1. Covered(e)
    BY <1>0 DEF LaunchInv
  <2> QED BY <1>1, <2>1 DEF Covered, HasCompleted
<1>6. OwedInv'
  <2> SUFFICES ASSUME NEW u \in Callers, call'[u] \in {"ready", "close"}, at'[u] \in {"take", "wait"},
                      NEW e \in owed'[u]
               PROVE  \/ HasCompleted(e)'
                      \/ at'[u] = "take" /\ e = legacy_last'
                      \/ at'[u] = "wait" /\ e = ev'[u]
    BY DEF OwedInv
  <2>1. CASE u # t
    BY <1>0, <1>1, <2>1 DEF OwedInv, HasCompleted
  <2>2. CASE u = t
    <3>1. e \in Launched /\ at'[u] = "take" /\ c \in {"ready", "close"}
      BY <1>1, <1>2, <2>2
    <3>2. Covered(e)
      BY <1>0, <3>1 DEF LaunchInv
    <3>3. ASSUME NEW w \in Callers, at[w] = "wait" PROVE FALSE
      <4>1. call[w] # "copy" /\ MayCall[t] \cap DriverCalls # {}
        BY <1>0, <1>1, <3>1, <3>3 DEF RoleInv, DriverCalls
      <4>2. t = w
        BY <1>0, <4>1, SoleDriver
      <4> QED BY <1>1, <3>3, <4>2
    <3> QED BY <1>1, <3>1, <3>2, <3>3 DEF Covered, HasCompleted
  <2> QED BY <2>1, <2>2
<1>7. ReadyMeansDone'
  BY <1>0, <1>1 DEF ReadyMeansDone, HasCompleted
<1> QED BY <1>3, <1>4, <1>5, <1>6, <1>7 DEF DriverInv

LEMMA TakeDriver ==
    ASSUME OneDriver, OwnerInv, DriverInv, NEW t \in Callers, TakeLast(t)
    PROVE  DriverInv'
<1>0. /\ EventTypes /\ CallerTypes /\ RoleInv /\ TakenInv /\ FreshInv /\ LaunchInv /\ OwedInv
      /\ ReadyMeansDone
  BY DEF OwnerInv, DriverInv
<1>1. /\ at[t] = "take" /\ at'[t] = "wait" /\ ev'[t] = legacy_last /\ legacy_last' = 0
      /\ \A u \in Callers : u # t => at'[u] = at[u] /\ ev'[u] = ev[u]
      /\ UNCHANGED <<sent, retired, call, owed, answer>>
  BY <1>0 DEF CallerTypes, TakeLast, Go, queueVars
<1>2. call[t] # "copy" /\ \A u \in Callers : call[u] # "copy" => u = t
  BY <1>0, <1>1, DriverOnly DEF RoleInv
<1>3. RoleInv' /\ TakenInv'
  BY <1>0, <1>1 DEF RoleInv, TakenInv
<1>4. FreshInv'
  BY <1>0, <1>1, FreshKept
<1>5. LaunchInv'
  <2> SUFFICES ASSUME NEW e \in Launched PROVE Covered(e)'
    BY <1>1 DEF LaunchInv, Launched
  <2>1. Covered(e)
    BY <1>0 DEF LaunchInv
  <2> QED BY <1>1, <2>1 DEF Covered, HasCompleted
<1>6. OwedInv'
  BY <1>0, <1>1, <1>2 DEF OwedInv, HasCompleted
<1>7. ReadyMeansDone'
  BY <1>0, <1>1 DEF ReadyMeansDone, HasCompleted
<1> QED BY <1>3, <1>4, <1>5, <1>6, <1>7 DEF DriverInv

(* A wait ends because its event is complete. *)
LEMMA ReturnDriver ==
    ASSUME OneDriver, OwnerInv, DriverInv, NEW t \in Callers,
           Drained(t) \/ ReadyReturns(t) \/ CloseReturns(t) \/ CopyReturns(t)
    PROVE  DriverInv'
<1>0. /\ EventTypes /\ CallerTypes /\ RoleInv /\ TakenInv /\ FreshInv /\ LaunchInv /\ OwedInv
      /\ ReadyMeansDone
  BY DEF OwnerInv, DriverInv
<1>1. /\ at[t] \in {"wait", "copying"} /\ HasCompleted(ev[t])
      /\ at'[t] \in {"idle", "lookup"} /\ ev'[t] = 0
      /\ \A u \in Callers : u # t => at'[u] = at[u] /\ ev'[u] = ev[u] /\ answer'[u] = answer[u]
      /\ UNCHANGED <<sent, retired, call, owed, legacy_last>>
  BY <1>0 DEF CallerTypes, Drained, ReadyReturns, CloseReturns, CopyReturns, Returns, Go, deviceVars
<1>2. at'[t] = "idle" => at[t] = "copying" \/ (call[t] \in {"ready", "close"} /\ at[t] = "wait")
  <2>1. CASE Drained(t)
    <3>1. at'[t] = "lookup"
      BY <1>0, <2>1 DEF Drained, Go, CallerTypes
    <3> QED BY <3>1
  <2>2. CASE ReadyReturns(t)
    BY <2>2 DEF ReadyReturns, Returns, Go
  <2>3. CASE CloseReturns(t)
    BY <2>3 DEF CloseReturns, Returns, Go
  <2>4. CASE CopyReturns(t)
    BY <2>4 DEF CopyReturns, Returns, Go
  <2> QED BY <2>1, <2>2, <2>3, <2>4
<1>3. RoleInv' /\ TakenInv'
  BY <1>0, <1>1 DEF RoleInv, TakenInv
<1>4. FreshInv'
  BY <1>0, <1>1, FreshKept
<1>5. LaunchInv'
  <2> SUFFICES ASSUME NEW e \in Launched PROVE Covered(e)'
    BY <1>1 DEF LaunchInv, Launched
  <2>1. Covered(e)
    BY <1>0 DEF LaunchInv
  <2> QED BY <1>1, <2>1 DEF Covered, HasCompleted
<1>6. OwedInv'
  BY <1>0, <1>1 DEF OwedInv, HasCompleted
<1>7. ReadyMeansDone'
  <2> SUFFICES ASSUME NEW u \in Callers, at'[u] = "idle", call[u] \in {"ready", "close"},
                      answer'[u] = "ok", NEW e \in owed[u]
               PROVE  HasCompleted(e)'
    BY <1>1 DEF ReadyMeansDone
  <2>1. CASE u # t
    BY <1>0, <1>1, <2>1 DEF ReadyMeansDone, HasCompleted
  <2>2. CASE u = t
    <3>1. at[t] = "wait"
      BY <1>0, <1>2, <2>2 DEF RoleInv
    <3> QED BY <1>0, <1>1, <2>2, <3>1 DEF OwedInv, HasCompleted
  <2> QED BY <2>1, <2>2
<1> QED BY <1>3, <1>4, <1>5, <1>6, <1>7 DEF DriverInv
(* A wait ends because it took too long: the launch is the application's   *)
(* to forget.                                                              *)
LEMMA TimeoutDriver ==
    ASSUME OneDriver, OwnerInv, DriverInv, NEW t \in Callers, ReadyTimesOut(t)
    PROVE  DriverInv'
<1>0. /\ EventTypes /\ CallerTypes /\ RoleInv /\ TakenInv /\ FreshInv /\ LaunchInv /\ OwedInv
      /\ ReadyMeansDone /\ Len(sent) \in Nat /\ DOMAIN sent = 1 .. Len(sent)
  BY TypeParts DEF OwnerInv, DriverInv
<1>1. /\ at[t] = "wait" /\ at'[t] = "idle" /\ ev'[t] = 0 /\ answer'[t] = "timeout"
      /\ \A u \in Callers : u # t => at'[u] = at[u] /\ ev'[u] = ev[u] /\ answer'[u] = answer[u]
      /\ UNCHANGED <<retired, call, owed, legacy_last>>
  BY <1>0 DEF CallerTypes, ReadyTimesOut, Returns, Go, deviceVars
<1>2. /\ DOMAIN sent' = DOMAIN sent
      /\ \A e \in DOMAIN sent :
           /\ sent'[e].kind = sent[e].kind /\ sent'[e].by = sent[e].by
           /\ sent'[e].started = sent[e].started
           /\ sent'[e].timedOut = (sent[e].timedOut \/ e = ev[t])
  <2>1. sent' = [sent EXCEPT ![ev[t]] = [sent[ev[t]] EXCEPT !.timedOut = TRUE]]
    BY DEF ReadyTimesOut
  <2>2. \A e \in DOMAIN sent : sent[e] \in Sent
    BY <1>0 DEF EventTypes
  <2>3. ASSUME NEW e \in DOMAIN sent
        PROVE  /\ sent'[e].kind = sent[e].kind /\ sent'[e].by = sent[e].by
               /\ sent'[e].started = sent[e].started
               /\ sent'[e].timedOut = (sent[e].timedOut \/ e = ev[t])
    <3>1. CASE e # ev[t]
      <4>1. sent'[e] = sent[e] /\ sent[e].timedOut \in BOOLEAN
        BY <2>1, <2>2, <3>1 DEF Sent
      <4> QED BY <3>1, <4>1
    <3>2. CASE e = ev[t]
      <4>1. sent'[e] = [sent[e] EXCEPT !.timedOut = TRUE] /\ sent[e] \in Sent
        BY <2>1, <2>2, <3>2
      <4> QED BY <3>2, <4>1 DEF Sent
    <3> QED BY <3>1, <3>2
  <2> QED BY <2>1, <2>3
<1>3. RoleInv' /\ TakenInv'
  BY <1>0, <1>1 DEF RoleInv, TakenInv
<1>4. FreshInv'
  <2> SUFFICES ASSUME NEW e \in DOMAIN sent, sent[e].kind = "launch", ~sent[e].started
               PROVE  at'[sent[e].by] = "remember" /\ ev'[sent[e].by] = e
    BY <1>2 DEF FreshInv
  <2>1. at[sent[e].by] = "remember" /\ ev[sent[e].by] = e
    BY <1>0 DEF FreshInv
  <2>2. sent[e] \in Sent
    BY <1>0 DEF EventTypes
  <2>3. sent[e].by \in Callers
    BY <2>2 DEF Sent
  <2> QED BY <1>1, <2>1, <2>3
<1>5. LaunchInv'
  <2> SUFFICES ASSUME NEW e \in Launched' PROVE Covered(e)'
    BY DEF LaunchInv
  <2>1. e \in Launched /\ e # ev[t]
    BY <1>2 DEF Launched
  <2>2. Covered(e)
    BY <1>0, <2>1 DEF LaunchInv
  <2> QED BY <1>1, <2>1, <2>2 DEF Covered, HasCompleted
<1>6. OwedInv'
  BY <1>0, <1>1 DEF OwedInv, HasCompleted
<1>7. ReadyMeansDone'
  BY <1>0, <1>1 DEF ReadyMeansDone, HasCompleted
<1> QED BY <1>3, <1>4, <1>5, <1>6, <1>7 DEF DriverInv

(* A command is enqueued. *)
LEMMA AppendDriver ==
    ASSUME OneDriver, OwnerInv, DriverInv, NEW t \in Callers,
           EnqueueWrites(t) \/ EnqueueLaunch(t) \/ EnqueueCopy(t)
    PROVE  DriverInv'
<1>0. /\ EventTypes /\ CallerTypes /\ RoleInv /\ TakenInv /\ FreshInv /\ LaunchInv /\ OwedInv
      /\ ReadyMeansDone /\ Len(sent) \in Nat /\ DOMAIN sent = 1 .. Len(sent)
  BY TypeParts DEF OwnerInv, DriverInv
<1>1. /\ at[t] \in {"enqueue", "launch"} /\ at'[t] \in {"launch", "remember", "copying"}
      /\ \A u \in Callers : u # t => at'[u] = at[u] /\ ev'[u] = ev[u]
      /\ UNCHANGED <<retired, call, owed, answer, legacy_last>>
  BY <1>0 DEF CallerTypes, EnqueueWrites, EnqueueLaunch, EnqueueCopy, Append1, Stays, Go, deviceVars
<1>2. /\ at'[t] = "launch" => call[t] = "start"
      /\ at'[t] = "remember" => call[t] = "start"
      /\ at'[t] = "copying" => call[t] = "copy"
  <2>1. CASE EnqueueWrites(t)
    BY <1>0, <2>1 DEF EnqueueWrites, Go, CallerTypes
  <2>2. CASE EnqueueLaunch(t)
    BY <1>0, <2>2 DEF EnqueueLaunch, Go, CallerTypes, RoleInv
  <2>3. CASE EnqueueCopy(t)
    BY <1>0, <2>3 DEF EnqueueCopy, Go, CallerTypes
  <2> QED BY <2>1, <2>2, <2>3
<1>3. PICK k \in Kinds :
        /\ sent' = Append(sent, [kind |-> k, by |-> t, started |-> FALSE, timedOut |-> FALSE])
        /\ k = "launch" => at'[t] = "remember" /\ ev'[t] = Len(sent) + 1
  <2>1. CASE EnqueueWrites(t)
    BY <2>1 DEF EnqueueWrites, Append1, Kinds
  <2>2. CASE EnqueueLaunch(t)
    BY <1>0, <2>2 DEF EnqueueLaunch, Append1, Go, Kinds, CallerTypes
  <2>3. CASE EnqueueCopy(t)
    BY <2>3 DEF EnqueueCopy, Append1, Kinds
  <2> QED BY <2>1, <2>2, <2>3
<1>4. /\ DOMAIN sent' = 1 .. Len(sent) + 1
      /\ \A e \in 1 .. Len(sent) : sent'[e] = sent[e]
      /\ sent'[Len(sent) + 1] = [kind |-> k, by |-> t, started |-> FALSE, timedOut |-> FALSE]
  BY <1>0, <1>3 DEF EventTypes
<1>5. RoleInv' /\ TakenInv'
  BY <1>0, <1>1, <1>2 DEF RoleInv, TakenInv
<1>6. FreshInv'
  <2> SUFFICES ASSUME NEW e \in 1 .. Len(sent) + 1, sent'[e].kind = "launch", ~sent'[e].started
               PROVE  at'[sent'[e].by] = "remember" /\ ev'[sent'[e].by] = e
    BY <1>4 DEF FreshInv
  <2>1. CASE e \in 1 .. Len(sent)
    <3>1. at[sent[e].by] = "remember" /\ ev[sent[e].by] = e /\ sent'[e] = sent[e]
      BY <1>0, <1>4, <2>1 DEF FreshInv
    <3>2. sent[e] \in Sent
      BY <1>0, <2>1 DEF EventTypes
    <3>3. sent[e].by \in Callers
      BY <3>2 DEF Sent
    <3> QED BY <1>1, <3>1, <3>3
  <2>2. CASE e = Len(sent) + 1
    BY <1>3, <1>4, <2>2
  <2> QED BY <1>0, <2>1, <2>2
<1>7. LaunchInv'
  <2> SUFFICES ASSUME NEW e \in Launched' PROVE Covered(e)'
    BY DEF LaunchInv
  <2>1. e \in 1 .. Len(sent) /\ e \in Launched
    BY <1>0, <1>4 DEF Launched
  <2>2. Covered(e)
    BY <1>0, <2>1 DEF LaunchInv
  <2> QED BY <1>1, <2>1, <2>2 DEF Covered, HasCompleted
<1>8. OwedInv' /\ ReadyMeansDone'
  BY <1>0, <1>1 DEF OwedInv, ReadyMeansDone, HasCompleted
<1> QED BY <1>5, <1>6, <1>7, <1>8 DEF DriverInv

(* The launch is remembered: nothing else was. *)
LEMMA RememberDriver ==
    ASSUME OneDriver, OwnerInv, DriverInv, NEW t \in Callers, Remember(t)
    PROVE  DriverInv'
<1>0. /\ EventTypes /\ CallerTypes /\ RoleInv /\ TakenInv /\ FreshInv /\ LaunchInv /\ OwedInv
      /\ ReadyMeansDone /\ Len(sent) \in Nat /\ DOMAIN sent = 1 .. Len(sent)
  BY TypeParts DEF OwnerInv, DriverInv
<1>1. /\ at[t] = "remember" /\ at'[t] = "idle" /\ legacy_last' = ev[t] /\ call[t] = "start"
      /\ \A u \in Callers : u # t => at'[u] = at[u] /\ ev'[u] = ev[u] /\ answer'[u] = answer[u]
      /\ UNCHANGED <<retired, call, owed>>
  BY <1>0 DEF CallerTypes, Remember, Returns, Go, RoleInv
<1>2. legacy_last = 0 /\ \A u \in Callers : call[u] # "copy" => u = t
  BY <1>0, <1>1, DriverOnly DEF TakenInv
<1>3. /\ DOMAIN sent' = DOMAIN sent
      /\ \A e \in DOMAIN sent :
           /\ sent'[e].kind = sent[e].kind /\ sent'[e].by = sent[e].by
           /\ sent'[e].timedOut = sent[e].timedOut
           /\ sent'[e].started = (sent[e].started \/ (sent[e].kind = "launch" /\ sent[e].by = t))
  <2>1. sent' = [e \in DOMAIN sent |->
                  [sent[e] EXCEPT !.started = @ \/ (sent[e].kind = "launch" /\ sent[e].by = t)]]
    BY DEF Remember
  <2>2. \A e \in DOMAIN sent : sent[e] \in Sent
    BY <1>0 DEF EventTypes
  <2> QED BY <2>1, <2>2 DEF Sent
<1>4. RoleInv' /\ TakenInv'
  BY <1>0, <1>1, <1>2 DEF RoleInv, TakenInv
<1>5. FreshInv'
  <2> SUFFICES ASSUME NEW e \in DOMAIN sent, sent[e].kind = "launch", ~sent'[e].started
               PROVE  at'[sent[e].by] = "remember" /\ ev'[sent[e].by] = e
    BY <1>3 DEF FreshInv
  <2>1. ~sent[e].started /\ sent[e].by # t
    BY <1>3
  <2>2. at[sent[e].by] = "remember" /\ ev[sent[e].by] = e
    BY <1>0, <2>1 DEF FreshInv
  <2>3. sent[e] \in Sent
    BY <1>0 DEF EventTypes
  <2>4. sent[e].by \in Callers
    BY <2>3 DEF Sent
  <2> QED BY <1>1, <2>1, <2>2, <2>4
<1>6. LaunchInv'
  <2> SUFFICES ASSUME NEW e \in Launched' PROVE Covered(e)'
    BY DEF LaunchInv
  <2>1. e \in DOMAIN sent /\ ~sent[e].timedOut /\ e # 0
    BY <1>0, <1>3 DEF Launched
  <2>2. CASE sent[e].started
    <3>1. Covered(e)
      BY <1>0, <2>1, <2>2 DEF LaunchInv, Launched
    <3> QED BY <1>1, <1>2, <2>1, <3>1 DEF Covered, HasCompleted
  <2>3. CASE ~sent[e].started
    <3>1. sent[e].kind = "launch" /\ sent[e].by = t
      BY <1>3, <2>1, <2>3 DEF Launched
    <3>2. ev[t] = e
      BY <1>0, <2>1, <2>3, <3>1 DEF FreshInv
    <3> QED BY <1>1, <3>2 DEF Covered
  <2> QED BY <2>2, <2>3
<1>7. OwedInv'
  BY <1>0, <1>1, <1>2 DEF OwedInv, HasCompleted
<1>8. ReadyMeansDone'
  BY <1>0, <1>1 DEF ReadyMeansDone, HasCompleted
<1> QED BY <1>4, <1>5, <1>6, <1>7, <1>8 DEF DriverInv

LEMMA WorkerDriver ==
    ASSUME OwnerInv, DriverInv, WorkerCompletes
    PROVE  DriverInv'
<1>0. /\ EventTypes /\ RoleInv /\ TakenInv /\ FreshInv /\ LaunchInv /\ OwedInv
      /\ ReadyMeansDone /\ Len(sent) \in Nat /\ DOMAIN sent = 1 .. Len(sent) /\ retired \in Nat
  BY TypeParts DEF OwnerInv, DriverInv
<1>1. /\ UNCHANGED <<sent, legacy_last, at, call, ev, owed, answer>> /\ retired' = retired + 1
  BY DEF WorkerCompletes, deviceVars
<1>2. ASSUME NEW e \in Nat, HasCompleted(e) PROVE HasCompleted(e)'
  BY <1>0, <1>1, <1>2 DEF HasCompleted
<1>3. RoleInv' /\ TakenInv' /\ FreshInv'
  BY <1>0, <1>1 DEF RoleInv, TakenInv, FreshInv
<1>4. LaunchInv'
  <2> SUFFICES ASSUME NEW e \in Launched PROVE Covered(e)'
    BY <1>1 DEF LaunchInv, Launched
  <2>1. Covered(e) /\ e \in Nat
    BY <1>0 DEF LaunchInv, Launched
  <2> QED BY <1>1, <1>2, <2>1 DEF Covered
<1>5. OwedInv' /\ ReadyMeansDone'
  <2>1. \A t \in Callers : owed[t] \subseteq Nat
    BY DEF OwnerInv, CallerTypes
  <2>2. OwedInv'
    BY <1>0, <1>1, <1>2, <2>1 DEF OwedInv
  <2>3. ReadyMeansDone'
    BY <1>0, <1>1, <1>2, <2>1 DEF ReadyMeansDone
  <2> QED BY <2>2, <2>3
<1> QED BY <1>3, <1>4, <1>5 DEF DriverInv

LEMMA NextDriver ==
    ASSUME OneDriver, OwnerInv, DriverInv, [LegacyNext]_legacyVars
    PROVE  DriverInv'
<1>1. ASSUME NEW t \in Callers, Lookup(t) \/ RegisterQueue(t) \/ Publish(t)
      PROVE  DriverInv'
  <2>1. PICK p \in {"register", "publish", "unregister", "enqueue"} : at' = [at EXCEPT ![t] = p]
    BY <1>1 DEF Lookup, RegisterQueue, Publish, Go
  <2>2. at[t] \in {"lookup", "register", "publish", "unregister"}
    BY <1>1 DEF Lookup, RegisterQueue, Publish, Go
  <2>3. UNCHANGED <<sent, retired, evrefs, legacy_last, ev, call, owed, answer>>
    BY <1>1 DEF Lookup, RegisterQueue, Publish, deviceVars, queueVars, Stays
  <2> QED BY <2>1, <2>2, <2>3, MoveDriver
<1>2. CASE UNCHANGED legacyVars
  BY <1>2 DEF legacyVars, DriverInv, RoleInv, TakenInv, FreshInv, LaunchInv, OwedInv,
              ReadyMeansDone, Covered, Launched, HasCompleted
<1>3. ASSUME NEW t \in Callers, CallerStep(t)
      PROVE  DriverInv'
  BY <1>1, <1>3, TakeDriver, ReturnDriver, AppendDriver, RememberDriver DEF CallerStep
<1> QED BY <1>2, <1>3, CallDriver, TimeoutDriver, WorkerDriver DEF LegacyNext

(***************************************************************************)
(* When one thread makes the calls that launch, wait for launches and      *)
(* close (others may copy), a successful vx_ready_wait or vx_dev_close     *)
(* means that every launch started before it is complete.  Without the     *)
(* hypothesis it fails: legacy_take_last_event gives the launch to one     *)
(* waiter, and a second one waits for nothing.                             *)
(***************************************************************************)
THEOREM ReadyIsDone ==
    ASSUME OneDriver
    PROVE  LegacySpec => []ReadyMeansDone
<1>1. LegacyInit => OwnerInv /\ DriverInv
  BY OwnerInit, DriverInit
<1>2. OwnerInv /\ DriverInv /\ [LegacyNext]_legacyVars => OwnerInv' /\ DriverInv'
  BY NextOwner, NextDriver
<1>3. DriverInv => ReadyMeansDone
  BY DEF DriverInv
<1> QED BY <1>1, <1>2, <1>3, PTL DEF LegacySpec
=============================================================================

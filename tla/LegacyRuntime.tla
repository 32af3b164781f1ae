--------------------------- MODULE LegacyRuntime ---------------------------
(***************************************************************************)
(* The vortex.h entry points (legacy_runtime.cpp) over the default queue   *)
(* and the remembered last launch that the Device keeps for them           *)
(* (device.cpp, under mu_).                                                *)
(*                                                                         *)
(* A thread that calls one of them                                         *)
(*   vx_start       takes the last launch and waits for it, finds or       *)
(*                  creates the default queue, enqueues the register       *)
(*                  writes and a launch, and remembers its event;          *)
(*   vx_ready_wait  takes the last launch and waits for it, up to a        *)
(*                  timeout;                                               *)
(*   vx_copy_*, vx_dcr_write  enqueue on the default queue and wait;       *)
(*   vx_dev_close   waits for the last launch, releases the device.        *)
(* The default queue's worker completes commands in the order they were    *)
(* enqueued (EventQueue shows that it does).  An event here is the number  *)
(* of its command.  vx_dcr_read bypasses the queue (CpSubmit).             *)
(***************************************************************************)
EXTENDS Integers, Sequences, FiniteSets

CONSTANTS
    Callers,        \* application threads
    First,          \* the thread that makes the first call
    MayCall,        \* MayCall[t]: the entry points thread t calls
    OneAtFirst,     \* does the application let First's first call end alone?
    Timeouts,       \* may vx_ready_wait be given a timeout?
    MaxCalls,       \* bound on the calls of a thread
    NoCaller        \* nobody holds mu_

Entries == {"start", "ready", "copy", "close"}

ASSUME LegacyAssumption ==
    /\ IsFiniteSet(Callers) /\ First \in Callers /\ NoCaller \notin Callers
    /\ MayCall \in [Callers -> SUBSET Entries]
    /\ OneAtFirst \in BOOLEAN /\ Timeouts \in BOOLEAN /\ MaxCalls \in Nat

VARIABLES
    mu,             \* who holds Device::mu_
    legacy_q,       \* legacy_q_: the thread whose queue it is, or NoCaller
    legacy_last,    \* legacy_last_: a launch, or 0
    queues,         \* queues_: named by the thread that created them
    devrefs,        \* references to the Device: the application's, the queues'
    sent,           \* commands enqueued on the default queue, in order
    retired,        \* how many of them are complete
    evrefs,         \* evrefs[e]: references to the event of command e
    at,             \* where each thread is
    call,           \* what it is calling
    ev,             \* the event it holds, or 0
    calls,          \* calls made so far
    owed,           \* history: launches whose vx_start had returned when the
                    \*   thread called vx_ready_wait
    answer          \* history: what its last call returned

legacyVars == <<mu, legacy_q, legacy_last, queues, devrefs, sent, retired, evrefs,
                at, call, ev, calls, owed, answer>>

deviceVars == <<mu, legacy_q, legacy_last, queues, devrefs>>
queueVars == <<sent, retired, evrefs>>

Go(t, from, to) == at[t] = from /\ at' = [at EXCEPT ![t] = to]

Returns(t, from, result) ==
    /\ Go(t, from, "idle")
    /\ ev' = [ev EXCEPT ![t] = 0]
    /\ answer' = [answer EXCEPT ![t] = result]
    /\ UNCHANGED <<call, calls, owed>>

Stays == UNCHANGED <<call, ev, calls, owed, answer>>

LegacyInit ==
    /\ mu = NoCaller /\ legacy_q = NoCaller /\ legacy_last = 0
    /\ queues = {} /\ devrefs = 1
    /\ sent = <<>> /\ retired = 0 /\ evrefs = <<>>
    /\ at = [t \in Callers |-> "idle"]
    /\ call = [t \in Callers |-> "copy"]
    /\ ev = [t \in Callers |-> 0]
    /\ calls = [t \in Callers |-> 0]
    /\ owed = [t \in Callers |-> {}]
    /\ answer = [t \in Callers |-> "none"]

(* The launches whose vx_start has returned, unless the application was    *)
(* told that its wait for one of them timed out.                           *)
Launched == {e \in DOMAIN sent : sent[e].started /\ ~sent[e].timedOut}

(* The application closes the device when its other calls have returned.   *)
Call(t, c) ==
    /\ c \in MayCall[t] /\ calls[t] < MaxCalls
    /\ \A u \in Callers : call[u] # "close"
    /\ c = "close" => \A u \in Callers : at[u] = "idle"
    /\ OneAtFirst /\ t # First => calls[First] > 0 /\ legacy_q # NoCaller
    /\ Go(t, "idle", IF c = "copy" THEN "lookup" ELSE "take")
    /\ call' = [call EXCEPT ![t] = c]
    /\ calls' = [calls EXCEPT ![t] = @ + 1]
    /\ owed' = [owed EXCEPT ![t] = IF c \in {"ready", "close"} THEN Launched ELSE {}]
    /\ UNCHANGED <<deviceVars, queueVars, ev, answer>>

-----------------------------------------------------------------------------
(* legacy_take_last_event, and the wait for what it returns. *)

TakeLast(t) ==
    /\ mu = NoCaller
    /\ Go(t, "take", "wait")
    /\ ev' = [ev EXCEPT ![t] = legacy_last]
    /\ legacy_last' = 0
    /\ UNCHANGED <<mu, legacy_q, queues, devrefs, queueVars, call, calls, owed, answer>>

HasCompleted(e) == e <= retired

Released(e) == IF e = 0 THEN evrefs ELSE [evrefs EXCEPT ![e] = @ - 1]

(* vx_start goes on once the launch before is complete ... *)
Drained(t) ==
    /\ call[t] = "start" /\ HasCompleted(ev[t])
    /\ Go(t, "wait", "lookup")
    /\ evrefs' = Released(ev[t])
    /\ ev' = [ev EXCEPT ![t] = 0]
    /\ UNCHANGED <<deviceVars, sent, retired, call, calls, owed, answer>>

(* ... and vx_ready_wait returns, with success also when nothing was left  *)
(* to wait for.                                                            *)
ReadyReturns(t) ==
    /\ call[t] = "ready" /\ HasCompleted(ev[t])
    /\ Returns(t, "wait", "ok")
    /\ evrefs' = Released(ev[t])
    /\ UNCHANGED <<deviceVars, sent, retired>>

(* Mutant: a timeout keeps the reference. *)
ReadyTimesOutKeepsRef(t) ==
    /\ Timeouts /\ call[t] = "ready" /\ ~HasCompleted(ev[t])
    /\ Returns(t, "wait", "timeout")
    /\ sent' = [sent EXCEPT ![ev[t]].timedOut = TRUE]
    /\ UNCHANGED <<deviceVars, evrefs, retired>>

(* The event taken is released after a timeout too. *)
ReadyTimesOut(t) ==
    /\ Timeouts /\ call[t] = "ready" /\ ~HasCompleted(ev[t])
    /\ Returns(t, "wait", "timeout")
    /\ evrefs' = Released(ev[t])
    /\ sent' = [sent EXCEPT ![ev[t]].timedOut = TRUE]
    /\ UNCHANGED <<deviceVars, retired>>

CloseReturns(t) ==
    /\ call[t] = "close" /\ HasCompleted(ev[t])
    /\ Returns(t, "wait", "ok")
    /\ evrefs' = Released(ev[t])
    /\ devrefs' = devrefs - 1
    /\ UNCHANGED <<mu, legacy_q, legacy_last, queues, sent, retired>>

-----------------------------------------------------------------------------
(* legacy_default_queue.  A critical section without a call inside is one  *)
(* step, taken when mu_ is free.                                           *)

(* Mutant: the queue is created inside the critical section. *)
LookupHoldsMu(t) ==
    /\ mu = NoCaller
    /\ mu' = IF legacy_q = NoCaller THEN t ELSE mu
    /\ Go(t, "lookup", IF legacy_q = NoCaller THEN "register" ELSE "enqueue")
    /\ UNCHANGED <<legacy_q, legacy_last, queues, devrefs, queueVars>> /\ Stays

Lookup(t) ==
    /\ mu = NoCaller
    /\ Go(t, "lookup", IF legacy_q = NoCaller THEN "register" ELSE "enqueue")
    /\ UNCHANGED <<deviceVars, queueVars>> /\ Stays

(* Queue::Queue calls register_queue; ~Queue, once its worker has returned,*)
(* unregister_queue; each takes mu_, whether or not the thread holds it.   *)
RegisterQueue(t) ==
    /\ mu = NoCaller
    /\ at[t] \in {"register", "unregister"}
    /\ LET new == at[t] = "register"
       IN  /\ Go(t, at[t], IF new THEN "publish" ELSE "enqueue")
           /\ queues' = IF new THEN queues \cup {t} ELSE queues \ {t}
           /\ devrefs' = devrefs + (IF new THEN 1 ELSE -1)
    /\ UNCHANGED <<mu, legacy_q, legacy_last, queueVars>> /\ Stays

(* The queue is published, or, when another thread was faster, released    *)
(* while mu_ is held.                                                      *)
Publish(t) ==
    /\ mu = NoCaller
    /\ IF legacy_q = NoCaller
       THEN Go(t, "publish", "enqueue") /\ legacy_q' = t /\ UNCHANGED mu
       ELSE Go(t, "publish", "unregister") /\ mu' = t /\ UNCHANGED legacy_q
    /\ UNCHANGED <<legacy_last, queues, devrefs, queueVars>> /\ Stays

-----------------------------------------------------------------------------
(* Enqueueing.  The worker and whoever asked for the event hold it. *)

Append1(kind, t, refs) ==
    /\ sent' = Append(sent, [kind |-> kind, by |-> t, started |-> FALSE, timedOut |-> FALSE])
    /\ evrefs' = Append(evrefs, refs)
    /\ UNCHANGED retired

(* vx_start: the register writes, then the launch. *)
EnqueueWrites(t) ==
    /\ call[t] = "start"
    /\ Go(t, "enqueue", "launch")
    /\ Append1("dcr", t, 1)
    /\ UNCHANGED deviceVars /\ Stays

(* Mutant: the event remembered is that of the command before the launch. *)
EnqueueLaunchEarlyEvent(t) ==
    /\ Go(t, "launch", "remember")
    /\ Append1("launch", t, 2)
    /\ ev' = [ev EXCEPT ![t] = Len(sent)]
    /\ UNCHANGED <<deviceVars, call, calls, owed, answer>>

EnqueueLaunch(t) ==
    /\ Go(t, "launch", "remember")
    /\ Append1("launch", t, 2)
    /\ ev' = [ev EXCEPT ![t] = Len(sent) + 1]
    /\ UNCHANGED <<deviceVars, call, calls, owed, answer>>

(* legacy_remember_last_event: the event takes the place of the one there. *)
Remember(t) ==
    /\ mu = NoCaller
    /\ Returns(t, "remember", "ok")
    /\ legacy_last' = ev[t]
    /\ evrefs' = Released(legacy_last)
    /\ sent' = [e \in DOMAIN sent |->
                  [sent[e] EXCEPT !.started = @ \/ (sent[e].kind = "launch" /\ sent[e].by = t)]]
    /\ UNCHANGED <<mu, legacy_q, queues, devrefs, retired>>

(* enqueue_and_wait *)
EnqueueCopy(t) ==
    /\ call[t] = "copy"
    /\ Go(t, "enqueue", "copying")
    /\ Append1("copy", t, 2)
    /\ ev' = [ev EXCEPT ![t] = Len(sent) + 1]
    /\ UNCHANGED <<deviceVars, call, calls, owed, answer>>

CopyReturns(t) ==
    /\ HasCompleted(ev[t])
    /\ Returns(t, "copying", "ok")
    /\ evrefs' = Released(ev[t])
    /\ UNCHANGED <<deviceVars, sent, retired>>

(* The worker of the default queue completes the next command. *)
WorkerCompletes ==
    /\ retired < Len(sent)
    /\ retired' = retired + 1
    /\ evrefs' = Released(retired + 1)
    /\ UNCHANGED <<deviceVars, sent, at, call, ev, calls, owed, answer>>

-----------------------------------------------------------------------------
CallerStep(t) ==
    \/ TakeLast(t) \/ Drained(t) \/ ReadyReturns(t) \/ CloseReturns(t)
    \/ Lookup(t) \/ RegisterQueue(t) \/ Publish(t)
    \/ EnqueueWrites(t) \/ EnqueueLaunch(t) \/ Remember(t)
    \/ EnqueueCopy(t) \/ CopyReturns(t)

LegacyNext ==
    \/ \E t \in Callers, c \in Entries : Call(t, c)
    \/ \E t \in Callers : CallerStep(t) \/ ReadyTimesOut(t)
    \/ WorkerCompletes

LegacySpec == LegacyInit /\ [][LegacyNext]_legacyVars
-----------------------------------------------------------------------------
(* Properties. *)

(***************************************************************************)
(* "Wait for device ready" (vortex.h): when vx_ready_wait or vx_dev_close  *)
(* has returned success, every launch whose vx_start had returned before   *)
(* the call is complete, unless a wait for it had timed out.               *)
(***************************************************************************)
ReadyMeansDone ==
    \A t \in Callers :
        at[t] = "idle" /\ call[t] \in {"ready", "close"} /\ answer[t] = "ok" =>
            \A e \in owed[t] : HasCompleted(e)

(***************************************************************************)
(* "keep one, release the other" (device.cpp): every call returns.  Nobody *)
(* waits for mu_ while holding it, or for a command never enqueued.        *)
(***************************************************************************)
CallsReturn == \A t \in Callers : []<>(at[t] = "idle")

(***************************************************************************)
(* An event is deleted only when nobody will look at it again: the worker  *)
(* owns it until it is complete, and legacy_last_ and each waiting call    *)
(* own theirs.                                                             *)
(***************************************************************************)
EventOwned ==
    \A e \in DOMAIN sent :
        evrefs[e] = (IF HasCompleted(e) THEN 0 ELSE 1) + (IF legacy_last = e THEN 1 ELSE 0)
                      + Cardinality({t \in Callers : ev[t] = e})
=============================================================================

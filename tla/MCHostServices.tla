--------------------------- MODULE MCHostServices ---------------------------
(***************************************************************************)
(* The host beside command submission: the legacy entry points, the        *)
(* console, and the queues with their events.  They share no state, so a   *)
(* behaviour exercises the one its initial state names.                    *)
(***************************************************************************)
EXTENDS LegacyRuntime, CoutRing, EventQueue

CONSTANTS q1, q2

VARIABLE service

allVars == <<legacyVars, coutVars, vars, service>>

(* The main thread launches, waits and closes, the other one copies. *)
Roles == [t \in {"main", "io"} |-> IF t = "main" THEN Entries ELSE {"copy"}]

MCSlotOf == [h \in {1, 2} |-> h - 1]
MCMaxPuts == [h \in {1, 2} |-> IF h = 1 THEN 5 ELSE 2]

TwoQueues == {q1, q2}

Order(q, kind, e, val, waits) ==
    [queue |-> q, work |-> [kind |-> kind, ev |-> e, val |-> val], waits |-> waits]

(***************************************************************************)
(* The orders name events by number, and the application may create        *)
(* timeline events at any time, so one order waits now for a timeline      *)
(* event, now for a command of its own queue, now for one of the other.    *)
(* Device work that waits for events 1 and 2, a signal of event 1 from one *)
(* queue and a wait for it on the other, both behind device work that may  *)
(* have failed.                                                            *)
(***************************************************************************)
CrossOrders ==
    { Order(q1, "device", NoEvent, 0, <<2, 1>>),
      Order(q1, "signal", 1, 2, <<2>>),
      Order(q2, "wait", 1, 2, << >>),
      Order(q2, "device", NoEvent, 0, <<1>>),
      Order(q2, "device", NoEvent, 0, << >>) }

Legacy(A) == service = "legacy" /\ A /\ UNCHANGED <<coutVars, vars, service>>
Console(A) == service = "console" /\ A /\ UNCHANGED <<legacyVars, vars, service>>
Async(A) == service = "queues" /\ A /\ UNCHANGED <<legacyVars, coutVars, service>>

HostInit ==
    LegacyInit /\ CoutInit /\ Init /\ service \in {"legacy", "console", "queues"}

HostNext == Legacy(LegacyNext) \/ Console(CoutNext) \/ Async(Next)

(* Threads are scheduled and the default queue's commands complete.  The   *)
(* application keeps launching, and every launch drains; kernels need not  *)
(* print, but finish the call they are in.  A queue's worker thread is     *)
(* scheduled; the application need not do anything.                        *)
HostFairness ==
    /\ \A t \in Callers : WF_allVars(Legacy(CallerStep(t)))
    /\ WF_allVars(Legacy(WorkerCompletes))
    /\ \A d \in Drainers : WF_allVars(Console(DrainStep(d)))
    /\ \A h \in Harts : WF_allVars(Console(Store(h) \/ PublishWr(h) \/ Drop(h)))
    /\ \A q \in Queues : WF_allVars(Async(Worker(q)))

HostSpec == HostInit /\ [][HostNext]_allVars /\ HostFairness
=============================================================================

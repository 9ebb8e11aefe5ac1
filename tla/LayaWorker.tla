----------------------------- MODULE LayaWorker -----------------------------
(***************************************************************************)
(* LayaBackend of backends/laya.py: calls of _worker (from score and         *)
(* prepare_stage) take the slot of a semaphore, hand a function to a thread  *)
(* pool and wait behind a shield; aclose shuts the pool down and unloads     *)
(* the Laya Router. The coroutines run in one event loop, the functions in   *)
(* the pool's threads.                                                       *)
(***************************************************************************)
EXTENDS Integers, FiniteSets

CONSTANTS
    Job,         \* the calls of _worker
    Closer,      \* the calls of aclose
    Slots,       \* max_inference_concurrency
    MaxCancels   \* bound: task.cancel() calls on one job

ASSUME JobFinite == IsFiniteSet(Job)
ASSUME SlotsPositive == Slots \in Nat \ {0}
ASSUME CancelsBounded == MaxCancels \in Nat

VARIABLES
    pc,        \* where each call of _worker is
    asked,     \* calls with a pending cancellation
    cancels,   \* cancellations of each call so far
    slots,     \* free slots of the semaphore
    thread,    \* what the pool does with the function of each call
    executor,  \* self._executor is there
    router,    \* self.router is there
    closed,    \* self._closed
    closing,   \* what self._close_task is at
    closer     \* where each call of aclose is

calls == <<pc, asked, cancels, slots>>
pool == <<thread, executor, router>>
close == <<closed, closing, closer>>
vars == <<calls, pool, close>>

Finals == {"returned", "failed", "cancelled"}
Pc == {"new", "waiting", "running", "held"} \cup Finals

TypeOK ==
    /\ pc \in [Job -> Pc]
    /\ asked \subseteq Job
    /\ cancels \in [Job -> 0..MaxCancels]
    /\ slots \in 0..Slots
    /\ thread \in [Job -> {"none", "queued", "busy", "done"}]
    /\ executor \in BOOLEAN /\ router \in BOOLEAN /\ closed \in BOOLEAN
    /\ closing \in {"no", "shutdown", "unload", "done", "failed"}
    /\ closer \in [Closer -> {"new", "waiting", "returned", "failed", "cancelled"}]

\* A function given to the pool that has not returned.
InPool(j) == thread[j] \in {"queued", "busy"}
Busy == {j \in Job : thread[j] = "busy"}

\* The constructor may be given a router.
Init ==
    /\ pc = [j \in Job |-> "new"] /\ asked = {}
    /\ cancels = [j \in Job |-> 0] /\ slots = Slots
    /\ thread = [j \in Job |-> "none"]
    /\ executor = FALSE /\ router \in BOOLEAN
    /\ closed = FALSE /\ closing = "no"
    /\ closer = [k \in Closer |-> "new"]

(***************************************************************************)
(* A call of _worker.                                                       *)
(***************************************************************************)

Ends(j, how) ==
    /\ pc' = [pc EXCEPT ![j] = how]
    /\ asked' = asked \ {j}

\* A closed backend refuses; else the pool is made on first use and the call
\* waits for the slot.
Enter(j) ==
    /\ pc[j] = "new" /\ j \notin asked
    /\ IF closed
       THEN Ends(j, "failed") /\ UNCHANGED executor
       ELSE pc' = [pc EXCEPT ![j] = "waiting"] /\ executor' = TRUE /\ UNCHANGED asked
    /\ UNCHANGED <<cancels, slots, thread, router, close>>

\* Faulty: does not look at _closed again after the wait.
NotAskedAgain == FALSE

\* The second look at _closed.
RefusedAfterWait == closed

\* The slot is free: hand the function to the pool, unless aclose came first.
Acquire(j) ==
    /\ pc[j] = "waiting" /\ j \notin asked /\ slots > 0
    /\ IF RefusedAfterWait
       THEN Ends(j, "failed") /\ UNCHANGED <<slots, thread>>
       ELSE /\ pc' = [pc EXCEPT ![j] = "running"]
            /\ slots' = slots - 1
            /\ thread' = [thread EXCEPT ![j] = "queued"]
            /\ UNCHANGED asked
    /\ UNCHANGED <<cancels, executor, router, close>>

\* The function has returned or raised, and the call with it.
Return(j) ==
    /\ pc[j] = "running" /\ j \notin asked /\ thread[j] = "done"
    /\ \E how \in {"returned", "failed"} : Ends(j, how)
    /\ slots' = slots + 1
    /\ UNCHANGED <<cancels, pool, close>>

\* Faulty: leaves at the first cancellation.
HoldNotAtAll(j) ==
    /\ pc[j] = "running" /\ j \in asked
    /\ Ends(j, "cancelled")
    /\ slots' = slots + 1
    /\ UNCHANGED <<cancels, pool, close>>

\* Cancelled while the function runs: wait on, slot in hand.
Hold(j) ==
    /\ pc[j] = "running" /\ j \in asked
    /\ Ends(j, "held")
    /\ UNCHANGED <<cancels, slots, pool, close>>

\* The function has ended, and the first CancelledError goes up.
Unhold(j) ==
    /\ pc[j] = "held" /\ thread[j] = "done"
    /\ Ends(j, "cancelled")
    /\ slots' = slots + 1
    /\ UNCHANGED <<cancels, pool, close>>

\* Faulty: the slot is given to nobody.
DesertKeepsSlot(j) ==
    /\ pc[j] = "held" /\ j \in asked /\ thread[j] # "done"
    /\ Ends(j, "cancelled")
    /\ UNCHANGED <<cancels, slots, pool, close>>

\* Cancelled again: `except Exception` does not hold a CancelledError, and the
\* call leaves the slot with its function still in the pool.
Desert(j) ==
    /\ pc[j] = "held" /\ j \in asked /\ thread[j] # "done"
    /\ Ends(j, "cancelled")
    /\ slots' = slots + 1
    /\ UNCHANGED <<cancels, pool, close>>

\* Faulty: a release in a finally that the acquisition does not precede.
UnwindReleases(j) ==
    /\ pc[j] \in {"new", "waiting"} /\ j \in asked
    /\ Ends(j, "cancelled")
    /\ slots' = slots + 1
    /\ UNCHANGED <<cancels, pool, close>>

\* Cancelled before the slot was taken.
Unwind(j) ==
    /\ pc[j] \in {"new", "waiting"} /\ j \in asked
    /\ Ends(j, "cancelled")
    /\ UNCHANGED <<cancels, slots, pool, close>>

\* task.cancel(): a timeout, a sibling, the deadline, aclose of the reranker.
Cancel(j) ==
    /\ pc[j] \notin Finals /\ j \notin asked /\ cancels[j] < MaxCancels
    /\ asked' = asked \cup {j}
    /\ cancels' = [cancels EXCEPT ![j] = @ + 1]
    /\ UNCHANGED <<pc, slots, pool, close>>

(***************************************************************************)
(* The pool's threads: there are as many as slots.                          *)
(***************************************************************************)

ThreadStart(j) ==
    /\ thread[j] = "queued" /\ Cardinality(Busy) < Slots
    /\ thread' = [thread EXCEPT ![j] = "busy"]
    /\ UNCHANGED <<calls, executor, router, close>>

\* _get_router makes the Router on first use.
LoadRouter(j) ==
    /\ thread[j] = "busy" /\ ~router
    /\ router' = TRUE
    /\ UNCHANGED <<calls, thread, executor, close>>

ThreadEnd(j) ==
    /\ thread[j] = "busy"
    /\ thread' = [thread EXCEPT ![j] = "done"]
    /\ UNCHANGED <<calls, executor, router, close>>

(***************************************************************************)
(* aclose. The first call makes the close task; every call waits behind a   *)
(* shield, so that the close goes on when its callers are cancelled.        *)
(***************************************************************************)

Close(k) ==
    /\ closer[k] = "new"
    /\ closer' = [closer EXCEPT ![k] = "waiting"]
    /\ closed' = TRUE
    /\ closing' = IF closing # "no" THEN closing
                  ELSE IF executor THEN "shutdown" ELSE "unload"
    /\ UNCHANGED <<calls, pool>>

\* executor.shutdown(wait=True, cancel_futures=False) returns.
PoolDrained == \A j \in Job : ~InPool(j)

Shutdown ==
    /\ closing = "shutdown" /\ PoolDrained
    /\ executor' = FALSE
    /\ closing' = "unload"
    /\ UNCHANGED <<calls, thread, router, closed, closer>>

\* router.unload may raise: the router stays, and the close task has failed.
Unload ==
    /\ closing = "unload"
    /\ \/ router' = FALSE /\ closing' = "done"
       \/ router /\ closing' = "failed" /\ UNCHANGED router
    /\ UNCHANGED <<calls, thread, executor, closed, closer>>

\* Every call of aclose has the outcome of the one close task.
CloserReturns(k) ==
    /\ closer[k] = "waiting" /\ closing \in {"done", "failed"}
    /\ closer' = [closer EXCEPT ![k] = IF closing = "done" THEN "returned" ELSE "failed"]
    /\ UNCHANGED <<calls, pool, closed, closing>>

\* Faulty: the close is part of the call, not a task behind a shield.
CancelCloserAndClose(k) ==
    /\ closer[k] = "waiting"
    /\ closer' = [closer EXCEPT ![k] = "cancelled"]
    /\ closing' = IF closing = "shutdown" THEN "no" ELSE closing
    /\ UNCHANGED <<calls, pool, closed>>

CancelCloser(k) ==
    /\ closer[k] = "waiting"
    /\ closer' = [closer EXCEPT ![k] = "cancelled"]
    /\ UNCHANGED <<calls, pool, closed, closing>>

CallStep(j) ==
    \/ Enter(j) \/ Acquire(j) \/ Return(j)
    \/ Hold(j) \/ Unhold(j) \/ Desert(j) \/ Unwind(j)

ThreadStep(j) == ThreadStart(j) \/ LoadRouter(j) \/ ThreadEnd(j)

CloseStep == Shutdown \/ Unload

Next ==
    \/ \E j \in Job : CallStep(j) \/ Cancel(j) \/ ThreadStep(j)
    \/ \E k \in Closer : Close(k) \/ CloserReturns(k) \/ CancelCloser(k)
    \/ CloseStep

Spec == Init /\ [][Next]_vars

\* The loop runs what is ready and every function given to the pool ends: the
\* library has no bound of its own on an inference.
Fairness ==
    /\ \A j \in Job : WF_vars(CallStep(j)) /\ WF_vars(ThreadStep(j))
    /\ \A k \in Closer : WF_vars(CloserReturns(k))
    /\ WF_vars(CloseStep)

FairSpec == Spec /\ Fairness

(***************************************************************************)
(* Properties.                                                              *)
(***************************************************************************)

\* A function in the pool has its call, and so the slot, waiting for it.
SlotHeldFor(j) == InPool(j) => pc[j] \in {"running", "held"}

\* "Keep the concurrency slot occupied until the worker actually finishes": it is kept
\* through one cancellation of the call, whatever other calls and aclose do. A second
\* one leaves the function in the pool without its slot.
SlotHeldOnce == \A j \in Job : cancels[j] <= 1 => SlotHeldFor(j)

\* The slots taken are those of the calls that have handed a function over: no
\* order of cancellations loses a slot or gives one back twice.
SlotsBalance ==
    /\ TypeOK /\ SlotHeldOnce
    /\ slots + Cardinality({j \in Job : pc[j] \in {"running", "held"}}) = Slots

\* Every call ends, and a close that was begun is completed even if everybody who
\* called aclose has been cancelled.
WorkEnds ==
    /\ \A j \in Job : <>(pc[j] \in Finals)
    /\ closed ~> closing \in {"done", "failed"}

\* The backend keeps the promise of DrainedShutdown, deserted functions included.
Drain == INSTANCE DrainedShutdown WITH
    door <- IF closing = "done" THEN "closed" ELSE IF closed THEN "closing" ELSE "open",
    busy <- {j \in Job : InPool(j)},
    loaded <- router

DrainSpec == Drain!Spec
=============================================================================

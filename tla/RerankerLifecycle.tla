-------------------------- MODULE RerankerLifecycle --------------------------
(***************************************************************************)
(* The life of a Reranker (api.py): tasks call rerank, also from inside a    *)
(* rerank (a strategy that ranks with the same Reranker), and call the       *)
(* backend and the observer in it; aclose refuses new calls, cancels the     *)
(* tasks it knows, waits for them, closes the observer and then the backend  *)
(* that the Reranker owns. It is composed with Observer, whose variables it  *)
(* shares.                                                                   *)
(***************************************************************************)
EXTENDS Observer, FiniteSets

CONSTANTS
    Task,     \* tasks that use the Reranker, each for one outermost rerank
    Closer,   \* other tasks that call aclose
    MaxNest   \* bound: reranks of one task in each other

ASSUME NestPositive == MaxNest \in Nat \ {0}

VARIABLES
    pc,        \* where each task is: in user code of a rerank, in a backend call
    depth,     \* the reranks a task is in
    active,    \* self._active_tasks
    asked,     \* tasks and closers with a pending cancellation
    closed,    \* self._closed
    closer,    \* where each call of aclose is
    pending,   \* the tasks the aclose under way waits for
    backend,   \* the owned backend: open or closed
    missed     \* history: tasks in a rerank that aclose did not find in active

facadeVars == <<pc, depth, active, asked, closed, closer, pending, backend, missed>>
lifecycleVars == <<facadeVars, observerVars>>

TaskEnds == {"returned", "failed", "cancelled"}
CloserEnds == {"returned", "noop", "cancelled"}

LifecycleTypeOK ==
    /\ ObserverTypeOK
    /\ pc \in [Task -> {"new", "inside", "calling"} \cup TaskEnds]
    /\ depth \in [Task -> 0..MaxNest]
    /\ active \subseteq Task /\ asked \subseteq Task \cup Closer
    /\ closed \in BOOLEAN
    /\ closer \in [Closer -> {"new", "draining", "observer", "stopping", "backend"}
                             \cup CloserEnds]
    /\ pending \subseteq Task
    /\ backend \in {"open", "closed"}
    /\ \A t \in Task : depth[t] > 0 <=> pc[t] \in {"inside", "calling"}

LifecycleInit ==
    /\ ObserverInit
    /\ pc = [t \in Task |-> "new"] /\ depth = [t \in Task |-> 0]
    /\ active = {} /\ asked = {} /\ closed = FALSE
    /\ closer = [k \in Closer |-> "new"] /\ pending = {}
    /\ backend = "open" /\ missed = {}

(***************************************************************************)
(* A task in rerank.                                                        *)
(***************************************************************************)

\* Faulty: counts a call as begun before it is refused.
CallCountedFirst(t) ==
    /\ pc[t] \in {"new", "inside"} /\ t \notin asked /\ depth[t] < MaxNest
    /\ active' = IF closed THEN active \ {t} ELSE active \cup {t}
    /\ pc' = [pc EXCEPT ![t] = IF closed /\ depth[t] = 0 THEN "failed" ELSE "inside"]
    /\ depth' = [depth EXCEPT ![t] = @ + 1]
    /\ UNCHANGED <<asked, closed, closer, pending, missed, backend, observerVars>>

\* rerank enters the task and, refused, takes it out again in its finally block,
\* even if an outer rerank of the task goes on.
Call(t) ==
    /\ pc[t] \in {"new", "inside"} /\ t \notin asked /\ depth[t] < MaxNest
    /\ IF closed
       THEN /\ active' = active \ {t}
            /\ pc' = [pc EXCEPT ![t] = IF depth[t] = 0 THEN "failed" ELSE "inside"]
            /\ UNCHANGED depth
       ELSE /\ active' = active \cup {t}
            /\ pc' = [pc EXCEPT ![t] = "inside"]
            /\ depth' = [depth EXCEPT ![t] = @ + 1]
    /\ UNCHANGED <<asked, closed, closer, pending, missed, backend, observerVars>>

\* Events of the stage and of the rerank.
Trace(t) ==
    /\ pc[t] \in {"inside", "calling"}
    /\ Emit
    /\ UNCHANGED facadeVars

CallBackend(t) ==
    /\ pc[t] = "inside" /\ t \notin asked
    /\ pc' = [pc EXCEPT ![t] = "calling"]
    /\ UNCHANGED <<depth, active, asked, closed, closer, pending, missed, backend, observerVars>>

BackendReturns(t) ==
    /\ pc[t] = "calling" /\ t \notin asked
    /\ pc' = [pc EXCEPT ![t] = "inside"]
    /\ UNCHANGED <<depth, active, asked, closed, closer, pending, missed, backend, observerVars>>

\* The innermost rerank returns or raises; its finally block forgets the task.
Leave(t) ==
    /\ pc[t] = "inside" /\ t \notin asked
    /\ depth' = [depth EXCEPT ![t] = @ - 1]
    /\ active' = active \ {t}
    /\ IF depth[t] > 1
       THEN UNCHANGED pc
       ELSE \E how \in {"returned", "failed"} : pc' = [pc EXCEPT ![t] = how]
    /\ UNCHANGED <<asked, closed, closer, pending, missed, backend, observerVars>>

\* The cancellation takes the task out of every rerank it is in.
Abort(t) ==
    /\ depth[t] > 0 /\ t \in asked
    /\ depth' = [depth EXCEPT ![t] = 0]
    /\ active' = active \ {t}
    /\ pc' = [pc EXCEPT ![t] = "cancelled"]
    /\ asked' = asked \ {t}
    /\ UNCHANGED <<closed, closer, pending, missed, backend, observerVars>>

\* It is lost on the way: the failure of a group was raised in its place and the
\* stage or the strategy falls back.
Survive(t) ==
    /\ depth[t] > 0 /\ t \in asked
    /\ asked' = asked \ {t}
    /\ pc' = [pc EXCEPT ![t] = "inside"]
    /\ UNCHANGED <<depth, active, closed, closer, pending, missed, backend, observerVars>>

(***************************************************************************)
(* aclose.                                                                  *)
(***************************************************************************)

\* Faulty: the tasks are cancelled and not waited for.
PendingForgotten == {}

PendingTasks == active

\* The first call closes; any later one returns at once, whatever the first has
\* still to do.
Close(k) ==
    /\ closer[k] = "new"
    /\ IF closed
       THEN closer' = [closer EXCEPT ![k] = "noop"] /\ UNCHANGED <<asked, closed, pending, missed>>
       ELSE /\ closer' = [closer EXCEPT ![k] = "draining"]
            /\ closed' = TRUE
            /\ asked' = asked \cup active
            /\ missed' = {t \in Task : depth[t] > 0} \ active
            /\ pending' = PendingTasks
    /\ UNCHANGED <<pc, depth, active, backend, observerVars>>

Ended(t) == pc[t] \in TaskEnds

\* Faulty: the observer is left to itself.
ObserverSkipped(k) ==
    /\ closer[k] = "draining" /\ \A t \in pending : Ended(t) /\ k \notin asked
    /\ closer' = [closer EXCEPT ![k] = "backend"]
    /\ UNCHANGED <<pc, depth, active, asked, closed, pending, missed, backend, observerVars>>

\* All pending tasks have ended: on to the observer, whose aclose does nothing
\* without a worker. A cancellation of aclose is reported by the gather only now.
DrainDone(k) ==
    /\ closer[k] = "draining" /\ \A t \in pending : Ended(t)
    /\ closer' = [closer EXCEPT ![k] = IF k \in asked THEN "cancelled"
                                       ELSE IF worker = "none" THEN "backend" ELSE "observer"]
    /\ asked' = asked \ {k}
    /\ UNCHANGED <<pc, depth, active, closed, pending, missed, backend, observerVars>>

StopObserver(k) ==
    /\ closer[k] = "observer" /\ k \notin asked
    /\ Joined \/ GiveUp
    /\ closer' = [closer EXCEPT ![k] = "stopping"]
    /\ UNCHANGED <<pc, depth, active, asked, closed, pending, missed, backend>>

\* A cancellation while aclose waits for the cancelled worker is swallowed with
\* the worker's own.
ObserverStopped(k) ==
    /\ closer[k] = "stopping"
    /\ Stopped
    /\ closer' = [closer EXCEPT ![k] = "backend"]
    /\ asked' = asked \ {k}
    /\ UNCHANGED <<pc, depth, active, closed, pending, missed, backend>>

CloseBackend(k) ==
    /\ closer[k] = "backend" /\ k \notin asked
    /\ backend' = "closed"
    /\ closer' = [closer EXCEPT ![k] = "returned"]
    /\ UNCHANGED <<pc, depth, active, asked, closed, pending, missed, observerVars>>

\* A cancellation at the observer's queue or in the backend's aclose ends the call
\* with the rest undone; nothing will do it, for _closed is set.
AbortClose(k) ==
    /\ closer[k] \in {"observer", "backend"} /\ k \in asked
    /\ closer' = [closer EXCEPT ![k] = "cancelled"]
    /\ asked' = asked \ {k}
    /\ backend' \in IF closer[k] = "backend" THEN {"open", "closed"} ELSE {backend}
    /\ UNCHANGED <<pc, depth, active, closed, pending, missed, observerVars>>

\* task.cancel() on a user's task.
Cancel(t) ==
    /\ depth[t] > 0 /\ t \notin asked
    /\ asked' = asked \cup {t}
    /\ UNCHANGED <<pc, depth, active, closed, closer, pending, missed, backend, observerVars>>

\* task.cancel() on a task in aclose: the gather hands it on to what it waits for.
CancelClose(k) ==
    /\ closer[k] \notin {"new"} \cup CloserEnds /\ k \notin asked
    /\ asked' = asked \cup {k} \cup
          IF closer[k] = "draining" THEN {t \in pending : ~Ended(t)} ELSE {}
    /\ UNCHANGED <<pc, depth, active, closed, closer, pending, missed, backend, observerVars>>

ObserverWorks == (Take \/ Handled) /\ UNCHANGED facadeVars

TaskStep(t) ==
    \/ Call(t) \/ Trace(t) \/ CallBackend(t) \/ BackendReturns(t)
    \/ Leave(t) \/ Abort(t) \/ Survive(t)

CloseStep(k) ==
    \/ DrainDone(k) \/ StopObserver(k) \/ ObserverStopped(k)
    \/ CloseBackend(k) \/ AbortClose(k)

LifecycleNext ==
    \/ \E t \in Task : TaskStep(t) \/ Cancel(t)
    \/ \E k \in Closer : Close(k) \/ CloseStep(k) \/ CancelClose(k)
    \/ ObserverWorks

LifecycleSpec == LifecycleInit /\ [][LifecycleNext]_lifecycleVars

\* A cancelled task unwinds; nothing is said of the code that is not cancelled, nor of
\* the user's observer, which may hang. The wait for its queue has a timeout.
Fairness ==
    /\ \A t \in Task : WF_lifecycleVars(Abort(t))
    /\ \A k \in Closer : WF_lifecycleVars(CloseStep(k))

FairSpec == LifecycleSpec /\ Fairness

(***************************************************************************)
(* Properties.                                                              *)
(***************************************************************************)

\* test_scope_exit_cancels_active_work_before_closing_owned_resources: the backend
\* is closed when no task is left in a rerank that could call it, cancelled or not, and no
\* call that comes during the close gets through. The exception is a task that went on
\* after a rerank nested in another had taken it out of _active_tasks.
BackendClosedIdle ==
    /\ LifecycleTypeOK
    /\ backend = "closed" => \A t \in Task : depth[t] = 0 \/ t \in missed

\* aclose has run to its end, and knew every task that was at work.
ClosedAll == missed = {} /\ \E k \in Closer : closer[k] = "returned"

\* When aclose has run to its end, no observer worker is left and none can start,
\* unless a task it did not know goes on emitting.
ObserverClosedForGood == ClosedAll => worker = "none"

\* No event is ever counted twice over, as delivered, failed or dropped; and when aclose
\* has run to its end every event has been counted, but for the one the observer had
\* in hand when the wait timed out. A task that aclose did not know may start the worker
\* anew, which then handles events the timed-out wait has counted as dropped.
EventsAccounted ==
    /\ missed = {} => Accounted <= emitted
    /\ ClosedAll => emitted - Accounted <= 1

\* aclose ends, unless a task has got the better of its cancellation; and unless aclose
\* is itself cancelled, the backend is closed then.
CloseEnds ==
    \A k \in Closer :
        closer[k] = "draining" ~>
            \/ closer[k] = "cancelled"
            \/ closer[k] = "returned" /\ backend = "closed"
            \/ \E t \in pending : pc[t] \in {"inside", "calling"} /\ t \notin asked
=============================================================================

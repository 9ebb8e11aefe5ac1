------------------------------ MODULE Observer ------------------------------
(***************************************************************************)
(* ObserverDispatcher of observability.py: emit never waits, one worker      *)
(* takes events from a bounded queue and calls the user's observer, aclose   *)
(* waits a while for the queue to empty and then cancels the worker.         *)
(* Events are counted, not told apart: the queue is first in, first out.     *)
(***************************************************************************)
EXTENDS Integers

CONSTANTS
    Capacity,   \* observer_queue_size
    MaxEvents   \* bound: events emitted

ASSUME CapacityPositive == Capacity \in Nat \ {0}
ASSUME EventsBounded == MaxEvents \in Nat

VARIABLES
    queue,      \* events in the queue
    worker,     \* the task: none, idle at queue.get, busy in the observer, stopped
    dropped,    \* self.dropped
    errors,     \* self.errors
    delivered,  \* history: events the observer has handled
    emitted     \* history: calls of emit

observerVars == <<queue, worker, dropped, errors, delivered, emitted>>

ObserverTypeOK ==
    /\ queue \in 0..Capacity
    /\ worker \in {"none", "idle", "busy", "stopped"}
    /\ {dropped, errors, delivered} \subseteq Nat
    /\ emitted \in 0..MaxEvents

ObserverInit ==
    /\ queue = 0 /\ worker = "none"
    /\ dropped = 0 /\ errors = 0 /\ delivered = 0 /\ emitted = 0

\* emit: the first event starts the worker; a full queue drops the event.
Emit ==
    /\ emitted < MaxEvents
    /\ emitted' = emitted + 1
    /\ worker' = IF worker = "none" THEN "idle" ELSE worker
    /\ IF queue < Capacity
       THEN queue' = queue + 1 /\ UNCHANGED dropped
       ELSE dropped' = dropped + 1 /\ UNCHANGED queue
    /\ UNCHANGED <<errors, delivered>>

Take ==
    /\ worker = "idle" /\ queue > 0
    /\ worker' = "busy" /\ queue' = queue - 1
    /\ UNCHANGED <<dropped, errors, delivered, emitted>>

\* Faulty: an event the observer failed on goes back into the queue.
HandledOrRetried ==
    /\ worker = "busy"
    /\ worker' = "idle"
    /\ \/ delivered' = delivered + 1 /\ UNCHANGED <<queue, errors>>
       \/ /\ errors' = errors + 1
          /\ queue' = IF queue < Capacity THEN queue + 1 ELSE queue
          /\ UNCHANGED delivered
    /\ UNCHANGED <<dropped, emitted>>

\* The observer returns or raises.
Handled ==
    /\ worker = "busy"
    /\ worker' = "idle"
    /\ \/ delivered' = delivered + 1 /\ UNCHANGED errors
       \/ errors' = errors + 1 /\ UNCHANGED delivered
    /\ UNCHANGED <<queue, dropped, emitted>>

\* queue.join() returns, and aclose cancels the worker.
Joined ==
    /\ worker = "idle" /\ queue = 0
    /\ worker' = "stopped"
    /\ UNCHANGED <<queue, dropped, errors, delivered, emitted>>

\* Faulty: waits for the queue without a timeout.
NeverGivesUp == FALSE /\ UNCHANGED observerVars

\* The wait times out: what is in the queue is counted as dropped, and stays there;
\* what the worker has in hand is neither handled nor counted.
GiveUp ==
    /\ worker \in {"idle", "busy"} /\ (queue > 0 \/ worker = "busy")
    /\ dropped' = dropped + queue
    /\ worker' = "stopped"
    /\ UNCHANGED <<queue, errors, delivered, emitted>>

\* The cancelled worker has ended and is forgotten.
Stopped ==
    /\ worker = "stopped"
    /\ worker' = "none"
    /\ UNCHANGED <<queue, dropped, errors, delivered, emitted>>

ObserverNext == Emit \/ Take \/ Handled \/ Joined \/ GiveUp \/ Stopped

ObserverSpec == ObserverInit /\ [][ObserverNext]_observerVars

Accounted == delivered + errors + dropped
=============================================================================

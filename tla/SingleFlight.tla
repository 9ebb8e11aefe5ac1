--------------------------- MODULE SingleFlight ---------------------------
(***************************************************************************)
(* ExecutionServices._call_model of _runtime/executor.py: the cache lookup, *)
(* the table of calls in flight that lets identical calls share one task,   *)
(* and the cache store.                                                     *)
(*                                                                          *)
(* A caller is one _call_model coroutine. It may be cancelled at any await  *)
(* (a sibling of its window failed, the deadline fired, the request was     *)
(* abandoned). The sections under _inflight_lock await nothing, so each is  *)
(* one step; every await of the code ends a step here.                      *)
(***************************************************************************)
EXTENDS Integers, FiniteSets

CONSTANTS
    Caller,        \* the _call_model coroutines of one request
    Content,       \* what _model_key digests: query, texts, prompt, model, ...
    ContentOf,     \* the content each caller asks about
    IdsOf,         \* the occurrence ids of its candidates, in order
    AllowPartial,  \* the callers that accept missing candidates
    Cacheable,     \* the callers with cache_allowed
    None

ASSUME CallerFinite == IsFiniteSet(Caller)
ASSUME ContentTyped == ContentOf \in [Caller -> Content]
ASSUME IdsTyped == DOMAIN IdsOf = Caller
ASSUME FlagsTyped == AllowPartial \subseteq Caller /\ Cacheable \subseteq Caller
ASSUME NoneIsNew ==
    /\ None \notin Caller /\ None # "partial"
    /\ None \notin [task : Caller, waiters : Nat]

\* Faulty: callers that tolerate missing candidates share with those that do not.
KeyWithoutPartial(c) == <<ContentOf[c], {}, IdsOf[c]>>

\* inflight_key: the cache key, allow_partial and the occurrence ids.
InflightKey(c) == <<ContentOf[c], c \in AllowPartial, IdsOf[c]>>

Key == {InflightKey(c) : c \in Caller}

VARIABLES
    pc,        \* the await each caller is at
    asked,     \* the callers with a pending task.cancel()
    task,      \* the task a caller joined; a task is named by its creator
    inflight,  \* ExecutionServices._inflight: key -> task and waiter count
    status,    \* the state of each task
    doomed,    \* the tasks that the last waiter has cancelled
    cache,     \* what the cache backend holds for each content
    got        \* history: what each caller was told

vars == <<pc, asked, task, inflight, status, doomed, cache, got>>

Finals == {"returned", "failed", "invalid", "cancelled"}
Pc == {"new", "lookup", "purging", "waiting", "leaving", "storing"} \cup Finals
Results == {"full", "partial", "error", "cancelled"}
Status == {"none", "created", "running"} \cup Results
Entry == [task : Caller, waiters : Nat]

\* A record is one the library stored, whole or not, or one it cannot restore.
Record == {"full", "partial", "foreign"}

TypeOK ==
    /\ pc \in [Caller -> Pc]
    /\ asked \subseteq Caller
    /\ task \in [Caller -> Caller \cup {None}]
    /\ inflight \in [Key -> Entry \cup {None}]
    /\ status \in [Caller -> Status]
    /\ doomed \subseteq Caller
    /\ cache \in [Content -> Record \cup {None}]
    /\ got \in [Caller -> {"nothing", "response", "failure", "abandoned", "cached"}]

Waiting(t) == {c \in Caller : pc[c] = "waiting" /\ task[c] = t}

Init ==
    /\ pc = [c \in Caller |-> "new"]
    /\ asked = {}
    /\ task = [c \in Caller |-> None]
    /\ inflight = [k \in Key |-> None]
    /\ status = [c \in Caller |-> "none"]
    /\ doomed = {}
    /\ cache \in [Content -> {None, "full", "foreign"}]
    /\ got = [c \in Caller |-> "nothing"]

(***************************************************************************)
(* The table of calls in flight.                                            *)
(***************************************************************************)

\* Under _inflight_lock: create the task of this key, or count one more waiter.
JoinFlight(c) ==
    LET k == InflightKey(c) IN
    /\ pc' = [pc EXCEPT ![c] = "waiting"]
    /\ \/ /\ inflight[k] = None
          /\ inflight' = [inflight EXCEPT ![k] = [task |-> c, waiters |-> 1]]
          /\ task' = [task EXCEPT ![c] = c]
          /\ status' = [status EXCEPT ![c] = "created"]
       \/ /\ inflight[k] # None
          /\ inflight' = [inflight EXCEPT ![k].waiters = @ + 1]
          /\ task' = [task EXCEPT ![c] = inflight[k].task]
          /\ UNCHANGED status
    /\ UNCHANGED doomed

\* Does the table still list the task c waits for?
Listed(c) ==
    LET k == InflightKey(c) IN inflight[k] # None /\ inflight[k].task = task[c]

IsLastWaiter(c) == Listed(c) /\ inflight[InflightKey(c)].waiters = 1

\* Faulty: a task that was cancelled does not count as done.
FinishedUnlessCancelled(t) == status[t] \in {"full", "partial", "error"}

\* task.done()
Finished(t) == status[t] \in Results

\* Faulty: whoever leaves first takes the task down.
DropAndCancel(c) ==
    /\ inflight' = [inflight EXCEPT ![InflightKey(c)] = None]
    /\ doomed' = IF Finished(task[c]) THEN doomed ELSE doomed \cup {task[c]}

\* Faulty: the last waiter cancels the task and leaves its entry behind.
DropKeepingEntry(c) ==
    /\ inflight' = [inflight EXCEPT ![InflightKey(c)].waiters = @ - 1]
    /\ doomed' = IF IsLastWaiter(c) /\ ~Finished(task[c])
                 THEN doomed \cup {task[c]} ELSE doomed

\* Faulty: the last waiter forgets the task instead of cancelling it.
DropWithoutCancel(c) ==
    /\ inflight' = IF IsLastWaiter(c)
                   THEN [inflight EXCEPT ![InflightKey(c)] = None]
                   ELSE [inflight EXCEPT ![InflightKey(c)].waiters = @ - 1]
    /\ UNCHANGED doomed

\* Faulty: an interrupted caller that is not the last one is still counted.
DropIfLast(c) ==
    /\ inflight' = IF IsLastWaiter(c)
                   THEN [inflight EXCEPT ![InflightKey(c)] = None]
                   ELSE inflight
    /\ doomed' = IF IsLastWaiter(c) /\ ~Finished(task[c])
                 THEN doomed \cup {task[c]} ELSE doomed

\* Faulty: an except block and the finally block both count the caller out.
DropCountedTwice(c) ==
    /\ inflight' = IF IsLastWaiter(c)
                   THEN [inflight EXCEPT ![InflightKey(c)] = None]
                   ELSE [inflight EXCEPT ![InflightKey(c)].waiters = @ - 2]
    /\ UNCHANGED doomed

\* The finally block, under _inflight_lock: the last waiter takes the entry out
\* and cancels a task that is not done.
DropWaiter(c) ==
    /\ inflight' = IF IsLastWaiter(c)
                   THEN [inflight EXCEPT ![InflightKey(c)] = None]
                   ELSE IF Listed(c)
                   THEN [inflight EXCEPT ![InflightKey(c)].waiters = @ - 1]
                   ELSE inflight
    /\ doomed' = IF IsLastWaiter(c) /\ ~Finished(task[c])
                 THEN doomed \cup {task[c]} ELSE doomed

\* _validate_response against the caller's own candidates and tolerance.
Fits(c) ==
    /\ IdsOf[task[c]] = IdsOf[c]
    /\ status[task[c]] = "partial" => c \in AllowPartial

\* Faulty: stores whatever arrived.
StoresAnything(c) == c \in Cacheable

\* Only a response that scores every candidate is stored.
MayStore(c) == c \in Cacheable /\ status[task[c]] = "full"

\* The shielded task is done and the caller resumes with its response.
Receive(c) ==
    /\ pc[c] = "waiting" /\ c \notin asked
    /\ status[task[c]] \in {"full", "partial"}
    /\ DropWaiter(c)
    /\ got' = [got EXCEPT ![c] = "response"]
    /\ pc' = [pc EXCEPT ![c] = IF ~Fits(c) THEN "invalid"
                               ELSE IF MayStore(c) THEN "storing" ELSE "returned"]
    /\ UNCHANGED <<asked, task, status, cache>>

\* The shielded task ended with an exception, and the caller re-raises it.
Reraise(c) ==
    /\ pc[c] = "waiting" /\ c \notin asked
    /\ status[task[c]] \in {"error", "cancelled"}
    /\ DropWaiter(c)
    /\ got' = [got EXCEPT ![c] = "failure"]
    /\ pc' = [pc EXCEPT ![c] = "failed"]
    /\ UNCHANGED <<asked, task, status, cache>>

\* Faulty: the last waiter cancels the task and does not wait for its end.
InterruptNoWait(c) ==
    /\ pc[c] = "waiting" /\ c \in asked
    /\ DropWaiter(c)
    /\ got' = [got EXCEPT ![c] = "abandoned"]
    /\ pc' = [pc EXCEPT ![c] = "cancelled"]
    /\ asked' = asked \ {c}
    /\ UNCHANGED <<task, status, cache>>

\* CancelledError at the shield: the task goes on for the other waiters; the
\* last waiter cancels it and stays until it has ended.
Interrupt(c) ==
    /\ pc[c] = "waiting" /\ c \in asked
    /\ DropWaiter(c)
    /\ got' = [got EXCEPT ![c] = "abandoned"]
    /\ pc' = [pc EXCEPT ![c] = IF IsLastWaiter(c) /\ ~Finished(task[c])
                               THEN "leaving" ELSE "cancelled"]
    /\ asked' = asked \ {c}
    /\ UNCHANGED <<task, status, cache>>

\* gather(cancelled_task, return_exceptions=True) returns. A further cancel()
\* of the caller does not cut the wait short.
Leave(c) ==
    /\ pc[c] = "leaving"
    /\ Finished(task[c])
    /\ pc' = [pc EXCEPT ![c] = "cancelled"]
    /\ asked' = asked \ {c}
    /\ UNCHANGED <<task, inflight, status, doomed, cache, got>>

(***************************************************************************)
(* The cache around it. What the code does between two awaits is one step,  *)
(* so a miss joins the table in the step that sees it.                      *)
(***************************************************************************)

Begin(c) ==
    /\ pc[c] = "new" /\ c \notin asked
    /\ \/ /\ c \in Cacheable
          /\ pc' = [pc EXCEPT ![c] = "lookup"]
          /\ UNCHANGED <<task, inflight, status, doomed>>
       \/ c \notin Cacheable /\ JoinFlight(c)
    /\ UNCHANGED <<asked, cache, got>>

\* cache.get answered with a whole record; _restore_cached gives it the
\* caller's own ids.
Hit(c) ==
    /\ pc[c] = "lookup" /\ c \notin asked
    /\ cache[ContentOf[c]] = "full"
    /\ pc' = [pc EXCEPT ![c] = "returned"]
    /\ got' = [got EXCEPT ![c] = "cached"]
    /\ UNCHANGED <<asked, task, inflight, status, doomed, cache>>

\* _restore_cached refuses the record, or it is of another type: delete it.
Reject(c) ==
    /\ pc[c] = "lookup" /\ c \notin asked
    /\ cache[ContentOf[c]] \in {"partial", "foreign"}
    /\ pc' = [pc EXCEPT ![c] = "purging"]
    /\ UNCHANGED <<asked, task, inflight, status, doomed, cache, got>>

Miss(c) ==
    /\ pc[c] = "lookup" /\ c \notin asked
    /\ cache[ContentOf[c]] = None
    /\ JoinFlight(c)
    /\ UNCHANGED <<asked, cache, got>>

\* cache.delete answered: the call goes on as a miss, whatever has been stored
\* in the meantime goes with the rejected record.
Purged(c) ==
    /\ pc[c] = "purging" /\ c \notin asked
    /\ cache' = [cache EXCEPT ![ContentOf[c]] = None]
    /\ JoinFlight(c)
    /\ UNCHANGED <<asked, got>>

\* cache.set answered.
Stored(c) ==
    /\ pc[c] = "storing" /\ c \notin asked
    /\ cache' = [cache EXCEPT ![ContentOf[c]] = status[task[c]]]
    /\ pc' = [pc EXCEPT ![c] = "returned"]
    /\ UNCHANGED <<asked, task, inflight, status, doomed, got>>

\* The record outlives its ttl_seconds, or the cache makes room.
Evict(k) ==
    /\ cache[k] # None
    /\ cache' = [cache EXCEPT ![k] = None]
    /\ UNCHANGED <<pc, asked, task, inflight, status, doomed, got>>

(***************************************************************************)
(* Cancellation of a caller, and the shared task.                           *)
(***************************************************************************)

\* task.cancel() on a caller that is not done.
Cancel(c) ==
    /\ pc[c] \notin Finals /\ c \notin asked
    /\ asked' = asked \cup {c}
    /\ UNCHANGED <<pc, task, inflight, status, doomed, cache, got>>

\* CancelledError outside the shield: there is nothing to undo. A coroutine
\* cancelled before its first step never runs.
Unwind(c) ==
    /\ pc[c] \in {"new", "lookup", "purging", "storing"} /\ c \in asked
    /\ pc' = [pc EXCEPT ![c] = "cancelled"]
    /\ asked' = asked \ {c}
    /\ got' = [got EXCEPT ![c] = IF @ = "nothing" THEN "abandoned" ELSE @]
    /\ UNCHANGED <<task, inflight, status, doomed, cache>>

StartTask(t) ==
    /\ status[t] = "created" /\ t \notin doomed
    /\ status' = [status EXCEPT ![t] = "running"]
    /\ UNCHANGED <<pc, asked, task, inflight, doomed, cache, got>>

\* _execute_model returns or raises. It has validated the response against the
\* tolerance of the caller that created the task.
EndTask(t) ==
    /\ status[t] = "running" /\ t \notin doomed
    /\ \E r \in {"full", "partial", "error"} :
          /\ r = "partial" => t \in AllowPartial
          /\ status' = [status EXCEPT ![t] = r]
    /\ UNCHANGED <<pc, asked, task, inflight, doomed, cache, got>>

\* A cancelled task ends: without running at all when it had not started, else
\* with CancelledError or with what the backend raises instead of it.
EndDoomedTask(t) ==
    /\ t \in doomed
    /\ \/ /\ status[t] \in {"created", "running"}
          /\ status' = [status EXCEPT ![t] = "cancelled"]
       \/ /\ status[t] = "running"
          /\ status' = [status EXCEPT ![t] = "error"]
    /\ UNCHANGED <<pc, asked, task, inflight, doomed, cache, got>>

CallerStep(c) ==
    \/ Begin(c) \/ Hit(c) \/ Reject(c) \/ Miss(c) \/ Purged(c) \/ Stored(c)
    \/ Receive(c) \/ Reraise(c) \/ Interrupt(c) \/ Leave(c) \/ Unwind(c)

TaskStep(t) == StartTask(t) \/ EndTask(t) \/ EndDoomedTask(t)

Next ==
    \/ \E c \in Caller : CallerStep(c) \/ Cancel(c) \/ TaskStep(c)
    \/ \E k \in Content : Evict(k)

Spec == Init /\ [][Next]_vars

\* The event loop runs every ready callback, the cache answers, and a backend
\* call ends: asyncio.timeout bounds it. Nobody has to cancel.
Fairness ==
    \A c \in Caller : WF_vars(CallerStep(c)) /\ WF_vars(TaskStep(c))

FairSpec == Spec /\ Fairness

(***************************************************************************)
(* Properties.                                                              *)
(***************************************************************************)

\* The waiter count of an entry is the number of callers at its shield, and an
\* entry without waiters is never left in the table.
WaitersCounted ==
    \A k \in Key : inflight[k] # None =>
        /\ inflight[k].waiters = Cardinality(Waiting(inflight[k].task))
        /\ inflight[k].waiters > 0

\* A task that is not done and not cancelled is listed, so that somebody waits
\* for it: no model call goes on that nobody wants. At most one such task
\* exists for a key.
NoOrphanTask ==
    \A t \in Caller :
        status[t] \in {"created", "running"} /\ t \notin doomed =>
            /\ Waiting(t) # {}
            /\ \A u \in Caller \ {t} :
                  InflightKey(u) = InflightKey(t) /\ status[u] \in {"created", "running"}
                      => u \in doomed

\* A caller that leaves never takes down the task another caller waits for.
NeighbourSurvives ==
    \A c \in Caller : pc[c] = "waiting" => task[c] \notin doomed

\* Whoever shares a task can use its response: the ids are its own, and missing
\* candidates reach only callers that accept them.
SharingFits == \A c \in Caller : pc[c] # "invalid"

\* The only records a lookup throws away are ones this library did not store:
\* a tolerant caller never leaves a partial response for a strict one.
RejectsOnlyForeign ==
    \A c \in Caller : pc[c] = "lookup" => cache[ContentOf[c]] # "partial"

\* A task that was cancelled and has not ended keeps the caller that cancelled
\* it at its finally block: when the callers of a request are gone, so is every
\* task they started.
CancelledTaskAwaited ==
    \A t \in doomed : ~Finished(t) =>
        \E c \in Caller : pc[c] = "leaving" /\ task[c] = t

\* A task ends when nobody wants it any more, and only then: one that runs on has a
\* waiter, one that was cancelled has the caller that cancelled it and nobody else.
TasksOwned == NoOrphanTask /\ CancelledTaskAwaited /\ NeighbourSurvives

\* A caller can use every response it gets, shared with others or stored by them.
ResponsesFit == SharingFits /\ RejectsOnlyForeign

\* Every caller comes to an end, however the others come and go.
CallersEnd == \A c \in Caller : <>(pc[c] \in Finals)

(***************************************************************************)
(* SingleFlight keeps the promise of SharedWork.                            *)
(***************************************************************************)

Told(r) == IF r \in {"full", "partial"} THEN "answered"
           ELSE IF r \in {"error", "cancelled"} THEN "failed" ELSE "busy"

Shared == INSTANCE SharedWork WITH
    KeyOf <- [c \in Caller |-> InflightKey(c)],
    members <- [k \in Key |-> {c \in Caller : pc[c] = "waiting" /\ InflightKey(c) = k}],
    work <- [k \in Key |-> IF inflight[k] = None THEN "idle"
                           ELSE Told(status[inflight[k].task])]

SharedSpec == Shared!Spec
=============================================================================

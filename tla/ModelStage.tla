---------------------------- MODULE ModelStage ----------------------------
(***************************************************************************)
(* One model stage of a rerank request: ExecutionServices.model_scores tries *)
(* the routes in turn, _model_scores_selected scores the candidate groups   *)
(* of a route in windows, _gather_owned owns the tasks of a window, and      *)
(* _execute_model/_run_model_request carry out one group: reserve, permit,  *)
(* attempts with back-off, reconcile or settle, record.                     *)
(*                                                                          *)
(* asyncio runs one task at a time; a step here is what runs between two    *)
(* awaits. Cache and single flight are SingleFlight's: here each group is   *)
(* a call of its own.                                                       *)
(***************************************************************************)
EXTENDS Integers, Sequences, FiniteSets, FiniteSetsExt

CONSTANTS
    NRoutes,         \* the routes BackendRouter.routes returned
    NGroups,         \* the batches the candidates were cut into
    Window,          \* tasks of one gather: 2 * max_concurrency
    MaxConcurrency,  \* permits of the Reranker's semaphore
    MaxAttempts,     \* the attempts a backend makes for one score call
    Checkpoint,      \* the models a response may name
    MaxInterrupts,   \* bound: task.cancel() calls on the request's task
    MaxCalls, MaxTokens, HasDeadline, Estimates, Reports, None  \* BudgetLedger's

ASSUME StageSizes ==
    {NRoutes, NGroups, Window, MaxConcurrency, MaxAttempts} \subseteq Nat \ {0}
ASSUME InterruptsBounded == MaxInterrupts \in Nat

Route == 1..NRoutes
Group == 1..NGroups
Exec == Route \X Group

VARIABLES
    stage,        \* where model_scores is
    route,        \* the route in use
    base,         \* groups of earlier windows
    w,            \* where the task of each group is, or how it ended
    asked,        \* groups whose task has been cancelled
    unseen,       \* ended tasks whose done callback has yet to run, in order
    gather,       \* the future of asyncio.gather: open, or how it was resolved
    gatherAsked,  \* its _cancel_requested
    permits,      \* free permits of the semaphore
    tries,        \* history: requests sent to the provider by each execution
    responses,    \* the local list of responses: who scored each group
    modelCalls,   \* statistics.model_calls
    interrupts,   \* task.cancel() calls so far
    interrupted,  \* history: whether one came, and with a failure unseen or not
    outcome,      \* how the stage ended, or None
    ledger, phase, estimate, booked, expired

L == INSTANCE BudgetLedger WITH MaxCost <- None, StrictCost <- FALSE

parent == <<stage, route, base, interrupts, interrupted, outcome>>
future == <<gather, gatherAsked>>
workers == <<w, asked, unseen, permits, tries, responses, modelCalls>>
budget == <<ledger, phase, estimate, booked, expired>>
vars == <<parent, future, workers, budget>>

\* "failed" is a BackendError, among them refused authentication and malformed output,
\* a CapabilityError or a ContextLimitError; "stopped" a BudgetExceededError or
\* DeadlineExceededError.
Failures == {"failed", "stopped"}
Errors == Failures \cup {"cancelled"}
Ended == {"ok"} \cup Errors

ASSUME NoneIsNew == None \notin Int /\ None \notin Ended
ASSUME LedgerInputs ==
    /\ {MaxCalls, MaxTokens} \subseteq L!Limit /\ HasDeadline \in BOOLEAN
    /\ Estimates \subseteq [tokens : Nat \ {0}, cost : L!Limit]
    /\ Reports \subseteq [tokens : L!Limit, cost : L!Limit]

Holding == {"calling", "backoff"}
Live == {"ready", "queued"} \cup Holding

TypeOK ==
    /\ stage \in {"preparing", "running", "draining", "ended"}
    /\ route \in Route /\ base \in 0..(NGroups - 1)
    /\ w \in [Group -> {"idle"} \cup Live \cup Ended]
    /\ asked \subseteq Group /\ unseen \in Seq(Group)
    /\ gather \in {"open"} \cup Ended /\ gatherAsked \in BOOLEAN
    /\ permits \in 0..MaxConcurrency
    /\ tries \in [Exec -> 0..MaxAttempts]
    /\ responses \in [Group -> {None} \cup (Route \X Checkpoint)]
    /\ modelCalls \in Nat /\ interrupts \in 0..MaxInterrupts
    /\ interrupted \in {"no", "raced", "plain"} /\ outcome \in {None} \cup Ended
    /\ L!TypeOK


\* Tasks of the current window that have not ended.
Undone == {g \in Group : w[g] \in Live}
WindowFrom(first) == {g \in Group : first < g /\ g <= first + Window}

Init ==
    /\ stage = "preparing" /\ route = 1 /\ base = 0
    /\ w = [g \in Group |-> "idle"]
    /\ asked = {} /\ unseen = <<>>
    /\ gather = "open" /\ gatherAsked = FALSE
    /\ permits = MaxConcurrency
    /\ tries = [e \in Exec |-> 0]
    /\ responses = [g \in Group |-> None]
    /\ modelCalls = 0 /\ interrupts = 0
    /\ interrupted = "no" /\ outcome = None
    /\ L!Init

(***************************************************************************)
(* One group: _execute_model and _run_model_request.                        *)
(***************************************************************************)

\* The task of g ends. A cancelled one reports CancelledError, whatever its
\* execution came to. A done callback does nothing once the gather is resolved.
Ends(g, how) ==
    /\ w' = [w EXCEPT ![g] = IF g \in asked THEN "cancelled" ELSE how]
    /\ unseen' = IF gather = "open" THEN Append(unseen, g) ELSE unseen

\* Faulty: gives a permit back for a group that held none.
ReleasedAlways(g) == permits + 1

\* Faulty: keeps the permit of a call that did not return.
ReleasedNever(g) == permits

\* The permits once g has left `async with self._semaphore`.
Released(g) == permits + (IF w[g] \in Holding THEN 1 ELSE 0)

\* Faulty: started_call is set when the response is there.
ChargedNothing(g) == 0

\* started_call: an execution interrupted before its call is charged nothing,
\* later one attempt, however many it has made.
Charged(g) == IF w[g] \in Holding THEN 1 ELSE 0

\* Faulty: counts a retry for a call that was never made.
CountedAlways(n) == modelCalls + n - 1

\* statistics.model_calls after a failure charged with n attempts; the first
\* was counted when the call started.
Counted(n) == IF n = 0 THEN modelCalls ELSE modelCalls + n - 1

\* The ledger admits the request; the execution queues for a permit.
Admit(g) ==
    /\ w[g] = "ready"
    /\ L!Reserve(<<route, g>>)
    /\ w' = [w EXCEPT ![g] = "queued"]
    /\ UNCHANGED <<parent, future, asked, unseen, permits, tries, responses, modelCalls>>

\* The ledger refuses it.
Refuse(g) ==
    /\ w[g] = "ready"
    /\ L!Refuse(<<route, g>>)
    /\ Ends(g, "stopped")
    /\ UNCHANGED <<parent, future, asked, permits, tries, responses, modelCalls>>

\* The request is over the backend's context limit, or has no price that a strict
\* budget could rely on: nothing has been reserved.
Unfit(g) ==
    /\ w[g] = "ready"
    /\ \E how \in {"failed", "stopped"} : Ends(g, how)
    /\ UNCHANGED <<parent, future, asked, permits, tries, responses, modelCalls, budget>>

\* The permit is there before the deadline and the provider is called.
Call(g) ==
    /\ w[g] = "queued" /\ permits > 0 /\ ~expired
    /\ w' = [w EXCEPT ![g] = "calling"]
    /\ permits' = permits - 1
    /\ modelCalls' = modelCalls + 1
    /\ tries' = [tries EXCEPT ![<<route, g>>] = 1]
    /\ UNCHANGED <<parent, future, asked, unseen, responses, budget>>

\* The permit comes too late: remaining_seconds raises.
CallTooLate(g) ==
    /\ w[g] = "queued" /\ permits > 0 /\ expired
    /\ Ends(g, "stopped")
    /\ L!SettleFailure(<<route, g>>, 0)
    /\ UNCHANGED <<parent, future, asked, permits, tries, responses, modelCalls>>

\* The attempt fails in a way the backend retries; it sleeps, permit in hand.
BackOff(g) ==
    /\ w[g] = "calling" /\ tries[<<route, g>>] < MaxAttempts
    /\ w' = [w EXCEPT ![g] = "backoff"]
    /\ UNCHANGED <<parent, future, asked, unseen, permits, tries, responses, modelCalls, budget>>

Retry(g) ==
    /\ w[g] = "backoff"
    /\ w' = [w EXCEPT ![g] = "calling"]
    /\ tries' = [tries EXCEPT ![<<route, g>>] = @ + 1]
    /\ UNCHANGED <<parent, future, asked, unseen, permits, responses, modelCalls, budget>>

\* An execution fails and n attempts are charged.
Fails(g, how, n) ==
    /\ Ends(g, how)
    /\ permits' = Released(g)
    /\ L!SettleFailure(<<route, g>>, n)
    /\ modelCalls' = Counted(n)
    /\ UNCHANGED <<parent, future, asked, tries, responses>>

\* The backend raises. Errors of the retry loop and of the parser report the
\* attempts; a 413 or 422 and a response with invalid accounting do not.
CallFails(g) ==
    /\ w[g] = "calling"
    /\ \E n \in {1, tries[<<route, g>>]} : Fails(g, "failed", n)

\* asyncio.timeout fires, in an attempt or between two.
Timeout(g) ==
    /\ w[g] \in Holding
    /\ Fails(g, "failed", Charged(g))

\* The cancellation reaches the execution. One that has not begun never runs.
Cancelled(g) ==
    /\ g \in asked
    /\ \/ /\ w[g] = "ready"
          /\ Ends(g, "cancelled")
          /\ UNCHANGED <<parent, future, asked, permits, tries, responses, modelCalls, budget>>
       \/ /\ w[g] \in {"queued"} \cup Holding
          /\ Fails(g, "cancelled", Charged(g))

\* A response: the ledger is reconciled, then the statistics are recorded and
\* the response validated. If reconcile raises, neither happens.
Respond(g) ==
    LET e == <<route, g>> IN
    /\ w[g] = "calling"
    /\ permits' = Released(g)
    /\ \E report \in Reports : L!Reconcile(e, tries[e], report)
    /\ IF phase'[e] = "overrun"
       THEN Ends(g, "stopped") /\ UNCHANGED <<modelCalls, responses>>
       ELSE /\ modelCalls' = Counted(tries[e])
            /\ \/ /\ Ends(g, "ok")
                  /\ \E c \in Checkpoint :
                        responses' = [responses EXCEPT ![g] = <<route, c>>]
               \/ Ends(g, "failed") /\ UNCHANGED responses
    /\ UNCHANGED <<parent, future, asked, tries>>

(***************************************************************************)
(* The request's own task: model_scores, the windows and the gather.        *)
(***************************************************************************)

\* Faulty: `except BaseException` where the router names the failures.
EligibleAny(how) == how # "stopped"

\* except (BackendError, CapabilityError, ContextLimitError) of the route loop.
Eligible(how) == how = "failed"

\* An exception leaves _model_scores_selected: next route, or out of the stage.
Raise(how) ==
    IF Eligible(how) /\ route < NRoutes
    THEN stage' = "preparing" /\ route' = route + 1 /\ UNCHANGED outcome
    ELSE stage' = "ended" /\ outcome' = how /\ UNCHANGED route

\* A gather of new tasks for the groups of the window after `first`.
Open(first) ==
    /\ base' = first
    /\ w' = [g \in Group |-> IF g \in WindowFrom(first) THEN "ready"
                             ELSE IF g <= first THEN w[g] ELSE "idle"]
    /\ asked' = {} /\ unseen' = <<>>
    /\ gather' = "open" /\ gatherAsked' = FALSE

\* prepare_stage is done and the capability checks pass: score every group.
Begin ==
    /\ stage = "preparing"
    /\ stage' = "running"
    /\ Open(0)
    /\ responses' = [g \in Group |-> None]
    /\ UNCHANGED <<route, interrupts, interrupted, outcome, permits, tries, modelCalls, budget>>

\* prepare_stage or a capability check raises.
PrepareFails ==
    /\ stage = "preparing"
    /\ Raise("failed")
    /\ UNCHANGED <<base, interrupts, interrupted, future, workers, budget>>

\* The gather's callback on the oldest ended task: the first exception decides.
Notice ==
    /\ stage = "running" /\ gather = "open" /\ unseen # <<>>
    /\ LET how == w[Head(unseen)]
           last == Undone = {} /\ Len(unseen) = 1
       IN  gather' = IF how = "ok" /\ ~last THEN "open"
                     ELSE IF how = "ok" /\ gatherAsked THEN "cancelled" ELSE how
    /\ unseen' = Tail(unseen)
    /\ UNCHANGED <<parent, gatherAsked, w, asked, permits, tries, responses, modelCalls, budget>>

\* _gather_owned's finally: cancel what has not ended ...
Drain ==
    /\ stage = "running" /\ gather \in Errors
    /\ stage' = "draining"
    /\ asked' = asked \cup Undone
    /\ UNCHANGED <<route, base, interrupts, interrupted, outcome, future,
                   w, unseen, permits, tries, responses, modelCalls, budget>>

\* Faulty: cancels the other tasks and does not wait for them.
DrainedAtOnce == TRUE

\* ... and wait for it.
Drained == Undone = {}

EndDrain ==
    /\ stage = "draining" /\ Drained
    /\ Raise(gather)
    /\ UNCHANGED <<base, interrupts, interrupted, future, workers, budget>>

NextWindow ==
    /\ stage = "running" /\ gather = "ok" /\ base + Window < NGroups
    /\ Open(base + Window)
    /\ UNCHANGED <<stage, route, interrupts, interrupted, outcome,
                   permits, tries, responses, modelCalls, budget>>

\* Faulty: takes the scores of any model.
AnyCheckpoint == TRUE

\* All responses name the same resolved model.
SameCheckpoint == \A g, h \in Group : responses[g][2] = responses[h][2]

\* Every group is scored.
Complete ==
    /\ stage = "running" /\ gather = "ok" /\ base + Window >= NGroups
    /\ IF SameCheckpoint
       THEN stage' = "ended" /\ outcome' = "ok" /\ UNCHANGED route
       ELSE Raise("failed")
    /\ UNCHANGED <<base, interrupts, interrupted, future, workers, budget>>

(***************************************************************************)
(* task.cancel() on the request's task: the latency budget's timeout_at,    *)
(* Reranker.aclose, or the caller.                                          *)
(***************************************************************************)

\* A group has failed and the gather's callback has not run yet.
FailureUnseen ==
    /\ stage = "running" /\ gather = "open"
    /\ \E i \in DOMAIN unseen : w[unseen[i]] \in Failures

Interrupted ==
    /\ stage # "ended" /\ interrupts < MaxInterrupts
    /\ interrupts' = interrupts + 1
    /\ interrupted' = IF FailureUnseen /\ interrupted # "plain" THEN "raced" ELSE "plain"

InterruptPreparing ==
    /\ stage = "preparing" /\ Interrupted
    /\ Raise("cancelled")
    /\ UNCHANGED <<base, future, workers, budget>>

\* The gather passes the cancellation on to its tasks. It raises CancelledError
\* itself when one of them does, or when all return.
InterruptGather ==
    /\ stage = "running" /\ gather = "open" /\ Undone # {} /\ Interrupted
    /\ asked' = asked \cup Undone
    /\ gatherAsked' = TRUE
    /\ UNCHANGED <<stage, route, base, outcome, gather, w, unseen, permits, tries,
                   responses, modelCalls, budget>>

\* Nothing is left to pass it on to, or the drain is under way: CancelledError
\* replaces whatever the gather has or would have raised.
InterruptResolved ==
    /\ \/ stage = "running" /\ (gather # "open" \/ Undone = {})
       \/ stage = "draining"
    /\ Interrupted
    /\ gather' = "cancelled"
    /\ UNCHANGED <<stage, route, base, outcome, gatherAsked, workers, budget>>

\* The clock passes the ledger's deadline.
Expire ==
    /\ stage # "ended"
    /\ L!Expire
    /\ UNCHANGED <<parent, future, workers>>

GroupStep(g) ==
    \/ Admit(g) \/ Refuse(g) \/ Unfit(g)
    \/ Call(g) \/ CallTooLate(g)
    \/ BackOff(g) \/ Retry(g)
    \/ CallFails(g) \/ Timeout(g) \/ Cancelled(g) \/ Respond(g)

StageStep ==
    \/ Begin \/ PrepareFails
    \/ Notice \/ Drain \/ EndDrain \/ NextWindow \/ Complete

Interrupt == InterruptPreparing \/ InterruptGather \/ InterruptResolved

Next == (\E g \in Group : GroupStep(g)) \/ StageStep \/ Interrupt \/ Expire

Spec == Init /\ [][Next]_vars

\* The event loop runs every ready task; timeout_s is finite, so a call that is
\* made ends, and a sleep ends.
Fairness == WF_vars(StageStep) /\ \A g \in Group : WF_vars(GroupStep(g))

FairSpec == Spec /\ Fairness

(***************************************************************************)
(* Properties.                                                              *)
(***************************************************************************)

\* _gather_owned: "finish or cancel every child before its caller can leave the
\* request". When a route is left, by whatever way, none of its tasks runs, every
\* permit is back, and the ledger holds no reservation of it.
NothingLeftBehind ==
    /\ TypeOK
    /\ stage \in {"preparing", "ended"} =>
        /\ Undone = {} /\ permits = MaxConcurrency
        /\ \A e \in Exec : phase[e] # "reserved"

\* An execution that has called the provider is charged at least once, over all the
\* groups and routes and at any time: no way out of it gives the whole reservation
\* back. Whoever got a response is charged every attempt it took, and when a route is
\* left the ledger counts no call that was not made.
CalledIsCharged ==
    /\ Cardinality({e \in Exec : tries[e] > 0}) <= ledger.calls
    /\ \A g \in Group : responses[g] # None =>
          LET e == <<responses[g][1], g>> IN booked[e].calls = tries[e]
    /\ stage \in {"preparing", "ended"} =>
          ledger.calls <= MapThenSumSet(LAMBDA e : tries[e], Exec)

\* A stage's scores come from one backend and one model, whatever part of the
\* groups an abandoned route had scored.
OneModelScores ==
    outcome = "ok" => \E c \in Checkpoint : \A g \in Group : responses[g] = <<route, c>>

\* Between two routes and at the end, statistics.model_calls and the ledger agree
\* on the number of calls, though each is kept by code of its own. The exception is
\* a response that overran the budget: reconcile has booked it and then raised, and
\* _record_response is not reached.
StatsMatchLedger ==
    stage \in {"preparing", "ended"} /\ (\A e \in Exec : phase[e] # "overrun")
        => modelCalls = ledger.calls

\* The books of a stage agree with what it did, at any time and between its routes.
CallsAccounted == CalledIsCharged /\ StatsMatchLedger

\* A request that was cancelled returns no scores, however late the cancellation
\* came, unless a group had failed before it and the gather had yet to notice.
PlainInterruptStops == interrupted = "plain" => outcome # "ok"

\* The stage ends: no order of failures, refusals and cancellations leaves it
\* waiting for a permit or for a task.
StageEnds == <>(stage = "ended")
=============================================================================

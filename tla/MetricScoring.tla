--------------------------- MODULE MetricScoring ---------------------------
(***************************************************************************)
(* ExecutionServices.metric_scores of several requests of one Reranker:     *)
(* each goes through its metrics in order, a metric that scores candidates  *)
(* one by one in windows of tasks. The requests share the cache and the     *)
(* semaphore, and nothing else: two tasks that need the same score may both *)
(* compute it.                                                              *)
(*                                                                          *)
(* A metric is "each" (a task per candidate), "batch" (one score_many under *)
(* the semaphore) or "model" (ModelRelevance: model_scores, which is        *)
(* ModelStage; here it answers for some candidates or raises). A score is   *)
(* what it was computed about; whether a value lies in [0, 1] is a choice   *)
(* between success and failure. A cache method may suspend, as the protocol *)
(* allows; MemoryCache does not.                                            *)
(***************************************************************************)
EXTENDS MemoryCache, Functions

CONSTANTS
    Request,         \* the requests
    N,               \* candidates of each
    ContentOf,       \* candidate -> what its text, metadata and extension identity come to
    TenantOf,        \* request -> tenant and authorization revision
    Query,           \* request -> query
    Metrics,         \* the choices of request -> sequence of its metrics
    MaxConcurrency,
    MaxTime,         \* bound on the clock
    MaxInterrupts    \* bound on the cancellations, of all requests together

Candidate == 1..N
MetricDef == [kind : {"each", "batch", "model"}, cacheable : BOOLEAN, active : BOOLEAN,
              thread : BOOLEAN]

ASSUME ScoringSizes ==
    /\ N \in Nat \ {0} /\ MaxConcurrency \in Nat \ {0} /\ MaxTime \in Nat /\ MaxInterrupts \in Nat
    /\ DOMAIN ContentOf = Candidate /\ DOMAIN TenantOf = Request /\ DOMAIN Query = Request
    /\ IsFiniteSet(Request)
    \* WeightedMetrics: some weight is positive.
    /\ \A m \in Metrics : /\ m \in [Request -> Seq(MetricDef)]
                          /\ \A r \in Request : \E i \in DOMAIN m[r] : m[r][i].active

VARIABLES
    metrics,   \* request -> its metrics
    stage,     \* request -> where metric_scores is
    pos,       \* request -> the metric it is at
    first,     \* request -> the first candidate of the window
    task,      \* request -> candidate -> state of its evaluate task
    got,       \* request -> candidate -> what its task returned, None before
    score,     \* request -> candidate -> scores of the metrics passed, in order
    free,      \* permits of the semaphore
    thread,    \* callbacks that run in threads: <<request, candidate, metric>>
    items,     \* the cache
    now,       \* the clock
    asked,     \* cancellations so far
    recent     \* history: key -> keys used since its last use, None if not stored

cache == <<items, recent>>
vars == <<metrics, stage, pos, first, task, got, score, free, thread, items, now, asked, recent>>

Ended == {"scored", "failed", "cancelled"}
Unfinished == {"ready", "waiting", "scoring", "storing"}
Task == Unfinished \cup {"none", "done", "failed", "cancelled"}

Window == 2 * MaxConcurrency
InWindow(r) == first[r]..Min({first[r] + Window - 1, N})
Metric(r) == metrics[r][pos[r]]

\* What a score may depend on.
About(r, c, i) == <<TenantOf[r], Query[r], ContentOf[c], i>>

\* Faulty: the tenant is left out of the key.
KeyOfAnyTenant(r, c) ==
    [namespace |-> <<"default">>, tenant |-> CHOOSE t \in Range(TenantOf) : TRUE,
     query |-> Query[r], content |-> ContentOf[c], metric |-> pos[r]]

\* The cache key of evaluate. The position stands for the metric's cache identity: the
\* cacheable metrics of two requests are the same metric where they are at the same one.
Key(r, c) ==
    [namespace |-> <<"default">>, tenant |-> TenantOf[r], query |-> Query[r],
     content |-> ContentOf[c], metric |-> pos[r]]
CachedAt == UNION {{i \in DOMAIN m[r] : m[r][i].cacheable} : m \in Metrics, r \in Request}
Keys == [namespace : {<<"default">>}, tenant : Range(TenantOf), query : Range(Query),
         content : Range(ContentOf), metric : CachedAt]

TypeOK ==
    /\ metrics \in Metrics
    /\ stage \in [Request -> Ended \cup {"between", "window", "draining", "failing",
                                         "queued", "batch", "model"}]
    /\ task \in [Request -> [Candidate -> Task]]
    /\ free \in 0..MaxConcurrency
    /\ now \in 0..MaxTime
    /\ thread \subseteq Request \X Candidate \X Nat

-----------------------------------------------------------------------------
(* The cache and the history of its use.                                     *)

Use(k) == [j \in Keys |-> IF j = k THEN {} ELSE IF recent[j] = None THEN None ELSE recent[j] \cup {k}]
Lose(gone) == [j \in Keys |-> IF j \in gone THEN None ELSE recent[j]]

LookUp(k) ==
    /\ items' = AfterGet(items, k, now)
    /\ recent' = IF Live(items, k, now) THEN Use(k) ELSE Lose({k})

Store(k, value) ==
    /\ items' = AfterSet(items, k, value, now)
    /\ recent' = Use(k)

-----------------------------------------------------------------------------
Nobody == [c \in Candidate |-> None]

Init ==
    /\ metrics \in Metrics
    /\ stage = [r \in Request |-> "between"]
    /\ pos = [r \in Request |-> 1]
    /\ first = [r \in Request |-> 1]
    /\ task = [r \in Request |-> [c \in Candidate |-> "none"]]
    /\ got = [r \in Request |-> Nobody]
    /\ score = [r \in Request |-> [c \in Candidate |-> <<>>]]
    /\ free = MaxConcurrency
    /\ thread = {}
    /\ items = <<>>
    /\ now = 0
    /\ asked = 0
    /\ recent = [k \in Keys |-> None]

Go(r, where) == stage' = [stage EXCEPT ![r] = where]
Become(r, c, state) == task' = [task EXCEPT ![r][c] = state]

\* The next metric of the loop, after `taken` has been recorded for this one.
Advance(r, taken) ==
    /\ score' = [score EXCEPT ![r] = [c \in Candidate |-> Append(@[c], taken[c])]]
    /\ pos' = [pos EXCEPT ![r] = @ + 1]
    /\ got' = [got EXCEPT ![r] = Nobody]
    /\ Go(r, "between")

\* A metric of weight zero is passed over.
Skip(r) ==
    /\ stage[r] = "between" /\ pos[r] <= Len(metrics[r]) /\ ~Metric(r).active
    /\ Advance(r, Nobody)
    /\ UNCHANGED <<metrics, first, task, free, thread, now, asked, cache>>

OpenWindow(r, from) ==
    /\ first' = [first EXCEPT ![r] = from]
    /\ task' = [task EXCEPT ![r] = [c \in Candidate |->
                   IF c \in from..Min({from + Window - 1, N}) THEN "ready" ELSE "none"]]

BeginMetric(r) ==
    /\ stage[r] = "between" /\ pos[r] <= Len(metrics[r]) /\ Metric(r).active
    /\ \/ Metric(r).kind = "each" /\ Go(r, "window") /\ OpenWindow(r, 1)
       \/ Metric(r).kind = "batch" /\ Go(r, "queued") /\ UNCHANGED <<first, task>>
       \/ Metric(r).kind = "model" /\ Go(r, "model") /\ UNCHANGED <<first, task>>
    /\ UNCHANGED <<metrics, pos, got, score, free, thread, now, asked, cache>>

\* WeightedMetrics.combine: every metric of positive weight must have scored.
Combine(r) ==
    /\ stage[r] = "between" /\ pos[r] > Len(metrics[r])
    /\ Go(r, IF \A c \in Candidate : \A i \in DOMAIN metrics[r] :
                   metrics[r][i].active => score[r][c][i] # None
             THEN "scored" ELSE "failed")
    /\ UNCHANGED <<metrics, pos, first, task, got, score, free, thread, now, asked, cache>>

-----------------------------------------------------------------------------
(* Model and batch metrics.                                                  *)

Fresh(r, c) == [about |-> About(r, c, pos[r]), late |-> FALSE]

AllScored(r, where) ==
    /\ stage[r] = where
    /\ Advance(r, [c \in Candidate |-> Fresh(r, c)])
    /\ UNCHANGED <<metrics, first, task, thread, now, asked, cache>>

\* It raises, or its ids are not those of the candidates.
NotAllScored(r, where) ==
    /\ stage[r] = where
    /\ Go(r, "failed")
    /\ UNCHANGED <<metrics, pos, first, task, got, score, thread, now, asked, cache>>

ModelScored(r) == AllScored(r, "model") /\ UNCHANGED free
ModelFailed(r) == NotAllScored(r, "model") /\ UNCHANGED free

EnterBatch(r) ==
    /\ stage[r] = "queued" /\ free > 0
    /\ free' = free - 1 /\ Go(r, "batch")
    /\ UNCHANGED <<metrics, pos, first, task, got, score, thread, now, asked, cache>>

BatchScored(r) == AllScored(r, "batch") /\ free' = free + 1
BatchFailed(r) == NotAllScored(r, "batch") /\ free' = free + 1

-----------------------------------------------------------------------------
(* One evaluate task. It runs while its request waits for the window, and    *)
(* after the request has seen a failure or a cancellation it only stops.     *)

Runs(r, c, state) == stage[r] = "window" /\ c \in InWindow(r) /\ task[r][c] = state

\* A cacheable metric names no identity for the candidate, or no key can be made.
KeyFails(r, c) ==
    /\ Runs(r, c, "ready")
    /\ Become(r, c, "failed")
    /\ UNCHANGED <<metrics, stage, pos, first, got, score, free, thread, now, asked, cache>>

\* A metric without a cache goes straight to the semaphore. A cached value is
\* what a hit returns, without the semaphore.
Lookup(r, c) ==
    /\ Runs(r, c, "ready")
    /\ \/ /\ ~Metric(r).cacheable
          /\ Become(r, c, "waiting")
          /\ UNCHANGED <<got, cache>>
       \/ /\ Metric(r).cacheable
          /\ LookUp(Key(r, c))
          /\ IF Live(items, Key(r, c), now)
             THEN LET value == EntryOf(items, Key(r, c)).value
                  IN  /\ Become(r, c, "done")
                      /\ got' = [got EXCEPT ![r][c] =
                             [about |-> value.about,
                              late |-> Ttl # None /\ now >= value.at + Ttl]]
             ELSE Become(r, c, "waiting") /\ UNCHANGED got
    /\ UNCHANGED <<metrics, stage, pos, first, score, free, thread, now, asked>>

\* A synchronous callback runs in a thread of its own.
Acquire(r, c) ==
    /\ Runs(r, c, "waiting") /\ free > 0
    /\ free' = free - 1
    /\ Become(r, c, "scoring")
    /\ thread' = IF Metric(r).thread THEN thread \cup {<<r, c, pos[r]>>} ELSE thread
    /\ UNCHANGED <<metrics, stage, pos, first, got, score, now, asked, cache>>

ScoreReturns(r, c) ==
    /\ Runs(r, c, "scoring")
    /\ free' = free + 1
    /\ thread' = thread \ {<<r, c, pos[r]>>}
    /\ got' = [got EXCEPT ![r][c] = Fresh(r, c)]
    /\ Become(r, c, IF Metric(r).cacheable THEN "storing" ELSE "done")
    /\ UNCHANGED <<metrics, stage, pos, first, score, now, asked, cache>>

\* The metric raises, or its value is no utility.
ScoreRaises(r, c) ==
    /\ Runs(r, c, "scoring")
    /\ free' = free + 1
    /\ thread' = thread \ {<<r, c, pos[r]>>}
    /\ Become(r, c, "failed")
    /\ UNCHANGED <<metrics, stage, pos, first, got, score, now, asked, cache>>

StoreScore(r, c) ==
    /\ Runs(r, c, "storing")
    /\ Store(Key(r, c), [about |-> got[r][c].about, at |-> now])
    /\ Become(r, c, "done")
    /\ UNCHANGED <<metrics, stage, pos, first, got, score, free, thread, now, asked>>

\* Faulty: the permit is given back only by a score that returns or raises.
CancelKeepsPermit(r, c) ==
    /\ stage[r] \in {"failing", "draining"} /\ task[r][c] \in Unfinished
    /\ Become(r, c, "cancelled")
    /\ UNCHANGED <<metrics, stage, pos, first, got, score, free, thread, now, asked, cache>>

\* The cancellation reaches the task. The thread of its callback goes on.
CancelTask(r, c) ==
    /\ stage[r] \in {"failing", "draining"} /\ task[r][c] \in Unfinished
    /\ free' = IF task[r][c] = "scoring" THEN free + 1 ELSE free
    /\ Become(r, c, "cancelled")
    /\ UNCHANGED <<metrics, stage, pos, first, got, score, thread, now, asked, cache>>

\* A callback that nobody waits for returns.
ThreadEnds(x) ==
    /\ x \in thread /\ task[x[1]][x[2]] # "scoring"
    /\ thread' = thread \ {x}
    /\ UNCHANGED <<metrics, stage, pos, first, task, got, score, free, now, asked, cache>>

-----------------------------------------------------------------------------
(* The request that owns the window: _gather_owned.                          *)

WindowDone(r) ==
    /\ stage[r] = "window" /\ \A c \in InWindow(r) : task[r][c] = "done"
    /\ IF first[r] + Window <= N
       THEN OpenWindow(r, first[r] + Window) /\ UNCHANGED <<stage, pos, got, score>>
       ELSE Advance(r, got[r]) /\ UNCHANGED <<first, task>>
    /\ UNCHANGED <<metrics, free, thread, now, asked, cache>>

\* gather raises the first failure; the other tasks are then cancelled.
Notice(r) ==
    /\ stage[r] = "window" /\ \E c \in InWindow(r) : task[r][c] = "failed"
    /\ Go(r, "failing")
    /\ UNCHANGED <<metrics, pos, first, task, got, score, free, thread, now, asked, cache>>

Interrupt(r) ==
    /\ asked < MaxInterrupts
    /\ asked' = asked + 1
    /\ \/ stage[r] \in {"window", "failing", "draining"} /\ Go(r, "draining") /\ UNCHANGED free
       \/ stage[r] \in {"queued", "model"} /\ Go(r, "cancelled") /\ UNCHANGED free
       \/ stage[r] = "batch" /\ Go(r, "cancelled") /\ free' = free + 1
    /\ UNCHANGED <<metrics, pos, first, task, got, score, thread, now, cache>>

\* Faulty: the request does not wait for the tasks it has cancelled.
LeaveAtOnce(r) ==
    /\ stage[r] \in {"failing", "draining"}
    /\ Go(r, IF stage[r] = "failing" THEN "failed" ELSE "cancelled")
    /\ UNCHANGED <<metrics, pos, first, task, got, score, free, thread, now, asked, cache>>

Drained(r) ==
    /\ stage[r] \in {"failing", "draining"} /\ \A c \in Candidate : task[r][c] \notin Unfinished
    /\ Go(r, IF stage[r] = "failing" THEN "failed" ELSE "cancelled")
    /\ got' = [got EXCEPT ![r] = Nobody]
    /\ UNCHANGED <<metrics, pos, first, task, score, free, thread, now, asked, cache>>

-----------------------------------------------------------------------------
(* The clock, and the owner of the cache.                                    *)

Tick ==
    /\ now < MaxTime
    /\ now' = now + 1
    /\ UNCHANGED <<metrics, stage, pos, first, task, got, score, free, thread, asked, cache>>

Clear(namespace) ==
    /\ items' = AfterClear(items, namespace)
    /\ recent' = Lose(KeysOf(items) \ KeysOf(items'))
    /\ UNCHANGED <<metrics, stage, pos, first, task, got, score, free, thread, now, asked>>

RequestStep(r) ==
    \/ Skip(r) \/ BeginMetric(r) \/ Combine(r)
    \/ ModelScored(r) \/ ModelFailed(r) \/ EnterBatch(r) \/ BatchScored(r) \/ BatchFailed(r)
    \/ WindowDone(r) \/ Notice(r) \/ Drained(r)

TaskStep(r, c) ==
    \/ KeyFails(r, c) \/ Lookup(r, c) \/ Acquire(r, c)
    \/ ScoreReturns(r, c) \/ ScoreRaises(r, c) \/ StoreScore(r, c) \/ CancelTask(r, c)

Next ==
    \/ \E r \in Request : RequestStep(r) \/ Interrupt(r)
    \/ \E r \in Request, c \in Candidate : TaskStep(r, c)
    \/ \E x \in thread : ThreadEnds(x)
    \/ Tick
    \/ \E namespace \in {None, <<"default">>} : Clear(namespace)

\* The loop runs what is ready, and a metric returns or raises in the end.
Fairness ==
    /\ \A r \in Request : WF_vars(RequestStep(r))
    /\ \A r \in Request, c \in Candidate : WF_vars(TaskStep(r, c))

Spec == Init /\ [][Next]_vars /\ Fairness

-----------------------------------------------------------------------------
(* A request that is scored has, for every candidate and every metric with a *)
(* weight, a score computed for its own tenant, query and content by that    *)
(* metric, and none was served from the cache at or after its expiry, however*)
(* the windows of the requests and the clock interleaved.                    *)
OwnFreshScores ==
    \A r \in Request : stage[r] = "scored" =>
        \A c \in Candidate : \A i \in DOMAIN metrics[r] :
            IF metrics[r][i].active
            THEN score[r][c][i] = [about |-> About(r, c, i), late |-> FALSE]
            ELSE score[r][c][i] = None

(* The cache holds no more than MaxEntries entries, each key once, and gives *)
(* up a key that has neither expired nor been cleared only after that many   *)
(* other keys have been used since its own last use.                         *)
RecentlyUsedKept ==
    /\ Len(items) <= MaxEntries /\ Cardinality(KeysOf(items)) = Len(items)
    /\ \A k \in Keys : recent[k] # None /\ k \notin KeysOf(items)
                          => Cardinality(recent[k]) >= MaxEntries

(* Whoever leaves metric_scores leaves no task of its own behind, and every  *)
(* permit not in use is back, also when tasks failed or were cancelled while *)
(* they held one. Only a callback in a thread may outlive its task, and only *)
(* after a failure or a cancellation: then the callbacks running may exceed  *)
(* max_concurrency.                                                          *)
NothingLeftRunning ==
    /\ TypeOK
    /\ \A r \in Request : stage[r] \in Ended =>
           \A c \in Candidate : task[r][c] \notin Unfinished
    /\ free + Cardinality({x \in Request \X Candidate : task[x[1]][x[2]] = "scoring"})
            + Cardinality({r \in Request : stage[r] = "batch"}) = MaxConcurrency
    /\ \A x \in thread : \/ task[x[1]][x[2]] = "scoring"
                         \/ stage[x[1]] \in {"failing", "draining", "failed", "cancelled"}

(* Every request is scored, fails or is cancelled in the end: no task waits  *)
(* for a permit forever, whoever was cancelled meanwhile.                    *)
ScoringEnds == \A r \in Request : <>(stage[r] \in Ended)
=============================================================================

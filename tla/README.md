# TLA+ models and proofs for TypedRank

TypedRank (`src/src/typedrank/`) ranks candidates for a query: a facade
(`Reranker`) prepares the candidates, picks a strategy, runs it against metrics
or model backends under one budget, falls back where it is configured to, and
assembles the response. Everything runs in one asyncio event loop; local
inference and embeddings run in threads behind it. What is hard to get right and
hard to test is in the seams: identical calls that share one task, groups of
candidates that share a budget and a semaphore, failures and cancellations that
arrive between two awaits, and resources that outlive the coroutine that used
them. These are what the modules here are about.

File names below are relative to `src/src/typedrank/`.

## Inventory

| Component | State it keeps | Operations | Interacts through |
|---|---|---|---|
| Budget ledger (`_runtime/executor.py` `BudgetLedger`) | calls, reserved tokens, cost, deadline, lock | `reserve`, `reconcile`, `settle_failure`, `remaining_seconds` | every model execution of a request, over all routes and strategy fallbacks |
| Single flight (`ExecutionServices._call_model`) | table key -> (task, waiters), lock | join, wait at a shield, leave, cancel the task as last waiter, validate, store | cache, `_execute_model` |
| Model stage (`model_scores`, `_model_scores_selected`, `_gather_owned`, `_execute_model`, `_run_model_request`) | selected backend, checkpoint, statistics, windows of tasks, semaphore permits | prepare, score in windows, drain, fall back to the next route | router, ledger, semaphore, backends |
| Metric scoring (`metric_scores`) | scores per candidate | batch and per-candidate metrics, windows, metric cache | semaphore, cache, model stage |
| Facade (`api.py`) | closed flag, bound loop, active tasks, shared semaphore, dispatcher, owned backend | `rerank`, `aclose`, `rerank_sync`, scope entry and exit | all of the above |
| Strategy fallback (`api.py` `_fallback`) | – | tries the configured policies in order | strategies, pipeline checkpoint |
| Pipeline (`pipeline.py`) | current candidates, outcome and executed stages of a run | stages in sequence, checkpoint on failure | execution services |
| Router (`backends/router.py`) | two backends, policy, measurements | `routes`, `aclose` | model stage |
| Jev / Laya HTTP (`backends/jev.py`, `backends/laya.py`, `backends/systemone.py`) | transport | `score` with retries and back-off, parse, `aclose` | network |
| Laya local (`backends/laya.py`) | thread pool, slot semaphore, router, closed flag, close task | `prepare_stage`, `score`, `aclose` | threads |
| Embeddings (`backends/sentence_transformers.py`) | tracked jobs, lock, model, close task | `embed*`, `aclose` | threads |
| Observer (`observability.py`) | bounded queue, worker task, dropped and error counters | `emit`, worker loop, `aclose` | facade, model stage, user callback |
| Cache (`cache.py`) | ordered entries with expiry | `get`, `set`, `delete`, `clear` | single flight, metric scoring |
| Automatic plan (`auto.py`) | – | `decide`, `rank` | router, strategies |
| Candidates (`candidates.py`) | – | eligibility, identity, truncation | facade |
| Selection (`selection/`) | similarities and selection of a run | `mmr_select`, `reciprocal_rank_fusion` | pipeline, user strategies |
| Evaluation (`evaluation/`) | – | `evaluate`, ranking metrics | facade |

What is hard in them: cancellation of one caller, of a group, of the request and
of the whole reranker, at every await; the order in which the failures of a
window are noticed; settlement of a reservation on every path out of an
execution; retries under an outer timeout; threads that cannot be cancelled;
closing while calls are in flight. `PROJECT.json` lists each such hazard at its
line with the properties that cover it.

What makes each component correct:

- ledger: limits hold under every interleaving; totals are exactly the sum of what
  executions hold and have used; an overrun is always reported;
- single flight: one task per key, alive as long as somebody waits for it and no
  longer; responses only to those who can use them; nothing half stored;
- model stage: nothing survives the stage that started it; scores of one model
  only; ledger and statistics cover every call; a cancelled request stops; it ends;
- facade: a closed reranker has drained what it started; budget and coverage in the
  response agree with what ran;
- pipeline and fallback: what a failed stage leaves behind is the last good ranking;
- workers: a slot belongs to the thread that runs, not to the coroutine that waits;
  close waits for running work and refuses new work;
- observer: each event is delivered or counted as dropped, once;
- cache: at most `max_entries`, least recently used goes first, nothing expired is
  returned;
- metric scoring: a score belongs to its own request, tenant and content, and nothing
  of a request runs on after it;
- HTTP backends: the requests sent are told to the ledger, a rate limit is respected,
  a transport that was made is closed;
- router and automatic plan: what is planned can be carried out within the limits and
  without the network where it is denied;
- selection, fusion, evaluation: the incremental, cut or fused order is the one the
  definition over all candidates gives.

## Modules

### BudgetLedger

`ledger` holds the three totals, `expired` whether the clock has passed the
deadline, `phase`, `estimate` the standing and the per-attempt estimate of each
execution (one call of `_execute_model`), `booked` a history of what each
contributes. `Reserve`/`Refuse` are `reserve` with the pricing before it,
`Reconcile` the tail of `_execute_model` after a response, `SettleFailure` its
`except` block. The ledger methods hold a lock and await nothing under it, so each
is one step. `reconcile` updates before it checks, and so does the model: an
execution that raises there is in phase `overrun` and its usage stays booked. Costs
are integers; `Decimal` arithmetic is exact for them. `Expire` is the clock.

### SingleFlight and SharedWork

`SingleFlight` is `_call_model`. A caller's `pc` is the await it is at (`lookup`,
`purging`, `waiting` at the shield, `leaving` in the `finally` block, `storing`);
`asked` holds callers with a pending cancellation. `inflight` is the table. A task is
named by the caller that created it. Sections under `_inflight_lock` await nothing,
and a step of the model is what the code does between two awaits. `Cancel` may
strike any caller at any time, `Evict` any cache entry. Two callers have the same
`ContentOf` when `_model_key` gives them the same key, and share a task when
`InflightKey` agrees, which adds `allow_partial` and the occurrence ids.

`SharedWork` is the promise, without table, counts, tasks or cache: callers that want
the same thing share one piece of work, which exists exactly while somebody wants
it. `SingleFlight` implements it (`SharedSpec`): members are the callers at the
shield, the work is the task the table lists.

### ModelStage

One call of `model_scores` with a router. `stage` is where it is (`preparing` =
`prepare_stage` and the capability checks, `running` = awaiting the gather of a
window, `draining` = the `finally` of `_gather_owned`), `w[g]` is the task of a
group: `ready`, `queued` (reserved, waiting for a permit), `calling`, `backoff`
(asleep between two attempts with the permit in hand), or how it ended. It
instantiates `BudgetLedger` as `L` with an execution for each route and group, and
every step that touches the ledger conjoins the ledger's own action, so the two
modules cannot differ on it. Errors fall into three kinds, which is what the code
tells apart: `failed` is caught by the route loop, `stopped` (budget
and deadline) and `cancelled` are not.

`asyncio.gather` matters here and is modelled as CPython does it: a child's done
callback runs in a later turn of the loop (`unseen`, `Notice`); the first exception
noticed resolves the gather; `cancel()` of the gathering future cancels the children
that are not done and takes effect only through them or when all have returned
(`gatherAsked`); when there is no such child the waiting task itself gets the
`CancelledError`. `Interrupt*` is `task.cancel()` on the request, from the latency
scope, from `aclose` or from the caller. Listwise scoring is the case of one group.
A group's cache lookup and single flight are the other module's; here each group is
an execution of its own. `prepare_stage` may be interrupted or fail; a backend
without it has the same steps without the pause.

`tries` counts the requests really sent, `responses` who scored each group,
`interrupted` whether a cancellation came (`raced` when a group had failed and the
gather had not noticed). These are histories; no step reads them except `tries`,
which is the retry loop's own counter.

### LayaWorker, EmbedWorker and DrainedShutdown

`DrainedShutdown` is what a backend with a model in threads promises: work begins only
while it is open; the model is dropped once, when the last work has ended, and is
never loaded again. Both local backends implement it (`DrainSpec`).

`LayaWorker` is `_worker`, `_get_router`, `aclose` and `_finish_close` of
`LayaBackend`. A call is `waiting` for the semaphore, `running` at the first shield or
`held` at the second; `thread` is what the pool does with its function, which goes on
whatever becomes of the call. `Desert` is the second cancellation. The semaphore, the
executor and the shield are modelled from how `_worker` uses them. The threads are as
many as the slots, and `_router_lock` makes the lazy load one step. `aclose` runs as a
task that its callers cannot cancel; `router.unload` may raise, and then every call of
`aclose` fails.

`EmbedWorker` is `_embed`, `_run_embed`, `_encode` and the close of
`SentenceTransformerBackend`: `job` is the task behind a call, which nothing in the
library cancels, `lock` who holds the asyncio lock, `awaited` the jobs the close task
found when it ran.

### RerankerLifecycle and Observer

`Observer` is `ObserverDispatcher`: `queue` counts the events waiting, `worker` is the
task (`busy` while the user's observer has an event), `dropped` and `errors` are the
code's counters, `delivered` and `emitted` histories. When the wait of `aclose` times
out (`GiveUp`) the events in the queue are counted and stay in it, and the one in hand
is neither delivered nor counted.

`RerankerLifecycle` extends it and shares its variables. A task is `inside` the user
code and the library code of a rerank or `calling` the backend, `depth` counts the
reranks it is in (a strategy may rank with the same Reranker), `active` is
`_active_tasks`, a set: the end of a nested rerank, or its refusal, takes the task out
although the outer one goes on, and `missed` remembers the tasks `aclose` did not find
for that reason. `Survive` is the lost cancellation of `ModelStage` seen from outside. `aclose` goes through `draining`,
`observer`, `stopping` and `backend`; `CancelClose` and `AbortClose` say what becomes
of it when it is cancelled in each. The backend is one the Reranker owns (it was
given as a string), the observer is configured, and `aclose` is called by other tasks
than those that rerank. A Reranker with a borrowed backend is the same without
`CloseBackend`.

### Ranking

One request from the end of `prepare_candidates` on: `RunStage`, `StageFails` and
`RefusePruning` are the loop of `RerankPipeline.rank` (a plan that is not `piped` is one
strategy), the `Fallback*` actions and `ChainExhausted` are `Reranker._fallback`, one
for each thing a policy can come to, `Refuse` and `Assemble` the rest of `_rerank_impl`.
`outcome` is the `RankingOutcome` at hand with the stages executed so far; the pipeline's
`current` is derived from it. `checkpoint` is what a `PipelineStageError` carries, and
`None` when the primary error is another. Candidates are a set: scores, and so the order
and what a cut or a threshold keeps, are any. A model scoring is `ModelStage` from
outside: after `r - 1` routes have failed route `r` scores, or the stage fails there.
`Charge` is what that does to the request's statistics. `Shown` deals the recorded routes
out to the stages of the plan as the code does; `by` and `omitted` of a stage are
histories of what really happened. A request has one task, so nothing interleaves; the
latency scope around it is not in the module.

A stage that lets the model omit candidates is one of the user's around
`ListwiseStrategy(allow_partial=True)`: `ModelReranker` never asks for partial scores.

### MetricScoring and MemoryCache

`MemoryCache` gives the methods of `MemoryCache` as operators on its ordered
dictionary, least recently used first. `MetricScoring` is `metric_scores` of several
requests that share this cache and the semaphore: a metric is scored candidate by
candidate in windows of tasks (`task`, `Lookup`, `Acquire`, `ScoreReturns`,
`StoreScore`), in one batch call, or by the model. A score is what it was computed
about (tenant, query, content, metric), so that one taken from the wrong entry shows.
`thread` holds the synchronous callbacks, which go on when their task is cancelled;
`recent` is a history of the use of each key, against which the eviction order is
checked.

### HttpBackend

`JevBackend.score`, its subclass for Laya over HTTP and `aclose`. A call is `posting` or
`sleeping` on the transport it took when it began; `current` is `self.transport`, made
by the first call that finds none. The service may answer anything: each class of
status, a timeout, a 429 with any `Retry-After`, an answer with any ids and usage. A post
that a closing client interrupts may still come to any of these; one made on a client whose
close has begun is `turned_away` and was not sent. Histories count the posts, whether an
earlier one may have been served, and what is left of the time the service asked to wait.

### Routing and AutoPlan

`Routing` is `BackendRouter.routes` over two backends, whose capabilities are a record
and whose availability is an argument. `AutoPlan` is `AutoStrategy.decide`
(`AutoDecision`, `PlanFor` and the plans they choose from, with the estimates of calls,
tokens and context), followed by the start of the model stage the plan leads to: the
routes are asked again, the pipeline has left any shortlist of the planned length, and
the stage forms its groups (`GroupsOf`). What it then asks of each is an operator: its
context must fit the backend (`Fits`), and tokens are reserved for it, by the estimate or
by the bound the backend itself gives (`Reserved`). In between a backend may come or go
(`Turn`). A candidate is the size of its text. A request to Laya holds the texts of all its
candidates and a question about each; its context is measured with one question at a time,
so it grows with every text of the group (`Context`).

### Selection and Evaluation

`Selection` has the pure parts as operators: truncation, sorting by score,
reciprocal rank fusion, one step of MMR, and the greedy order by definition.
`Evaluation` runs a request through them: `Prepare`, `Rank` or `Fuse`, `Select` one
candidate at a time (the similarity function may be awaited), `Assemble`, and around it
the case of `evaluate`: `BeginCase` or `RefuseCase` before, `Measure` or `RejectCase`
after. A fused score is a sum of floats, taken in the order of the lists: `Share` and `Plus`
are any division and addition that round as IEEE 754 does (`FloatsRound`: they keep the
order of exact results, though not strictly, and addition commutes but need not
associate). The other numbers are exact where the code has floats: scores and similarities
are parts of `One`, metric values are fractions, and the discounts of NDCG are any weights
that fall with the rank.

### MC modules and proofs

Each `MC` module extends a module with small constants. The inductive invariants, lemmas
and theorems are in modules of their own. `BudgetLedgerProofs`, `SingleFlightProofs`,
`ModelStageProofs`, `HttpBackendProofs` and `MetricScoringProofs` extend the module they are
named after. The other three extend two each, whose variables differ: `FacadeProofs` has
`Ranking` and `RerankerLifecycle`, `BackendProofs` has `AutoPlan` and `LayaWorker`,
`EvaluationProofs` has `Evaluation` and `EmbedWorker`.

Definitions marked "Faulty" in a module are variants of the definition that follows
with a plausible mistake in it; no specification uses them. For every checked
property `PROJECT.json` names one that TLC finds to break it.

## Runs

| Run | Configuration | Shows |
|---|---|---|
| `ledger` | 3 executions, 2 attempts, limits 5 calls, 8 tokens, strict cost 4, deadline | limits, balance, an overrun is raised and nothing else, under all interleavings |
| `single_flight` | 3 callers: two identical, one tolerant of partial responses; one content, cache empty, filled or foreign; fairness | waiters counted, tasks owned, responses fit; every caller ends; implements `SharedWork` |
| `stage` | 2 routes, 3 groups, window 2, 1 permit, 2 attempts, 5 calls, 10 tokens, deadline, 1 cancellation, 2 checkpoints; fairness | nothing left behind, one model's scores, calls accounted in ledger and statistics, cancellation stops, the stage ends |
| `facade` | 2 tasks, 2 closers, 2 nested reranks, queue of 2, 3 events; fairness | the backend is closed only when idle, the observer for good; events counted once, at most one lost; the close ends |
| `ranking` | 3 candidates, 2 routes, pipelines of up to 3 of 8 stages, 8 single strategies, 5 chains, `top_k` none, 0, 1, 2, with and without a threshold | the plan of a response is a chain, its status tells what fell back, no candidate is lost silently |
| `ranking_shown` | 2 pipelines of 2 stages, 2 chains | the finding below |
| `laya_worker` | 3 calls, 1 closer, 1 slot, 2 cancellations each; fairness | slots balance and one cancellation keeps the slot; calls and the close end; implements `DrainedShutdown` |
| `embed_worker` | 3 calls, 2 closers; fairness | one encoder at a time, jobs and the close end without their callers; implements `DrainedShutdown` |
| `planning` | up to 5 candidates, 10 backends alone and 4 in routers under every policy, 14 budgets, `top_k` none, 1, 2, 7 | a plan is admitted as far as it has looked, stays local, keeps enough; routes follow the policy |
| `scoring` | 2 requests of 2 tenants, 3 candidates (two alike), 1 permit, cache of 2 entries that live one tick, 1 cancellation; fairness | scores are the request's own and fresh, the cache keeps what is used, nothing runs on, every request ends |
| `http` | 2 calls, 2 closers, 3 attempts, back-off 1, 2, capped at 2, jitter | attempts and usage told, rate limits respected, transports closed |
| `evaluation` | 3 and 4 texts of up to 3 words, fusions of 2 and 3 lists of up to 3 with weights 0 to 3 and floats of 7 bits, grades 0 to 2, diversity limits 0 to 4, `top_k` none to 3, cutoffs 1 and 2 | incremental selection is greedy, fusion is fair, metrics measure the whole ranking |

Why the bounds are enough. Three executions let one hold a reservation while a
second settles and a third is refused; the limits are chosen so that two full
reservations fit and a third does not, and reports lie under, at and over the
estimate. Three callers give a creator, a sharer and a late comer that finds the
entry gone or replaced; a count can go wrong only between two of them and be seen by
a third. In the stage, three groups with a window of two have a second window, one
permit makes a group queue behind another, two routes make a fallback, and five calls
let two executions reserve four and then refuse. One cancellation can strike at any
point, including after a fallback has begun. In the workers, three calls on one slot
give one in the thread, one in the pool's queue and one at the semaphore. In the facade,
two tasks let one be cancelled while the other still emits, a nested rerank may end
before, while or after `aclose` looks, three events overfill the queue of two with one in
hand, and the second closer finds the first at any stage. In `ranking`, three stages put
one between the first and the last, limits of 1 to 3 over three candidates cut or keep all,
and the chains have each policy before and after one that does not apply or fails. In
`planning` the sizes lie on both sides of every limit (small, medium, batch, context,
shortlist), and budgets lie under, at and over what the plans need. In `scoring` three
candidates have a second window, two alike candidates and two requests compete for an
entry, and two entries overflow. In `http` three attempts have two sleeps, one of them
at the cap, and the two closers overlap each other and both calls. In `evaluation` three
texts let two selected ones decide about a third, four let two selections cut the order
in the middle, and ties occur in scores, similarities and fusions. Floats of 7 bits make what
is rare with 53 happen with ranks up to 3: three lists that give each candidate every rank
once round to different sums, and in two lists a candidate that is above another in both
gets the same sum.

All counters are bounded by the constants: `interrupts` and `asked` by
`MaxInterrupts`, `cancels` by `MaxCancels`, `emitted` by `MaxEvents`, `now` by
`MaxTime`, `depth` by `MaxNest`, attempts by `MaxAttempts`. Deadlock is not checked in
these runs: callers, executions, stages and closers end, and then nothing is left to do;
that they do end is what `CallersEnd`, `StageEnds`, `WorkEnds`, `ScoringEnds` and
`CloseEnds` show.

Fairness. The event loop runs every callback that is ready, so each caller's own step,
each task's and each group's is weakly fair. A backend call ends because
`RerankerConfig.timeout_s` is finite and bounds it (`asyncio.timeout` in
`_run_model_request`). A function in a thread ends: the library sets no bound of its own, and
`WorkEnds` holds only as far as the model's inference returns; the same is assumed of a
metric in `ScoringEnds`. An `asyncio.Lock` is
handed on in the order it was asked for, which is strong fairness of `TakeLock`. A
semaphore needs none in `ScoringEnds`: every request has finitely many tasks, each takes
a permit once, and permits come back.
In the facade only a cancelled task is
fair (it unwinds) and `aclose` itself, whose wait for the observer has a timeout; the
user's code and observer may hang. Nothing forces a cancellation, an expiry or an
eviction.

## Findings

**The plan shows backends that did not score a stage** (`ranking_shown`).
`model_routes` holds a route for every scoring of the request and is dealt out by
position: a filter with `ModelRelevance` before a model stage, or the stages of a
pipeline that a fallback replaced, shift it. An `input_order` fallback is shown with
the backend that failed. Reproduced against the code.

## Observations

What was met while modelling and is stated in the properties as the exception they make,
or follows from a definition.

- *Lost attempts.* `_execute_model` charges one attempt for a failure that reports none:
  the outer timeout around the retry loop, a sibling's cancellation, a 413 or 422, a Laya
  checkpoint that is not confirmed. Two 500s and a 413 send three requests and leave
  `ledger.calls` at 1, although `settle_failure` promises "a conservative estimate for
  attempts made" and `TYPEDRANK_ARCHITECTURE.md` that every attempt is accounted.
  `CallsAccounted` and `AttemptsTold` say what is left: at least one, never more than
  were sent, and all of them once there is a response.
- *Lost cancellation.* If a cancellation arrives after a group has failed and before the
  gather's callback, the gather raises the failure, and the route loop carries on with the
  next backend. `PlainInterruptStops` shows that this is the only way.
- *Overrun.* `reconcile` raises before `_record_response`, so a response that overruns the
  budget is missing from the statistics.
- *Fallback.* The route loop catches every `BackendError`, among them refused
  authentication and malformed output, which the failure rules of
  `TYPEDRANK_ARCHITECTURE.md` exclude. With a `score_threshold` an `input_order` fallback
  succeeds and is then refused.
- *Omitted candidates.* A stage after one that omits candidates miscounts: a filter begins
  `missing_count` anew, so a response without the omitted candidate is "ok", and a
  diversity stage hands it on beside its own smaller input, so `coverage.scored_count` may
  be negative. `NothingLostSilently` and `OkMeansAsPlanned` name these plans (`OmitsLastOnly`).
- *Nested reranks.* A rerank inside another of the same Reranker takes the task out of
  `_active_tasks` when it ends: `aclose` neither cancels nor awaits the outer one and
  closes observer and backend under it. An event it then emits starts the worker anew,
  which delivers what a timed-out close had counted as dropped. The properties of `facade`
  name these tasks (`missed`).
- *A cancelled `Reranker.aclose`* leaves observer and backend open for good, since a
  repeated call returns at once; `CloseEnds` names that case.
- *Deserted slot.* A second cancellation of a local inference passes `except Exception`
  in `_worker` and leaves the semaphore while the thread runs; one cancellation does not
  (`SlotsBalance`), and neither lets the close run ahead of the function (`DrainSpec`).
- *HTTP.* `Retry-After` is read with a 429 only. Two overlapping `aclose` may forget a
  transport that a call made in between, still open; one that is interrupted leaves the
  closed transport referenced. `TransportsClosed` names both.
- *Metric scoring.* A synchronous callback goes on in its thread after its task has been
  cancelled and has given the permit back, so more than `max_concurrency` may run
  (`NothingLeftRunning`). A cached value that another library wrote and that is no utility
  raises and stays in the cache. `clear(namespace)` also clears longer namespaces that
  begin with this one and a colon.
- *Planning.* A plan may come to a stage that is refused, where `decide` has not looked. The
  plan is made for one backend, and the routes of its mode may begin with another. For
  pointwise scoring it measures the context of each candidate alone (`auto.py:213-224`), while
  a backend that takes batches, such as Laya, is asked about groups whose state holds every
  text (`systemone.py:208-212`, `laya.py:108-123`), so a group may be refused
  (`executor.py:639`, `laya.py:219`). It counts tokens by the estimate, while the reservation
  takes `chargeable_token_upper_bound` where a backend has it (`executor.py:642-664`). The
  checkpoint that replaces "auto" makes a request longer than planned. A `max_batch_size` of 0
  is none to the plan (`max_batch_size or config.batch_size`), while the stage refuses every
  list as longer than 0. `PlanAdmitted` speaks of the planned backend (`AsPlanned`), and in
  `Admitted` each of the other exceptions stands at the conjunct it concerns; such plans occur
  in the `planning` run. A text counts with its length: what JSON escapes add is not modelled,
  and `Admitted` is about calls and tokens, not about the estimate of the cost.
- *Fusion.* `reciprocal_rank_fusion` adds floats list by list (`fusion.py:37`). With three or
  more lists, candidates whose scores are equal in exact arithmetic may differ in the last bit
  by the turn in which the lists are passed, and then the order given for ties is not asked:
  with the constant 60, ranks 1, 7 and 8 sum to less than ranks 8, 1 and 7. `FusionFair`
  therefore lets only the first two lists change places, which is all that commuting allows.
  With an extreme constant or weight, rounding may also make the score of a candidate equal to
  that of one it is above in every list, and the given order may then put it behind.
- *Evaluation.* After a diversity stage a threshold is applied to the selected candidates,
  so a response may be shorter than `top_k` although others qualify; `evaluate` rejects
  such a case unless partial output is allowed.

## Proofs

Every theorem below is for all values of the constants that the named ASSUMEs admit: any
sets of executions, callers, tasks, calls, requests and candidates, any numbers of routes,
groups, permits, slots, attempts and cancellations. The argument is always the same: an
inductive invariant (`IInv`, unless named otherwise) holds initially, every action keeps it
(a lemma for each action or group of actions), and the property follows from it. What
follows says what it adds to the property and why the property alone is not inductive.

**BudgetLedgerProofs**: the type invariant, `CallsWithinBudget`, `RaisedWhenOver`, `Balanced`.
The first follows since `reserve` checks the worst case and the two settlements only give
back (`CallsOnlyReturned`, `SettlementReturns`). `RaisedWhenOver` has three parts with a
theorem each: `OverrunIsRaised` and `WithinWhenAsEstimated` are proved with the products that
reservations are made of, `RaisesOnlyOverLimit` needs that a strict budget has admitted
only priced executions. The `ledger` run has a strict cost budget; the theorems hold for
either setting. For `Balanced` (`LedgerBalanced`) two facts are kept: the totals are the sums
of what is booked (`Booked`), and an execution at work has booked what it holds (`Holds`).
The step from one to the other is that a sum over a set changes by what one member changes,
which is a statement about the fold that defines the sum. There is no induction principle to
cite for it, so it is proved by the smallest set for which it fails (`LeastNumber` on its size).

**SingleFlightProofs**: the type invariant, the three invariants of the run (`TasksOwned`
and `ResponsesFit` from a theorem for each of their parts), and `WorkIsShared`, that the
specification implements `SharedWork`. `IInv` says what each entry of the table stands for:
its task was created under that key by a caller with the same content, it is not cancelled,
its count is the number of callers at the shield of that task, and a task outside the table
is finished, or cancelled and awaited by the caller that is leaving. Without the link
between table and tasks neither the counts nor the ownership is inductive. The same facts
carry the refinement: a caller that joins finds work under its key exactly when `SharedWork`
has some, and work disappears with the last member because the count is the number of them.

**ModelStageProofs**: `NothingLeftBehind`, `OneModelScores`, `PlainInterruptStops`,
`CallsAccounted`. The invariant counts permits (those free and those of the groups that hold
one make `MaxConcurrency`), ties each standing reservation to a group of this route at work
(`ReservedHeld`), says that a gather which returned or a stage which prepares has nothing
undone (`Settles`), and that the groups before the window, and those of a window whose
gather returned, are scored by this route (`WindowsScored`); a group not yet noticed is in
`unseen`. For the cancellation, `PlainStops` lists the only places where a plainly
interrupted stage can be: over, with a gather that has raised `CancelledError`, or with one
that must, since all that runs is cancelled and nothing unseen has failed.

A stage is also a run of the ledger (`ImplementsLedger`): each of its steps makes a step of
`BudgetLedger` or leaves the ledger alone. `StageLedgerKept` therefore takes the theorems of
`BudgetLedgerProofs` as they are, from an instance of that module whose assumptions are
derived from those of the stage (`LedgerAssumptions`). `CallsAccounted` (`BooksAgree`) needs
from the stage what the ledger does not know: where each group is, what it has sent, and that
the statistics are the sum of what each execution has recorded (`Books`).

**FacadeProofs**, of `RerankerLifecycle` (`LifecycleInv`): `BackendClosedIdle`,
`ObserverClosedForGood`, `EventsAccounted`. Only one call of `aclose` acts (`OneActs`), it knows every task inside a
rerank but the `missed` ones (`TasksKnown`), and it has waited for all it knows when it goes
on (`Drained`). The events are counted with the queue and the one in hand while the worker
runs (`Tally`), which is the only state in which the counts balance exactly.

Of `Ranking` (`IInv`): `PlanIsChain`, `OkMeansAsPlanned`, `NothingLostSilently`. All three speak
of a response, and nothing in them says how it came about, so `IInv` is about what is at hand
in each phase (`AtHand`). An outcome is `Sound`: each of its stages had what the one before
it left (`Sizes`), a stage scored by a later route has been counted as so many fallbacks
(`Told`), what it holds and what it says is missing fit its last stage (`AccountedFor`), and
without a `top_k` they make all candidates (`Whole`). Between two stages of a pipeline,
and in a checkpoint, it is moreover `Partway`: the first stages of the plan, not all. When
the response is assembled with status "ok" it is `Planned`, all of them. A fallback may begin
from a checkpoint or from nothing and may change the status, but not what makes an outcome
sound, except that more fallbacks are told (`StillSound`).

**BackendProofs**: `SlotsBalance` for `LayaWorker`, and that it implements `DrainedShutdown`
(`ShutdownDrains`). Slots and the calls that hold one make `Slots` (`Balance`), a call that is
held has seen one cancellation and one that deserts has seen two (`CancelsSeen`), and a close
past the pool finds the pool empty (`CloseWaits`). These are the facts that make a drop of
the model a step of `DrainedShutdown`: no work is left, and none can begin.

For `AutoPlan` the module proves `OfflineStaysLocal`, `CascadeKeepsEnough`, `RoutesOrdered`
and `PlanAdmitted` (`PlansAreAdmitted`), over all requests, backends and policies. They are
theorems about `decide` and `routes` as functions, and `PlanInv` carries them to the start
of the stage. A plan with a mode is for the backend that was vetted (`PlanIsFor`,
`DecisionIsLocal`), which is what the stage uses without a router; with one, every route
passed the same check (`RoutesAreLocal`). What is wanted survives the maxima and minima of
each cut (`CutsNarrow`), whatever minimum and multiplier are configured. The routes are the
eligible ones, the second in front only if its key is smaller, which is what each policy
means by better (`RoutesFollow`).

`PlanAdmitted` says that estimates made before the ranking hold for what the stage asks
later, as far as they were made for it. Its invariant, `PlannedInv`, says only that the plan is the one `PlanFor` makes for its
backend and that the groups are cut from candidates it may leave; the rest is about functions.
Sums are folds of the model, which choose an element at a time, so they are first shown to be
additive over disjoint sets and the same under other names (`SumsSplit`, `SumRenamed`). From
that follow the two inequalities the code relies on without saying so: a group takes no more
tokens than its members one by one, although each estimate is rounded up and is at least 1
(`GroupsAreCheaper`, `ChunksAreCheaper`), and no shortlist has a larger sum than as many of the
longest texts (`LeadersSum`, `PickedSum`, `LongestIsWorst`). The first holds of tokens, which
are added up, and not of the context, which is a limit for each group: that carries over to a
list and to a single candidate (`ContextIs`, `ContextOfOne`, `OneFits`), and of larger groups
nothing is proved because the code does not ensure it. That the groups are as many as
planned, none empty and none too large, is arithmetic of the rounded quotient (`ChunkIs`), and
that the calls last for all attempts is that of the other (`CallsSuffice`). `PlanKeeps` puts
these together for each way to plan: a list, single candidates or groups, a cascade of either
kind.

**HttpBackendProofs**: `AttemptsTold`, `RetryAfterRespected`, `TransportsClosed`. A call
counts its posts and has nothing to tell before its end (`CallSound`). For the transports
the invariant says that a call of `aclose` closes the current one unless two overlap, that
what is used and not closed is current or was lost in an overlap, and that at most one
transport is made for each close. The provers know nothing of exponentiation:
`BackoffsAreDelays` is the assumption that each back-off is a natural number, which TLC
evaluates.

**MetricScoringProofs**: `NothingLeftRunning`, `OwnFreshScores`, `RecentlyUsedKept`. For the
first, permits are those free, of tasks that score and of batch calls; unfinished tasks exist
only under a request that waits for them, in its window; a callback belongs to the score its
task waits for, unless the request has failed. The last is needed because the end of a score
takes its callback by name.

The other two rest on what the cache holds (`CacheInv`): every entry is about its own key and
expires in its own time (which is why a hit can be trusted), no key is there twice, what comes
after an entry was used after it (`InOrderOfUse`), and a key that is missing, and neither expired
nor was cleared, has seen `MaxEntries` others used since (`Kept`). The cache drops entries from a sequence, and every fact about it needs to know that what is
left is a subsequence; `WithoutThins` proves that by the first position where it fails. For
the scores, `OwnInv` follows a value from the cache or the callback (`GotOwn`) through the
scores of one metric (`ScoresOwn`) to the combination of several (`Combined`), and `Storing`
says that only a cacheable metric stores.

**EvaluationProofs**, of `Evaluation`: `DiverseOrder` and `FusionFair`. The first
(`SelectionsAreGreedy`) compares an order built one candidate at a time with one chosen from all
orders of the pool. What links them is `Leads`: each candidate of a sequence is ahead of all that
are not before it. Two such sequences agree as far as the shorter one goes, by the first position
where they differ (`LeadsAgree`), each can be continued while candidates are left
(`NextLeads`), and the greedy order is one of full length (`GreedyIs`). `DiverseInv` says that the
entries lead, and that `near` is what the definition computes from scratch, the nearest of those
selected so far. That the scores shown never rise needs that a candidate only gets nearer.

The second (`FusionsAreFair`) is about `Fused`, and its invariant (`FusionInv`) only remembers
what was fused. The order exists because the places that decide between equal scores
differ: by the input, and after that by where the lists, read one after the other, name a
candidate first (`PlacesDiffer`, `AllAreRead`). Scores are sums built list by list, so every
claim about two sums is made after each list, by the first list after which it would fail
(`NoDescent`). A candidate that is above another in all lists never has the lower sum, since
rounding keeps order (`AgreedScores`); with an equal one it stands first by the given order or,
without one, because the first list that names either names it first (`SeenEarlier`,
`ReadEarlier`). That the first two lists may change places is that addition commutes: after
both the sums are the same, and then the same is added (`SwappedScores`). Of the floats
nothing is assumed but `FloatsRound`, which is true of IEEE 754 with any precision, and is why
neither a strict inequality nor a third list can be claimed. `FusionsAreFusions` is what the
function checks of its arguments, and that input positions differ.

Of `EmbedWorker`: `OneEncoder` (`EncodersExclude`), and that it implements `DrainedShutdown`
(`EmbedShutdownDrains`). The lock is held by the one job that encodes (`LockHeld`), an unfinished
job is in `_jobs` (`JobsTracked`), and the close waits for every job that encodes.

Only model-checked: `MeasuresTheRanking`, whose NDCG takes powers of two, which the provers
know nothing of, and a rearrangement of sums over ranks. So is liveness, which they do not
reach: `CallersEnd`, `StageEnds`, `CloseEnds`, `WorkEnds`, `ScoringEnds`.

## Not modelled, and why

Scores, payloads, prompts, parsing and cache keys are data; a key is the identity of
what it digests. Latency statistics, cost confidence and observer events are left out
of `ModelStage`. Of the components listed as partly modelled in `PROJECT.json` these
parts are missing:

- facade: `rerank_sync`, which runs the coroutine in a loop of its own and closes the
  Reranker there; the binding to one event loop; and the latency scope's check on return,
  which turns a response that is late by the clock into `DeadlineExceededError` (its
  cancellation is an interrupt of `ModelStage` and of `RerankerLifecycle`);
- router: `BackendRouter.aclose`, two awaits in a row, of which the second is not reached
  if the first raises;
- local inference: what a function does in its thread, and the context estimate of
  `laya_context.py`, arithmetic on text lengths;
- candidates: adapters, application ids and frozen metadata, which no decision reads;
- evaluation: means over cases and performance totals, and metrics a user writes.

`prompts.py`, `errors.py`, `context.py`, the factories and the integrations carry data or
adapt an interface and have no state of their own.

## Plan

1. The two clocks of the latency budget, the scope of `rerank` and the later deadline of
   the ledger, around a request with fallbacks: what ends in time, and who is told.
2. `SyncUse`: `rerank_sync` and the loop binding.
3. Two model stages of one request side by side, from a strategy of the user's
   (`_runtime/executor.py:305`).
4. Theorems: in `SharedWork` and `DrainedShutdown` themselves, what the modules that
   implement them may rely on.

------------------------------ MODULE AutoPlan ------------------------------
(***************************************************************************)
(* AutoStrategy.decide, which turns the candidates, the budget and what the *)
(* backend can do into a plan, and the start of the model stage the plan    *)
(* leads to: the routes as they are then, the groups of candidates, and     *)
(* what each group asks of the limits. Between the two a backend may become *)
(* unavailable or available, and a pipeline has picked its shortlist.       *)
(*                                                                          *)
(* A candidate is the size of its text in characters, rendered at that      *)
(* length. A request of a backend has its overhead (query, prompt) besides, *)
(* and a question about each candidate; Unit characters are a token,        *)
(* rounded up.                                                              *)
(***************************************************************************)
EXTENDS Routing, FiniteSetsExt

CONSTANTS
    Unit,
    ConfigBatch, SmallLimit, MediumLimit,    \* RerankerConfig
    Bm25Min, Bm25Multiplier,
    EmbeddingMin, EmbeddingMultiplier,
    Asks                                     \* the requests

ASSUME NoneNotANumber == None \notin Int
ASSUME PlanSizes ==
    {Unit, ConfigBatch, SmallLimit, MediumLimit, Bm25Min, Bm25Multiplier, EmbeddingMin,
     EmbeddingMultiplier} \subseteq Nat \ {0}

Limit == Nat \cup {None}
Budget == [calls : Limit, tokens : Limit, cost : Limit, latency : Limit, strict : BOOLEAN]

\* Reranker.rerank decides on at least one candidate; the backend is one or a router.
ASSUME AsksAreAsks ==
    \A a \in Asks :
        /\ a.sizes \in Seq(Nat) /\ a.sizes # <<>>
        /\ a.topK \in Limit \ {0}
        /\ a.quality \in {"fast", "balanced", "quality", "offline"}
        /\ a.network \in {"allow", "deny"}
        /\ a.language \in {"english", "other", None}
        /\ a.configured \in Budget /\ a.requested \in Budget
        /\ a.embedder \in BOOLEAN
        /\ a.router # None => a.backend = None /\ IsRouter(a.router)
        /\ a.backend # None => a.backend \in Backend

VARIABLES
    ask,
    up,      \* the backends that are available
    phase,   \* "asked", "planned" or "started"
    plan,    \* the AutoDecision, None before
    routes,  \* the backends the model stage will try, in order
    groups   \* the requests the first of them gets

planVars == <<ask, up, phase, plan, routes, groups>>

-----------------------------------------------------------------------------
(* The budget and the estimates.                                             *)

AtMost(x, limit) == limit = None \/ x <= limit
Stricter(a, b) == IF a = None THEN b ELSE IF b = None THEN a ELSE Min({a, b})

EffectiveBudget(a) ==
    [calls |-> Stricter(a.configured.calls, a.requested.calls),
     tokens |-> Stricter(a.configured.tokens, a.requested.tokens),
     cost |-> Stricter(a.configured.cost, a.requested.cost),
     latency |-> Stricter(a.configured.latency, a.requested.latency),
     strict |-> a.configured.strict \/ a.requested.strict]

Ceil(x, y) == (x + y - 1) \div y
Sum(s) == FoldSeq(+, 0, s)

\* estimate_request_tokens: every text with the question about it.
Shown(b, pool) == [i \in DOMAIN pool |-> pool[i] + b.question]
Tokens(b, pool) == Max({1, Ceil(b.overhead + Sum(Shown(b, pool)), Unit)})

\* estimate_context_tokens where a backend has it: every text, but one question at a time.
Context(b, pool) ==
    IF b.perQuestion THEN Max({1, Ceil(b.overhead + b.question + Sum(pool), Unit)})
    ELSE Tokens(b, pool)

\* A batch limit of 0 counts as none, here and in the groups of pointwise scoring.
Batch(b) == IF b.maxBatch \in {None, 0} THEN ConfigBatch ELSE Min({ConfigBatch, b.maxBatch})
PointwiseBatch(b) == IF b.batched THEN Batch(b) ELSE 1

\* One request for each candidate, as the plan estimates pointwise scoring.
Singles(pool) == [i \in DOMAIN pool |-> <<pool[i]>>]
TokensOfAll(b, requests) == Sum([i \in DOMAIN requests |-> Tokens(b, requests[i])])

\* The calls that are left when each may need all its attempts.
AvailableCalls(b, calls) == IF calls = None THEN None ELSE calls \div b.attempts

-----------------------------------------------------------------------------
(* The plan.                                                                 *)

Plan(strategy, b, mode, batch, limits, calls, tokens) ==
    [strategy |-> strategy, backend |-> b, mode |-> mode, batch |-> batch,
     limits |-> limits, calls |-> calls, tokens |-> tokens]

LexicalPlan == Plan("lexical", None, None, None, <<>>, 0, 0)

\* Without the network only a backend that says it is local may be planned for.
Vetted(a, b) == IF b # None /\ NoNetwork(a) /\ b.location # "local" THEN None ELSE b

Preferred(a) == IF Len(a.sizes) <= SmallLimit THEN <<"listwise", "pointwise">>
                ELSE <<"pointwise", "listwise">>

\* The first route in the preferred mode, or else in the other one.
RoutedBackend(a, available) ==
    LET first == Routes(a.router, Preferred(a)[1], a, available)
        second == Routes(a.router, Preferred(a)[2], a, available)
    IN  IF first # <<>> THEN first[1] ELSE IF second # <<>> THEN second[1] ELSE None

NoModelBudget(b, budget) ==
    \/ budget.calls # None /\ (IF b = None THEN budget.calls ELSE AvailableCalls(b, budget.calls)) = 0
    \/ budget.tokens = 0
    \/ budget.cost = 0 /\ b # None /\ b.location # "local"
    \/ budget.latency = 0

UnverifiableCost(b, budget) ==
    budget.strict /\ budget.cost # None /\ b.location # "local" /\ ~b.costBound

NoModel(a, b) ==
    LET budget == EffectiveBudget(a)
    IN  a.quality = "fast" \/ b = None \/ NoModelBudget(b, budget) \/ UnverifiableCost(b, budget)

ListwiseFits(a, b) ==
    LET budget == EffectiveBudget(a)
    IN  /\ b.listwise
        /\ Len(a.sizes) <= Batch(b)
        /\ AtMost(Context(b, a.sizes), b.maxContext)
        /\ AtMost(Tokens(b, a.sizes) * b.attempts, budget.tokens)
        /\ AvailableCalls(b, budget.calls) # 0

PointwiseFits(a, b) ==
    LET budget == EffectiveBudget(a)
        singles == Singles(a.sizes)
    IN  /\ b.pointwise
        /\ AtMost(Ceil(Len(a.sizes), PointwiseBatch(b)), AvailableCalls(b, budget.calls))
        /\ \A i \in DOMAIN singles : AtMost(Context(b, singles[i]), b.maxContext)
        /\ AtMost(TokensOfAll(b, singles) * b.attempts, budget.tokens)

ListwisePlan(a, b, batch) ==
    Plan("listwise", b, "listwise", batch, <<>>, 1, Tokens(b, a.sizes))

MediumPlan(a, b) ==
    LET listwise == ListwisePlan(a, b, Len(a.sizes))
    IN  IF a.quality = "quality" /\ ListwiseFits(a, b) THEN listwise
        ELSE IF PointwiseFits(a, b)
             THEN Plan("pointwise", b, "pointwise", None, <<>>,
                       Ceil(Len(a.sizes), PointwiseBatch(b)), TokensOfAll(b, Singles(a.sizes)))
             ELSE IF ListwiseFits(a, b) THEN listwise ELSE LexicalPlan

Wanted(a) == IF a.topK = None THEN Len(a.sizes) ELSE Min({a.topK, Len(a.sizes)})
Keep(a) == IF a.quality = "quality" THEN 2 ELSE 1

Bm25Limit(a) == Min({Len(a.sizes), Max({Bm25Min, Wanted(a) * Bm25Multiplier * Keep(a)})})

\* Faulty: as many as the configuration says, however many were asked for.
EmbeddingLimitFixed(a) == Min({Bm25Limit(a), EmbeddingMin})

EmbeddingLimit(a) ==
    Min({Bm25Limit(a), Max({EmbeddingMin, Wanted(a) * EmbeddingMultiplier * Keep(a)})})
Shortlist(a) == IF a.embedder THEN EmbeddingLimit(a) ELSE Bm25Limit(a)

\* Faulty: the first candidates, as if their texts were all alike.
FirstPool(a) == SubSeq(a.sizes, 1, Shortlist(a))

\* The candidates the model stage may get at worst: the longest, by their places.
Longest(a) ==
    CHOOSE longest \in kSubset(Shortlist(a), DOMAIN a.sizes) :
        \A i \in longest, j \in DOMAIN a.sizes \ longest : a.sizes[j] <= a.sizes[i]
WorstPool(a) == Restrict(a.sizes, Longest(a))

CascadeLimits(a) ==
    <<Bm25Limit(a)>> \o (IF a.embedder THEN <<EmbeddingLimit(a)>> ELSE <<>>) \o <<Wanted(a)>>

CascadePlan(a, b) ==
    LET mode == IF b.listwise /\ Shortlist(a) <= Batch(b) THEN "listwise" ELSE "pointwise"
        requests == IF mode = "listwise" THEN <<WorstPool(a)>> ELSE Singles(WorstPool(a))
        calls == IF mode = "listwise" THEN 1 ELSE Ceil(Shortlist(a), PointwiseBatch(b))
        budget == EffectiveBudget(a)
    IN  IF /\ mode = "pointwise" => b.pointwise
           /\ AtMost(calls, AvailableCalls(b, budget.calls))
           /\ \A i \in DOMAIN requests : AtMost(Context(b, requests[i]), b.maxContext)
           /\ AtMost(TokensOfAll(b, requests) * b.attempts, budget.tokens)
        THEN Plan("auto", b, mode, IF mode = "listwise" THEN Batch(b) ELSE None,
                  CascadeLimits(a), calls, TokensOfAll(b, requests))
        ELSE LexicalPlan

\* decide for one backend, the router out of the way.
PlanFor(a, b) ==
    IF NoModel(a, b) THEN LexicalPlan
    ELSE IF Len(a.sizes) <= SmallLimit /\ ListwiseFits(a, b) THEN ListwisePlan(a, b, SmallLimit)
    ELSE IF Len(a.sizes) <= MediumLimit THEN MediumPlan(a, b)
    ELSE IF a.topK = None THEN LexicalPlan
    ELSE CascadePlan(a, b)

\* A backend that can only rank a list, and cannot rank this one, gives way to the
\* first route that scores pointwise, for which the whole decision is made again.
AutoDecision(a, available) ==
    LET b == Vetted(a, IF a.router = None THEN a.backend ELSE RoutedBackend(a, available))
        pointwise == IF a.router = None THEN <<>> ELSE Routes(a.router, "pointwise", a, available)
    IN  IF ~NoModel(a, b) /\ ~ListwiseFits(a, b) /\ ~b.pointwise /\ pointwise # <<>>
        THEN PlanFor(a, Vetted(a, pointwise[1]))
        ELSE PlanFor(a, b)

-----------------------------------------------------------------------------
(* The model stage the plan leads to.                                        *)

\* What the backend's name for its model adds to a request once prepare_stage has
\* replaced "auto" by a checkpoint; the plan was made before.
Pinned(b) == IF b.auto THEN [b EXCEPT !.overhead = @ + Unit] ELSE b

\* The candidates of a plan without a pipeline are all, those of a cascade any
\* shortlist that earlier stages may leave, in any order.
Survivors(a, p) ==
    IF p.strategy # "auto" THEN {a.sizes}
    ELSE {[i \in DOMAIN order |-> a.sizes[order[i]]] :
             order \in {o \in [1..Shortlist(a) -> DOMAIN a.sizes] : IsInjective(o)}}

Chunks(pool, size) ==
    [i \in 1..Ceil(Len(pool), size) |->
        SubSeq(pool, (i - 1) * size + 1, Min({i * size, Len(pool)}))]

\* The groups _model_scores_selected forms for a backend.
GroupsOf(b, mode, pool) == IF mode = "listwise" THEN <<pool>> ELSE Chunks(pool, PointwiseBatch(b))

\* The check of a group's context before its call; the estimate of one question does
\* not contain the name of the model.
Fits(b, request) == AtMost(Context(IF b.perQuestion THEN b ELSE Pinned(b), request), b.maxContext)

\* The tokens reserved for an attempt: those the backend says it may charge, if it does.
Reserved(b, request) == IF b.tokenBound = None THEN Tokens(Pinned(b), request) ELSE b.tokenBound
ReservedForAll(b, requests) == Sum([i \in DOMAIN requests |-> Reserved(b, requests[i])])

Uses(a) == ({a.backend} \cup (IF a.router = None THEN {} ELSE {a.router.primary, a.router.fallback}))
               \ {None}

-----------------------------------------------------------------------------
\* The specification, named apart from those of the modules that run a plan.
PlanInit ==
    /\ ask \in Asks
    /\ up \in SUBSET {b.id : b \in Uses(ask)}
    /\ phase = "asked"
    /\ plan = None /\ routes = <<>> /\ groups = <<>>

\* is_available of a backend of the router changes its answer.
Turn(b) ==
    /\ phase = "planned" /\ plan.mode # None /\ ask.router # None
    /\ up' = (up \ {b.id}) \cup ({b.id} \ up)
    /\ UNCHANGED <<ask, phase, plan, routes, groups>>

Decide ==
    /\ phase = "asked" /\ phase' = "planned"
    /\ plan' = AutoDecision(ask, up)
    /\ UNCHANGED <<ask, up, routes, groups>>

\* model_scores asks the router anew and cuts the candidates it is given.
Start ==
    /\ phase = "planned" /\ plan.mode # None /\ phase' = "started"
    /\ LET chosen == IF ask.router = None THEN <<plan.backend>>
                     ELSE Routes(ask.router, plan.mode, ask, up)
       IN  /\ chosen # <<>> /\ routes' = chosen
           /\ \E pool \in Survivors(ask, plan) :
                 groups' = GroupsOf(Head(chosen), plan.mode, pool)
    /\ UNCHANGED <<ask, up, plan>>

\* No route is left: CapabilityError.
NoRoute ==
    /\ phase = "planned" /\ plan.mode # None /\ phase' = "started"
    /\ ask.router # None /\ Routes(ask.router, plan.mode, ask, up) = <<>>
    /\ UNCHANGED <<ask, up, plan, routes, groups>>

PlanNext == Decide \/ Start \/ NoRoute \/ \E b \in Uses(ask) : Turn(b)

PlanSpec == PlanInit /\ [][PlanNext]_planVars

-----------------------------------------------------------------------------
(* Properties.                                                               *)

\* What the plan was made for is what the stage starts with: the router may have
\* changed its mind, or the routes of the plan's mode may begin with another backend.
AsPlanned == phase = "started" /\ routes # <<>> /\ Head(routes) = plan.backend

\* What the plan has checked, or promised, of the groups the stage forms. Where the plan
\* did not look, nothing is claimed: it takes a batch limit of 0 for none, it does not know
\* the name of the model yet, nor the backend's own bound of what it charges, and of
\* groups of several candidates to be scored one by one it has measured the candidates.
Admitted(a, b, p, requests) ==
    LET budget == EffectiveBudget(a)
    IN  /\ Supports(b, p.mode)
        /\ NoNetwork(a) => b.location = "local"
        /\ ~UnverifiableCost(b, budget)
        /\ Len(requests) = p.calls
        /\ AtMost(Len(requests) * b.attempts, budget.calls)
        /\ TokensOfAll(b, requests) <= p.tokens
        /\ ~b.auto /\ b.tokenBound = None =>
              AtMost(ReservedForAll(b, requests) * b.attempts, budget.tokens)
        /\ p.batch # None => \A i \in DOMAIN requests : Len(requests[i]) <= p.batch
        /\ p.mode = "listwise" /\ b.maxBatch # 0 => AtMost(Len(requests[1]), b.maxBatch)
        /\ b.perQuestion \/ ~b.auto =>
              \A i \in DOMAIN requests :
                 p.mode = "listwise" \/ Len(requests[i]) = 1 => Fits(b, requests[i])

\* A plan for a model is one the executor lets through, as far as the plan has looked: for
\* every shortlist the earlier stages may leave, the groups are as many as planned, the
\* calls and tokens of the budget last for all of them with all their attempts, even if
\* no group gives anything back in between, and no list and no single candidate is too
\* long for the backend (auto.py decide against _model_scores_selected, _execute_model and
\* reserve).
PlanAdmitted == AsPlanned => Admitted(ask, plan.backend, plan, groups)

\* A request that must stay on the machine is planned for, and tried on, local backends
\* only, whichever mode chose the backend and however often the decision is made again.
OfflineStaysLocal ==
    NoNetwork(ask) =>
        /\ plan # None /\ plan.backend # None => plan.backend.location = "local"
        /\ \A i \in DOMAIN routes : routes[i].location = "local"

\* A cascade is never planned for a full ordering; its stages narrow, and none cuts
\* below what the caller asked for, so the last one can hand all of it back.
CascadeKeepsEnough ==
    plan # None /\ plan.strategy = "auto" =>
        /\ ask.topK # None
        /\ LET cuts == <<Len(ask.sizes)>> \o plan.limits
           IN  /\ \A i \in 1..(Len(cuts) - 1) : cuts[i + 1] <= cuts[i]
               /\ cuts[Len(cuts)] = Wanted(ask)

\* The routes of a stage are the eligible backends in the order of the policy, the
\* declared primary first where the policy does not tell them apart.
RoutesOrdered ==
    phase = "started" /\ ask.router # None =>
        RoutesFollowPolicy(routes, ask.router, plan.mode, ask, up)
=============================================================================

------------------------------ MODULE Ranking ------------------------------
(***************************************************************************)
(* One request after its candidates are prepared: Reranker._rerank_impl    *)
(* runs a strategy, which may be a RerankPipeline of stages; when it fails, *)
(* _fallback tries the configured policies in order; what comes out is     *)
(* assembled into the response with its status, coverage and plan.         *)
(*                                                                          *)
(* A request has one task, so the steps are sequential; the choices are     *)
(* what scoring yields and where it fails. Scores are data, and so is the   *)
(* order they give: an outcome is a set of candidates, and a cut takes any  *)
(* of them. A model call is ModelStage seen from outside: which routes      *)
(* failed and which one scored.                                             *)
(***************************************************************************)
EXTENDS Integers, Sequences, FiniteSets, FiniteSetsExt, SequencesExt

CONSTANTS
    N,            \* eligible candidates
    NRoutes,      \* the routes of the router
    ConfigBatch,  \* RerankerConfig.batch_size
    Requests,     \* plan, top_k, fallback chain and threshold of each request
    None

ASSUME RankingSizes == {N, NRoutes, ConfigBatch} \subseteq Nat \ {0}

Route == 1..NRoutes
Candidate == 1..N

(***************************************************************************)
(* The kind of a stage or strategy. "metric" is a filter, an embedding      *)
(* stage or weighted metrics; "modelMetric" is one of these with            *)
(* ModelRelevance, scored by the model; "partial" is ListwiseStrategy with  *)
(* allow_partial, in a pipeline wrapped by a stage of the user's.           *)
(***************************************************************************)
Listwise == {"listwise", "partial"}
ShownAsModel == Listwise \cup {"pointwise"}
Kind == ShownAsModel \cup {"metric", "modelMetric", "diversity", "lexical"}
Policy == {"strict", "previous_stage", "partial", "smaller_batches",
           "pointwise", "lexical", "input_order"}

\* piped: the stages are those of a RerankPipeline; otherwise the plan is one strategy.
\* Only stages with a limit attribute have one, and only listwise ones a batch size.
StageDef == [kind : Kind, limit : Nat \cup {None}, batch : Nat \cup {None}]
Request == [piped : BOOLEAN, plan : Seq(StageDef), topK : Nat \cup {None},
            chain : Seq(Policy), threshold : BOOLEAN, eligibleFn : BOOLEAN]

ASSUME RequestsAreRequests ==
    \A r \in Requests : /\ r \in Request
                        /\ r.chain # <<>> /\ IsInjective(r.chain)
                        /\ r.plan # <<>> /\ (~r.piped => Len(r.plan) = 1)

VARIABLES
    request,
    phase,       \* where _rerank_impl is
    outcome,     \* the RankingOutcome at hand, or None
    checkpoint,  \* what the PipelineStageError carries, None if it is another error
    tried,       \* the position in the fallback chain
    lastError,   \* a policy has failed too
    status,      \* the local status
    fallbacks,   \* statistics.fallbacks
    selected,    \* statistics.selected_backend
    modelRoutes, \* statistics.model_routes
    error,       \* what was raised
    response     \* what was returned, or None

statistics == <<fallbacks, selected, modelRoutes>>
result == <<error, response>>
vars == <<request, phase, outcome, checkpoint, tried, lastError, status, statistics, result>>

\* by and omitted are histories: the route that scored the stage, and how many of its
\* candidates that route declared missing.
Stage == [kind : Kind \cup {"fabricated"}, in : Nat, out : Nat,
          by : Route \cup {None}, omitted : Nat]
Outcome == [entries : SUBSET Candidate, missing : Nat, stages : Seq(Stage), rankOnly : BOOLEAN]

TypeOK ==
    /\ phase \in {"start", "ranking", "falling", "assembling", "returned", "raised"}
    /\ outcome = None \/ outcome \in Outcome
    /\ checkpoint = None \/ checkpoint \in Outcome
    /\ tried \in 1..(Len(request.chain) + 1) /\ lastError \in BOOLEAN
    /\ status \in {"ok", "noop", "fallback", "partial"}
    /\ fallbacks \in Nat /\ selected \in Route \cup {None} /\ modelRoutes \in Seq(Route)
    /\ error \in {None, "primary", "last", "refused", "value"}
    /\ response = None \/ /\ response.results \subseteq Candidate
                          /\ {response.missing, response.pruned} \subseteq Nat

Init ==
    /\ request \in Requests
    /\ phase = "start" /\ outcome = None /\ checkpoint = None
    /\ tried = 1 /\ lastError = FALSE /\ status = "ok"
    /\ fallbacks = 0 /\ selected = None /\ modelRoutes = <<>>
    /\ error = None /\ response = None

\* What a ranking cut to its first limit candidates may be.
Cuts(S, limit) ==
    IF limit = None \/ Cardinality(S) <= limit THEN {S} ELSE kSubset(limit, S)

(***************************************************************************)
(* One scoring.                                                             *)
(***************************************************************************)

\* A listwise group that is larger than its batch size is refused before any call, and
\* an empty one makes none.
Fits(s, pool) == s.kind \in Listwise /\ s.batch # None => Cardinality(pool) <= s.batch
CallsModel(s, pool) ==
    \/ s.kind \in {"pointwise", "modelMetric"}
    \/ s.kind \in Listwise /\ pool # {} /\ Fits(s, pool)

\* What a scoring does to the statistics: route fallbacks, the backend selected last,
\* the route that scored it.
NoCall == [fell |-> 0, on |-> None, scoredBy |-> None]
Scored == {[fell |-> r - 1, on |-> r, scoredBy |-> r] : r \in Route}
\* A BackendError of the last route, or a budget or deadline error of any.
Unscored == {[fell |-> r - 1, on |-> r, scoredBy |-> None] : r \in Route}

\* Faulty: a stage is recorded whether it was scored or not.
RecordedAlways(call) ==
    IF call.on = None THEN modelRoutes ELSE Append(modelRoutes, call.scoredBy)

\* _record_stage_route runs when the stage has its scores.
Recorded(call) ==
    IF call.scoredBy = None THEN modelRoutes ELSE Append(modelRoutes, call.scoredBy)

\* adopted is 1 when the outcome of a fallback policy becomes the request's.
Charge(call, adopted) ==
    /\ fallbacks' = fallbacks + call.fell + adopted
    /\ selected' = IF call.on = None THEN selected ELSE call.on
    /\ modelRoutes' = Recorded(call)

\* The candidates a scoring of pool may leave, before the cut.
ScoredOf(s, pool) == IF s.kind = "partial" THEN SUBSET pool ELSE {pool}

\* The missing_count of a stage's outcome. A diversity stage hands on the one before it,
\* filters and model stages begin anew.
Missing(s, pool, scored) ==
    CASE s.kind = "partial" -> Cardinality(pool \ scored)
      [] s.kind = "diversity" -> outcome.missing
      [] OTHER -> 0

\* s scores pool after the stages in done; limit is its own, topK cuts what is returned.
Ranks(s, pool, done, limit, topK, adopted) ==
    /\ Fits(s, pool)
    /\ \E call \in IF CallsModel(s, pool) THEN Scored ELSE {NoCall},
          scored \in ScoredOf(s, pool) :
       \E ranked \in Cuts(scored, limit) : \E entries \in Cuts(ranked, topK) :
        /\ outcome' =
             [entries |-> entries,
              missing |-> Missing(s, pool, scored),
              stages |-> Append(done, [kind |-> s.kind, in |-> Cardinality(pool),
                                       out |-> Cardinality(ranked),
                                       by |-> call.scoredBy,
                                       omitted |-> Cardinality(pool \ scored)]),
              rankOnly |-> FALSE]
        /\ Charge(call, adopted)

\* s fails with a RerankError. Lexical scoring, and MMR over scored entries, cannot.
Fails(s, pool) ==
    \E call \in IF CallsModel(s, pool) THEN Unscored ELSE {NoCall} :
        /\ s.kind \in {"metric", "modelMetric"} \/ CallsModel(s, pool) \/ ~Fits(s, pool)
        /\ Charge(call, 0)

(***************************************************************************)
(* The strategy: one of its own, or the stages of a pipeline in turn.       *)
(***************************************************************************)

\* Outcome and position in the pipeline. The survivors of a stage are its entries.
Done == IF outcome = None THEN <<>> ELSE outcome.stages
Survivors == IF outcome = None THEN Candidate ELSE outcome.entries
Current == request.plan[Len(Done) + 1]
IsLast == Len(Done) + 1 = Len(request.plan)

\* top_k = 0 returns before any work, and so does an empty list of candidates.
Start ==
    /\ phase = "start"
    /\ IF request.topK = 0
       THEN /\ phase' = "returned" /\ status' = "noop"
            /\ response' = [status |-> "noop", results |-> {}, stages |-> <<>>,
                            shown |-> <<>>, scored |-> 0, missing |-> 0, pruned |-> 0]
       ELSE phase' = "ranking" /\ UNCHANGED <<status, response>>
    /\ UNCHANGED <<request, outcome, checkpoint, tried, lastError, statistics, error>>

\* Faulty: a full order does not stop at a stage that prunes.
NeverPrunes == FALSE

\* A full order is asked for and the next stage's limit would cut it.
Prunes ==
    /\ request.piped /\ request.topK = None
    /\ Current.limit # None /\ Current.limit < Cardinality(Survivors)

\* MMR has nothing to choose from: a ValueError, which no fallback catches.
Unfounded == Current.kind = "diversity" /\ outcome = None

RunStage ==
    /\ phase = "ranking" /\ ~Prunes /\ ~Unfounded
    /\ IF request.piped
       THEN Ranks(Current, Survivors, Done, Current.limit,
                  IF IsLast THEN request.topK ELSE None, 0)
       ELSE Ranks(Current, Candidate, <<>>, request.topK, None, 0)
    /\ phase' = IF IsLast THEN "assembling" ELSE "ranking"
    /\ UNCHANGED <<request, checkpoint, tried, lastError, status, result>>

\* After a stage has succeeded the error is a PipelineStageError with its outcome.
StageFails ==
    /\ phase = "ranking" /\ ~Prunes /\ ~Unfounded
    /\ Fails(Current, Survivors)
    /\ phase' = "falling"
    /\ checkpoint' = outcome
    /\ UNCHANGED <<request, outcome, tried, lastError, status, result>>

\* The ConfigurationError is raised outside the try: there is no checkpoint.
RefusePruning ==
    /\ phase = "ranking" /\ Prunes
    /\ phase' = "falling"
    /\ UNCHANGED <<request, outcome, checkpoint, tried, lastError, status, statistics, result>>

RaiseValueError ==
    /\ phase = "ranking" /\ ~Prunes /\ Unfounded
    /\ phase' = "raised" /\ error' = "value"
    /\ UNCHANGED <<request, outcome, checkpoint, tried, lastError, status, statistics, response>>

(***************************************************************************)
(* _fallback.                                                               *)
(***************************************************************************)

Trying(policies) ==
    /\ phase = "falling" /\ tried <= Len(request.chain)
    /\ request.chain[tried] \in policies
PrimaryIsListwise == ~request.piped /\ request.plan[1].kind \in Listwise

Adopt(newStatus) ==
    /\ phase' = "assembling" /\ status' = newStatus
    /\ UNCHANGED <<request, checkpoint, tried, lastError, result>>

Raise(what) ==
    /\ phase' = "raised" /\ error' = what
    /\ UNCHANGED <<request, outcome, checkpoint, tried, lastError, status, statistics, response>>

FallbackStrict == Trying({"strict"}) /\ Raise("primary")

\* previous_stage and partial take what the stages before the failure left.
FallbackCheckpoint ==
    /\ Trying({"previous_stage", "partial"}) /\ checkpoint # None
    /\ outcome' = checkpoint
    /\ Charge(NoCall, 1)
    /\ Adopt(IF request.chain[tried] = "partial" THEN "partial" ELSE "fallback")

FallbackNotApplicable ==
    /\ \/ Trying({"previous_stage", "partial"}) /\ checkpoint = None
       \/ Trying({"smaller_batches"}) /\ ~PrimaryIsListwise
    /\ tried' = tried + 1
    /\ UNCHANGED <<request, phase, outcome, checkpoint, lastError, status, statistics, result>>

\* The strategy a policy ranks with. Half the batch size of the primary, or of the
\* configuration when it has none.
HalfBatch ==
    LET size == IF request.plan[1].batch = None THEN ConfigBatch ELSE request.plan[1].batch
    IN  IF size < 2 THEN 1 ELSE size \div 2
StrategyOf(policy) ==
    [kind |-> IF policy = "smaller_batches" THEN "listwise" ELSE policy,
     limit |-> None,
     batch |-> IF policy = "smaller_batches" THEN HalfBatch ELSE None]

\* Faulty: the fallback ranks what the failed pipeline has left.
SurvivorsAgain == Survivors

\* A fallback ranks every candidate.
FallbackPool == Candidate

FallbackRanks ==
    /\ \/ Trying({"pointwise", "lexical"})
       \/ Trying({"smaller_batches"}) /\ PrimaryIsListwise
    /\ Ranks(StrategyOf(request.chain[tried]), FallbackPool, <<>>, request.topK, None, 1)
    /\ Adopt("fallback")

FallbackFails ==
    /\ \/ Trying({"pointwise", "lexical"})
       \/ Trying({"smaller_batches"}) /\ PrimaryIsListwise
    /\ Fails(StrategyOf(request.chain[tried]), FallbackPool)
    /\ tried' = tried + 1 /\ lastError' = TRUE
    /\ UNCHANGED <<request, phase, outcome, checkpoint, status, result>>

FallbackInputOrder ==
    /\ Trying({"input_order"})
    /\ \E entries \in Cuts(Candidate, request.topK) :
        outcome' = [entries |-> entries, missing |-> 0, stages |-> <<>>, rankOnly |-> TRUE]
    /\ Charge(NoCall, 1)
    /\ Adopt("fallback")

ChainExhausted ==
    /\ phase = "falling" /\ tried > Len(request.chain)
    /\ Raise(IF lastError THEN "last" ELSE "primary")

(***************************************************************************)
(* The response.                                                            *)
(***************************************************************************)

\* A threshold needs utilities, and the candidates must still be eligible.
Refuse ==
    /\ phase = "assembling"
    /\ (request.threshold /\ outcome.rankOnly) \/ request.eligibleFn
    /\ Raise("refused")

\* Faulty: only a strategy fallback shows in the status.
StatusOfStrategy == IF outcome.missing > 0 THEN "partial" ELSE status

FinalStatus ==
    IF outcome.missing > 0 THEN "partial"
    ELSE IF fallbacks > 0 /\ status = "ok" THEN "fallback" ELSE status

\* An outcome without stages is shown as one of the selected strategy.
PlanStages(results) ==
    IF outcome.stages # <<>> THEN outcome.stages
    ELSE <<[kind |-> "fabricated", in |-> N, out |-> Cardinality(results),
            by |-> None, omitted |-> 0]>>

\* The backend the plan shows for stage i: the recorded routes are dealt out to the model
\* stages in order, a fabricated stage gets the backend selected last.
Shown(stages, i) ==
    LET turn == Cardinality({j \in 1..i : stages[j].kind \in ShownAsModel})
    IN  IF stages[i].kind = "fabricated" THEN selected
        ELSE IF stages[i].kind \in ShownAsModel /\ turn <= Len(modelRoutes)
        THEN modelRoutes[turn] ELSE None

Assemble ==
    /\ phase = "assembling"
    /\ ~(request.threshold /\ outcome.rankOnly)
    /\ \E kept \in IF request.threshold THEN SUBSET outcome.entries ELSE {outcome.entries} :
       \E results \in Cuts(kept, request.topK) :
         LET stages == PlanStages(results)
         IN  response' = [status |-> FinalStatus, results |-> results, stages |-> stages,
                          shown |-> [i \in DOMAIN stages |-> Shown(stages, i)],
                          scored |-> Last(stages).in - outcome.missing,
                          missing |-> outcome.missing,
                          pruned |-> N - Last(stages).in]
    /\ phase' = "returned"
    /\ UNCHANGED <<request, outcome, checkpoint, tried, lastError, status, statistics, error>>

Next ==
    \/ Start \/ RunStage \/ StageFails \/ RefusePruning \/ RaiseValueError
    \/ FallbackStrict \/ FallbackCheckpoint \/ FallbackNotApplicable \/ FallbackRanks
    \/ FallbackFails \/ FallbackInputOrder \/ ChainExhausted
    \/ Refuse \/ Assemble

Spec == Init /\ [][Next]_vars

(***************************************************************************)
(* Properties.                                                              *)
(***************************************************************************)

Answered == phase = "returned" /\ request.topK # 0

\* The plan a response shows is a chain: its first stage had every eligible candidate,
\* each stage had what the one before it left, and the results come from the last one.
\* That holds after a failed stage, whose checkpoint must not contain it, and after a
\* strategy fallback, which must not rank the survivors of the failed pipeline.
PlanIsChain ==
    /\ TypeOK
    /\ Answered =>
        /\ Head(response.stages).in = N
        /\ \A i \in 2..Len(response.stages) :
               response.stages[i].in = response.stages[i - 1].out
        /\ Cardinality(response.results) <= Last(response.stages).out

\* Only the last stage of the plan lets the model omit candidates.
OmitsLastOnly == \A i \in 1..(Len(request.plan) - 1) : request.plan[i].kind # "partial"

\* A response is "ok" only if every stage of the plan ran on the first route and omitted
\* nothing; whatever fell back, a route or the strategy, shows in the status. What a stage
\* before the last omits does not, see below.
OkMeansAsPlanned ==
    Answered /\ response.status = "ok" =>
        /\ [i \in DOMAIN response.stages |-> response.stages[i].kind]
             = [i \in DOMAIN request.plan |-> request.plan[i].kind]
        /\ \A i \in DOMAIN response.stages :
               /\ response.stages[i].by \in {None, 1}
               /\ OmitsLastOnly => response.stages[i].omitted = 0

\* Nothing is lost without a word. The missing count is what the backend omitted, not what
\* top_k or a threshold left out, it makes the response partial, and the results were
\* scored. A response to a request for the full order has every candidate or is partial.
\* A stage after one that omits breaks this: a filter begins the count anew and a
\* diversity stage subtracts it from its own input.
NothingLostSilently ==
    Answered /\ OmitsLastOnly =>
        /\ response.missing = Last(response.stages).omitted
        /\ response.missing > 0 => response.status = "partial"
        /\ Cardinality(response.results) <= response.scored
        /\ request.topK = None /\ ~request.threshold /\ response.status # "partial"
              => Cardinality(response.results) = N

\* The plan shows for each stage the backend that scored it. False: a filter that asks the
\* model takes a turn without being shown as a model stage, a strategy fallback is shown
\* the routes of the stages before the failure, and input order the backend that failed.
RoutesShown ==
    Answered => \A i \in DOMAIN response.stages :
        response.stages[i].kind \in ShownAsModel \cup {"fabricated"}
            => response.shown[i] = response.stages[i].by
=============================================================================

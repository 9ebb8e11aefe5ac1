----------------------------- MODULE Evaluation -----------------------------
(***************************************************************************)
(* One request seen from its data, and the case of evaluate() it may belong *)
(* to: the items are prepared, ranked by scores or by a fusion of ranked     *)
(* lists, perhaps selected for diversity one by one (the similarity function *)
(* may be awaited), cut to the response, and measured against judgments.    *)
(* Diversity is a pipeline of a scoring stage, whose limit cuts nothing, and *)
(* DiversityReranker.                                                       *)
(*                                                                          *)
(* What the scores are, whether the model leaves a candidate out, and       *)
(* whether an item is eligible are the environment's. Labels are grades,    *)
(* None where nobody judged; metric values are fractions <<n, d>>.          *)
(***************************************************************************)
EXTENDS Selection

CONSTANTS
    Asks,          \* the requests and what evaluate does with their answers
    Scores,        \* the values a score may take, parts of One
    Fusions,       \* what a user's strategy may fuse: [lists, weights, order]
    MaxCandidates, \* config.max_candidates
    Discounts      \* 1 / log2(rank + 1), or any weights that fall with the rank

Kinds == {"precision", "recall", "hit_rate", "mrr", "map", "ndcg"}
MetricDef == [kind : Kinds, k : (Nat \ {0}) \cup {None}]
Evaluated(a) == a.labels # None

ASSUME EvaluationSizes ==
    /\ Scores \subseteq 0..One
    /\ \A i, j \in DOMAIN Discounts : i < j => Discounts[i] > Discounts[j]
    /\ \A i \in DOMAIN Discounts : Discounts[i] \in Nat \ {0}

ASSUME AsksAreAsks ==
    \A a \in Asks :
        /\ a.texts \in Seq(Seq(STRING)) /\ a.topK \in Nat \cup {None}
        /\ a.truncation \in {"error", "head", "head_tail"}
        /\ a.diverse # None => a.diverse.limit \in Nat /\ a.diverse.lambda \in 0..10
        /\ a.threshold \in (0..One) \cup {None}
        \* evaluate passes no eligible_fn, and checks its own arguments.
        /\ Evaluated(a) => /\ Len(a.labels) = Len(a.texts)
                           /\ a.metrics \in (SUBSET MetricDef) \ {{}}
                           /\ \A m \in a.metrics : m.kind \notin {"mrr", "map"} => m.k # None
                           /\ ~a.filtered /\ a.topK # 0

\* reciprocal_rank_fusion refuses other lists and weights. The order it is given is the
\* positions of candidates in the input.
ASSUME FusionsAreFusions ==
    \A f \in Fusions :
        /\ f.lists \in Seq(Seq(Nat)) /\ f.weights \in [DOMAIN f.lists -> Weights]
        /\ \A i \in DOMAIN f.lists : IsInjective(f.lists[i]) /\ Len(f.lists[i]) <= MaxRank
        /\ f.order \in [DOMAIN f.order -> Nat] /\ IsInjective(f.order)
        /\ IsFiniteSet(DOMAIN f.order)

VARIABLES
    ask,
    phase,     \* how far the request, or its case, has come
    views,     \* candidate -> its text, after preparation
    score,     \* candidate -> the score the ranking gave it
    entries,   \* the outcome: candidates in order
    near,      \* max_similarity of mmr_select
    results,   \* the response
    fusion,    \* history: what was fused, None otherwise
    values     \* metric -> the value reported

vars == <<ask, phase, views, score, entries, near, results, fusion, values>>

Ended == {"noop", "answered", "measured", "failed"}
Items(a) == 1..Len(a.texts)

Init ==
    /\ ask \in Asks
    /\ phase = "asked"
    /\ views = <<>> /\ score = <<>> /\ near = <<>>
    /\ entries = <<>> /\ results = <<>>
    /\ fusion = None /\ values = <<>>

Fail == phase' = "failed" /\ UNCHANGED <<ask, views, score, entries, near, results, fusion, values>>

-----------------------------------------------------------------------------
(* evaluate, before it asks.                                                 *)

\* Faulty: a metric without a cutoff passes for one that has a small one.
WantsMoreIfLonger(m, topK) == topK # None /\ m.k # None /\ m.k > topK

\* The metric reads further than the response will go.
WantsMore(m, topK) == topK # None /\ (m.k # None => m.k > topK)

Unjudged(a) == \E i \in DOMAIN a.labels : a.labels[i] = None

BeginCase ==
    /\ phase = "asked" /\ Evaluated(ask)
    /\ \A m \in ask.metrics : ~WantsMore(m, ask.topK)
    /\ Unjudged(ask) => ask.unjudged = "zero"
    /\ phase' = "requested"
    /\ UNCHANGED <<ask, views, score, entries, near, results, fusion, values>>

RefuseCase ==
    /\ phase = "asked" /\ Evaluated(ask)
    /\ \/ \E m \in ask.metrics : WantsMore(m, ask.topK)
       \/ Unjudged(ask) /\ ask.unjudged = "error"
    /\ Fail

BeginRequest ==
    /\ phase = "asked" /\ ~Evaluated(ask) /\ ask.topK # 0
    /\ phase' = "requested"
    /\ UNCHANGED <<ask, views, score, entries, near, results, fusion, values>>

\* Nothing is asked for.
Noop ==
    /\ phase = "asked" /\ ask.topK = 0
    /\ phase' = "noop"
    /\ UNCHANGED <<ask, views, score, entries, near, results, fusion, values>>

-----------------------------------------------------------------------------
(* The request.                                                              *)

\* The error comes before or after the eligibility of others has been asked.
Unpreparable(eligible) ==
    \/ Len(ask.texts) > MaxCandidates
    \/ ask.truncation = "error" /\ \E c \in eligible : TooLong(ask.texts[c])

Prepare ==
    /\ phase = "requested"
    /\ \E eligible \in (IF ask.filtered THEN SUBSET Items(ask) ELSE {Items(ask)}) :
          IF Unpreparable(eligible) THEN Fail
          ELSE /\ views' = ViewsOf(ask.texts, eligible, ask.truncation)
               /\ phase' = IF eligible = {} THEN "answered" ELSE "prepared"
               /\ UNCHANGED <<ask, score, entries, near, results, fusion, values>>

\* A strategy that scores. One that tolerates missing candidates may get no score for some.
Rank ==
    /\ phase = "prepared"
    /\ \E scored \in (IF ask.tolerant THEN SUBSET DOMAIN views ELSE {DOMAIN views}) :
          score' \in [scored -> Scores]
    /\ IF ask.diverse = None
       THEN /\ phase' = "ranked" /\ near' = near
            /\ entries' = Cut(SortedBy(score'), ask.topK)
       ELSE /\ phase' = "selecting" /\ entries' = <<>>
            /\ near' = [c \in DOMAIN score' |-> 0]
    /\ UNCHANGED <<ask, views, results, fusion, values>>

\* A strategy of the user's that returns reciprocal_rank_fusion of some lists.
Fuse ==
    /\ phase = "prepared" /\ ask.diverse = None
    /\ \E f \in Fusions :
          /\ Listed(f.lists) \subseteq DOMAIN views
          /\ entries' = Fused(f.lists, f.weights, f.order)
          /\ fusion' = f
    /\ phase' = "ranked"
    /\ UNCHANGED <<ask, views, score, near, results, values>>

\* The pipeline refuses a stage that would cut a full ordering.
Prunes == ask.topK = None /\ ask.diverse.limit < Cardinality(DOMAIN score)
RefusePruning == phase = "selecting" /\ Prunes /\ Fail

\* mmr_select takes one more candidate; then it may wait for the similarities.
Select ==
    /\ phase = "selecting" /\ ~Prunes
    /\ Len(entries) < ask.diverse.limit /\ near # <<>>
    /\ LET best == BestOf(DOMAIN near, ask.diverse.lambda, score, near)
           left == Restrict(near, DOMAIN near \ {best})
       IN  /\ entries' = Append(entries, best)
           /\ near' = Nearer(left, views, best)
    /\ UNCHANGED <<ask, phase, views, score, results, fusion, values>>

Selected ==
    /\ phase = "selecting" /\ ~Prunes
    /\ Len(entries) >= ask.diverse.limit \/ near = <<>>
    /\ phase' = "ranked"
    /\ UNCHANGED <<ask, views, score, entries, near, results, fusion, values>>

\* eligible_fn is asked again and must not have changed its mind; a threshold needs
\* utilities. The pipeline's cut comes before the threshold.
Assemble ==
    /\ phase = "ranked"
    /\ ask.threshold # None => fusion = None
    /\ results' = Cut(SelectSeq(Cut(entries, ask.topK),
                                LAMBDA c : ask.threshold = None \/ score[c] >= ask.threshold),
                      ask.topK)
    /\ phase' = "answered"
    /\ UNCHANGED <<ask, views, score, entries, near, fusion, values>>

Refuse == phase = "ranked" /\ ((ask.threshold # None /\ fusion # None) \/ ask.filtered) /\ Fail

-----------------------------------------------------------------------------
(* The metrics, of a ranking and the labels of the case.                     *)

Grade(label) == IF label = None THEN 0 ELSE label
Relevant(labels, c) == Grade(labels[c]) > 0
Found(labels, order) == Cardinality({i \in DOMAIN order : Relevant(labels, order[i])})
Total(labels) == Found(labels, [i \in DOMAIN labels |-> i])
Ideal(labels) == SortSeq([i \in DOMAIN labels |-> Grade(labels[i])], LAMBDA x, y : x > y)

\* Faulty: the best order of what was returned.
IdealOfRanked(labels, order) ==
    SortSeq([i \in DOMAIN order |-> Grade(labels[order[i]])], LAMBDA x, y : x > y)

\* What NDCG compares with: the best order of all candidates of the case.
IdealFor(labels, order) == Ideal(labels)

Gain(grades, k) ==
    MapThenSumSet(LAMBDA r : (2 ^ grades[r] - 1) * Discounts[r], DOMAIN Cut(grades, k))

\* Common denominator of the precisions at all ranks.
Factorial(n) == FoldFunction(LAMBDA x, y : x * y, 1, [r \in 1..n |-> r])
Precisions(labels, order) ==
    MapThenSumSet(LAMBDA r : (Found(labels, SubSeq(order, 1, r)) * Factorial(Len(order))) \div r,
                  {r \in DOMAIN order : Relevant(labels, order[r])})

FirstRelevant(labels, order) == Min({r \in DOMAIN order : Relevant(labels, order[r])})

\* Zero out of something where there is nothing to find.
Value(m, order, labels) ==
    LET top == Cut(order, m.k)
        found == Found(labels, top)
        total == Total(labels)
    IN  CASE m.kind = "precision" -> <<found, m.k>>
          [] m.kind = "recall" -> IF total = 0 THEN <<0, 1>> ELSE <<found, total>>
          [] m.kind = "hit_rate" -> <<IF found > 0 THEN 1 ELSE 0, 1>>
          [] m.kind = "mrr" -> IF found = 0 THEN <<0, 1>> ELSE <<1, FirstRelevant(labels, top)>>
          [] m.kind = "map" ->
               IF total = 0 THEN <<0, 1>>
               ELSE <<Precisions(labels, top),
                      Factorial(Len(top)) * (IF m.k = None THEN total ELSE Min({total, m.k}))>>
          [] m.kind = "ndcg" ->
               IF total = 0 THEN <<0, 1>>
               ELSE <<Gain([i \in DOMAIN top |-> Grade(labels[top[i]])], m.k),
                      Gain(IdealFor(labels, order), m.k)>>

\* Faulty: a response that is long enough passes for complete.
IncompleteIfShort ==
    Len(results) < (IF ask.topK = None THEN Len(ask.labels) ELSE Min({ask.topK, Len(ask.labels)}))

\* Somebody is missing, or the response is shorter than what was asked.
Incomplete ==
    \/ DOMAIN score # DOMAIN views /\ fusion = None
    \/ Len(results) < (IF ask.topK = None THEN Len(ask.labels)
                       ELSE Min({ask.topK, Len(ask.labels)}))

Measure ==
    /\ phase = "answered" /\ Evaluated(ask)
    /\ Incomplete => ask.allowPartial
    /\ values' = [m \in ask.metrics |-> Value(m, results, ask.labels)]
    /\ phase' = "measured"
    /\ UNCHANGED <<ask, views, score, entries, near, results, fusion>>

RejectCase == phase = "answered" /\ Evaluated(ask) /\ Incomplete /\ ~ask.allowPartial /\ Fail

Next ==
    \/ BeginCase \/ RefuseCase \/ BeginRequest \/ Noop
    \/ Prepare \/ Rank \/ RefusePruning \/ Fuse \/ Select \/ Selected \/ Assemble \/ Refuse
    \/ Measure \/ RejectCase

Spec == Init /\ [][Next]_vars

-----------------------------------------------------------------------------
(* Properties.                                                               *)

\* The ranking that no limit has cut.
Whole ==
    IF fusion # None THEN entries
    ELSE IF ask.diverse = None THEN SortedBy(score)
    ELSE Greedy(DOMAIN score, ask.diverse.lambda, score, views)

(* The diversity selection, kept up one candidate at a time, is at any moment the *)
(* beginning of the greedy order of the whole pool, whose candidates are compared  *)
(* with all those before them: a limit cuts that order and does not change it. The *)
(* selection scores the response shows never rise from one rank to the next.       *)
DiverseOrder ==
    ask.diverse # None /\ score # <<>> =>
        LET Shown(i) == SelectionScore(ask.diverse.lambda, score[Whole[i]],
                                       NearestBefore(Whole, i, views, Whole[i]))
        IN  /\ Len(entries) <= ask.diverse.limit
            /\ IsPrefix(entries, Whole)
            /\ phase = "ranked" => Len(entries) = Min({ask.diverse.limit, Len(Whole)})
            /\ \A i \in 2..Len(entries) : Shown(i) <= Shown(i - 1)

\* a stands above b in every list that names b.
Agreed(f, a, b) ==
    \A i \in DOMAIN f.lists : b \in ToSet(f.lists[i]) =>
        a \in ToSet(f.lists[i]) /\ RankIn(f.lists[i], a) < RankIn(f.lists[i], b)

\* The given order has b before a.
Before(order, b, a) == b \in DOMAIN order /\ (a \in DOMAIN order => order[b] < order[a])

\* Two members of a sequence in each other's place.
Swapped(s, i, j) == [s EXCEPT ![i] = s[j], ![j] = s[i]]

(* A fusion names each listed candidate once, and contradicts lists that agree     *)
(* only by the order it is given, where rounding has made the scores equal: never  *)
(* if it is given none. If that order names every candidate, it does not matter    *)
(* which of the first two lists comes first. From the third on it may, since the   *)
(* shares are added as floats.                                                     *)
FusionFair ==
    fusion # None =>
        LET f == fusion
            S(c) == FusedScore(f.lists, f.weights, c)
        IN  /\ ToSet(entries) = Listed(f.lists) /\ IsInjective(entries)
            /\ \A a, b \in Listed(f.lists) :
                  Agreed(f, a, b) => \/ RankIn(entries, a) < RankIn(entries, b)
                                     \/ S(a) = S(b) /\ Before(f.order, b, a)
            /\ Listed(f.lists) \subseteq DOMAIN f.order /\ Len(f.lists) >= 2 =>
                  Fused(Swapped(f.lists, 1, 2), Swapped(f.weights, 1, 2), f.order) = entries

AtMost(x, y) == x[1] * y[2] <= y[1] * x[2]

(* What evaluate reports of a case it accepts as complete is the value of the     *)
(* whole ranking: neither top_k nor a threshold nor the limit of a diversity stage *)
(* has changed it, and no candidate was left out for want of a score. Every value  *)
(* lies between 0 and 1, and no metric ever prefers a ranking with a better        *)
(* candidate further down.                                                         *)
MeasuresTheRanking ==
    phase = "measured" =>
        /\ ~ask.allowPartial /\ fusion = None => ToSet(Whole) = Items(ask)
        /\ \A m \in ask.metrics :
               /\ AtMost(<<0, 1>>, values[m]) /\ AtMost(values[m], <<1, 1>>)
               /\ ~ask.allowPartial =>
                     LET whole == Value(m, Whole, ask.labels)
                     IN  AtMost(values[m], whole) /\ AtMost(whole, values[m])
               /\ \A i, j \in DOMAIN results :
                     i < j /\ Grade(ask.labels[results[j]]) > Grade(ask.labels[results[i]]) =>
                         AtMost(values[m], Value(m, Swapped(results, i, j), ask.labels))
=============================================================================

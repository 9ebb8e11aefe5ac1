----------------------------- MODULE Selection -----------------------------
(***************************************************************************)
(* The ranking data of a request, as operators: what prepare_candidates     *)
(* makes of an item's text, how an outcome is sorted, how ranked lists are  *)
(* fused by reciprocal rank, and one step of mmr_select. A candidate is the *)
(* position of its item, which its occurrence id stands for. A text is a    *)
(* sequence of words; limits on texts count words, so that no cut goes      *)
(* through one. The scores of a strategy and similarities are parts of One, *)
(* the 1.0 of the code, and exact; the scores of a fusion are rounded as    *)
(* they are added up.                                                       *)
(***************************************************************************)
EXTENDS Integers, Sequences, FiniteSets, FiniteSetsExt, SequencesExt, Functions

CONSTANTS
    One,        \* a multiple of every number of words two texts may have together
    MaxWords,   \* config.max_candidate_chars
    Float,      \* the floats that are not negative, as numbers that order as they do
    Weights,    \* the weights a fusion may be given
    MaxRank,    \* the length of the longest list that is fused
    Share,      \* <<weight, rank>> -> weight / (constant + rank), as a float
    Plus,       \* the float a sum is rounded to
    None

ASSUME SelectionSizes ==
    One \in Nat \ {0} /\ MaxWords \in Nat \ {0}

\* Division and addition round as IEEE 754 has it: they keep the order of their exact
\* results, perhaps not strictly, and addition commutes. Nothing says that it associates.
ASSUME FloatsRound ==
    /\ Float \subseteq Nat /\ 0 \in Float /\ MaxRank \in Nat
    /\ Share \in [Weights \X (1..MaxRank) -> Float]
    /\ Plus \in [Float \X Range(Share) -> Float]
    /\ \A w \in Weights : \A r, s \in 1..MaxRank : r < s => Share[<<w, s>>] <= Share[<<w, r>>]
    /\ \A x \in Range(Share) : Plus[<<0, x>>] = x
    /\ \A x, y \in Range(Share) : Plus[<<x, y>>] = Plus[<<y, x>>]
    /\ \A x \in Float, y \in Range(Share) : x <= Plus[<<x, y>>]
    /\ \A x \in Float : \A y, z \in Range(Share) : y <= z => Plus[<<x, y>>] <= Plus[<<x, z>>]
    /\ \A x, y \in Float : x <= y => \A z \in Range(Share) : Plus[<<x, z>>] <= Plus[<<y, z>>]

-----------------------------------------------------------------------------
(* Candidates.                                                               *)

TooLong(text) == Len(text) > MaxWords

\* _truncate of a text that may be cut: its head, or its head and its tail.
Truncated(text, truncation) ==
    IF ~TooLong(text) THEN text
    ELSE IF truncation = "head" THEN SubSeq(text, 1, MaxWords)
    ELSE LET left == MaxWords \div 2
         IN  SubSeq(text, 1, left) \o SubSeq(text, Len(text) - (MaxWords - left) + 1, Len(text))

\* prepare_candidates: the view of an item that is eligible.
ViewsOf(texts, eligible, truncation) ==
    [c \in eligible |-> Truncated(texts[c], truncation)]

\* Candidates by falling value, and by place where values are equal.
Ordered(value, place) ==
    CHOOSE order \in SetToSeqs(DOMAIN value) :
        \A i, j \in DOMAIN order : i < j =>
            \/ value[order[i]] > value[order[j]]
            \/ value[order[i]] = value[order[j]] /\ place[order[i]] < place[order[j]]

\* The strategies sort by score, and by position where scores are equal.
SortedBy(score) == Ordered(score, [c \in DOMAIN score |-> c])

Cut(s, k) == IF k = None THEN s ELSE SubSeq(s, 1, Min({k, Len(s)}))

-----------------------------------------------------------------------------
(* reciprocal_rank_fusion of lists of candidates, each without repetition.   *)

Listed(lists) == UNION {ToSet(lists[i]) : i \in DOMAIN lists}
RankIn(s, c) == CHOOSE r \in DOMAIN s : s[r] = c

\* What the lists give a candidate, added up in their order.
FusedScore(lists, weights, c) ==
    LET sum[n \in 0..Len(lists)] ==
            IF n = 0 THEN 0
            ELSE IF c \in ToSet(lists[n])
                 THEN Plus[<<sum[n - 1], Share[<<weights[n], RankIn(lists[n], c)>>]>>]
                 ELSE sum[n - 1]
    IN  sum[Len(lists)]

\* first_seen: the candidates as the lists, read one after the other, name them.
FirstSeen(lists) ==
    LET all == FlattenSeq(lists)
    IN  [c \in Listed(lists) |-> Min({r \in DOMAIN all : all[r] = c})]

\* Faulty: candidates of equal score stay as they were first seen.
TieOrderAsSeen(lists, inputOrder) == FirstSeen(lists)

\* What decides between equal scores: the given order, unless it is empty. Those it
\* does not name come last.
TieOrder(lists, inputOrder) ==
    LET seen == FirstSeen(lists)
    IN  IF DOMAIN inputOrder = {} THEN seen
        ELSE [c \in Listed(lists) |-> IF c \in DOMAIN inputOrder THEN inputOrder[c]
                                      ELSE Max(Range(inputOrder)) + seen[c]]

Fused(lists, weights, inputOrder) ==
    Ordered([c \in Listed(lists) |-> FusedScore(lists, weights, c)],
            TieOrder(lists, inputOrder))

-----------------------------------------------------------------------------
(* mmr_select, which keeps for every candidate not yet selected how similar  *)
(* it is to the nearest of those that are.                                   *)

\* lexical_similarity: the words in common out of all.
Similarity(x, y) ==
    LET any == ToSet(x) \cup ToSet(y)
    IN  IF any = {} THEN 0
        ELSE (One * Cardinality(ToSet(x) \cap ToSet(y))) \div Cardinality(any)

\* Relevance against nearness; lambda is in tenths, the result in tenths of One.
SelectionScore(lambda, relevance, near) == lambda * relevance - (10 - lambda) * near

\* The next candidate: the best score, the first position among equals.
BestOf(remaining, lambda, score, near) ==
    LET S(c) == SelectionScore(lambda, score[c], near[c])
    IN  CHOOSE c \in remaining :
            \A d \in remaining \ {c} : S(c) > S(d) \/ (S(c) = S(d) /\ c < d)

\* Faulty: only the candidate selected last counts.
NearerToLast(near, views, best) == [c \in DOMAIN near |-> Similarity(views[c], views[best])]

Nearer(near, views, best) ==
    [c \in DOMAIN near |-> Max({near[c], Similarity(views[c], views[best])})]

-----------------------------------------------------------------------------
(* The same selection, without increments: an order in which every candidate *)
(* is the best of those after it, against all those before it.               *)

NearestBefore(order, i, views, c) ==
    Max({0} \cup {Similarity(views[c], views[order[j]]) : j \in 1..(i - 1)})

IsGreedy(order, lambda, score, views) ==
    \A i, j \in DOMAIN order : i < j =>
        LET S(c) == SelectionScore(lambda, score[c], NearestBefore(order, i, views, c))
        IN  S(order[i]) > S(order[j]) \/ (S(order[i]) = S(order[j]) /\ order[i] < order[j])

Greedy(pool, lambda, score, views) ==
    CHOOSE order \in SetToSeqs(pool) : IsGreedy(order, lambda, score, views)
=============================================================================

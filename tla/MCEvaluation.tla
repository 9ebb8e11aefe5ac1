---------------------------- MODULE MCEvaluation ----------------------------
(***************************************************************************)
(* Requests over four short texts and over three, fusions of up to three    *)
(* lists of three, and cases of three candidates with grades of 0, 1 and 2. *)
(***************************************************************************)
EXTENDS Evaluation

MCOne == 6
MCScores == {0, 3, 6}
MCDiscounts == <<100, 63, 50, 43>>

\* Floats of seven significant bits: whole numbers below 128, the even ones from there,
\* every fourth from 256, and at the top what stands for infinity. The quotient n / d is
\* rounded to the nearest, and between two to the one that ends in a zero.
Unit(x) == CHOOSE u \in {1, 2, 4} : x < 128 * u /\ (u > 1 => x >= 64 * u)
Rounded(n, d) ==
    IF n >= 512 * d THEN 512
    ELSE LET u == Unit(n \div d)
             low == n \div (d * u)
             rest == n % (d * u)
         IN  u * (IF 2 * rest > d * u \/ (2 * rest = d * u /\ low % 2 = 1) THEN low + 1 ELSE low)

\* The constant is 60, its default, and the unit of the floats the 4096th part of 1.0.
MCWeights == 0..3
MCMaxRank == 3
MCFloat == {x \in 0..512 : Rounded(x, 1) = x}
MCShare == [p \in MCWeights \X (1..MCMaxRank) |-> Rounded(4096 * p[1], 60 + p[2])]
MCPlus == [p \in MCFloat \X Range(MCShare) |-> Rounded(p[1] + p[2], 1)]

Texts3 == <<<<"a", "b">>, <<"a", "c", "b">>, <<"c">>>>
Texts4 == <<<<"a", "b">>, <<"b", "a">>, <<"b", "c">>, <<>>>>

Plain == [texts |-> Texts3, truncation |-> "head_tail", diverse |-> None, topK |-> None,
          threshold |-> None, filtered |-> FALSE, tolerant |-> FALSE, labels |-> None,
          metrics |-> {}, unjudged |-> "error", allowPartial |-> FALSE]

Diverse(lambda) == {[limit |-> n, lambda |-> lambda] : n \in {0, 2, 3, 4}}

\* Requests that are not evaluated.
Requests ==
    {[Plain EXCEPT !.topK = k, !.threshold = t, !.filtered = TRUE, !.tolerant = TRUE,
                   !.truncation = x] :
        k \in {None, 0, 1, 2}, t \in {None, 3}, x \in {"error", "head", "head_tail"}}
    \cup {[Plain EXCEPT !.texts = <<<<"a">>, <<"b">>, <<"c">>, <<"d">>, <<"e">>>>]}
    \cup {[Plain EXCEPT !.texts = s, !.diverse = d, !.topK = k, !.truncation = x] :
             s \in {Texts3, Texts4}, d \in UNION {Diverse(l) : l \in {0, 3, 7, 10}},
             k \in {None, 2}, x \in {"head", "head_tail"}}

\* Cases of evaluate.
M(kind, k) == [kind |-> kind, k |-> k]
MetricSets ==
    {{M(kind, 1) : kind \in Kinds}, {M(kind, 2) : kind \in Kinds},
     {M("mrr", None), M("map", None)}}
Labels == {<<0, 0, 0>>, <<0, 1, 0>>, <<1, 0, 2>>, <<2, 1, 1>>, <<0, 2, 1>>, <<1, None, 0>>}

Cases ==
    {[Plain EXCEPT !.diverse = d, !.topK = k, !.threshold = t, !.tolerant = p, !.labels = l,
                   !.metrics = m, !.unjudged = u, !.allowPartial = p] :
        d \in {None} \cup {[limit |-> n, lambda |-> 5] : n \in {2, 3}}, k \in {None, 1, 2, 3},
        t \in {None, 3}, p \in BOOLEAN, l \in Labels, m \in MetricSets, u \in {"error", "zero"}}
    \* A strategy that tolerates missing scores under an evaluation that does not.
    \cup {[Plain EXCEPT !.diverse = d, !.topK = k, !.tolerant = TRUE, !.labels = <<0, 2, 1>>,
                        !.metrics = {M(kind, 1) : kind \in Kinds}] :
             d \in {None, [limit |-> 3, lambda |-> 5]}, k \in {None, 1, 2}}
    \cup {[Plain EXCEPT !.texts = <<>>, !.labels = <<>>, !.metrics = m] : m \in MetricSets}

MCAsks == Requests \cup Cases

\* Every way to list three candidates or two of them.
Lists == {<<1, 2, 3>>, <<3, 2, 1>>, <<2, 3, 1>>, <<1, 3>>, <<2>>}
InputOrder == <<1, 2, 3>>
MCFusions ==
    {[lists |-> <<x, y>>, weights |-> w, order |-> o] :
        x \in Lists, y \in Lists, w \in {<<1, 1>>, <<2, 1>>, <<0, 1>>},
        o \in {<<>>, InputOrder, <<1>>}}
    \cup {[lists |-> <<<<1, 2, 3>>, <<3, 1>>, <<2, 3, 1>>>>, weights |-> w, order |-> InputOrder] :
             w \in {<<1, 1, 1>>, <<1, 2, 3>>}}
    \* The third candidate is above the second, yet the sums of the two round to the same.
    \cup {[lists |-> <<<<3, 2, 1>>, <<1, 3, 2>>>>, weights |-> <<1, 1>>, order |-> o] :
             o \in {<<>>, InputOrder}}
    \* Every candidate has every rank once.
    \cup {[lists |-> <<<<1, 2, 3>>, <<3, 1, 2>>, <<2, 3, 1>>>>, weights |-> <<1, 1, 1>>,
           order |-> o] : o \in {<<>>, InputOrder}}
=============================================================================

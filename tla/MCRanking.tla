----------------------------- MODULE MCRanking -----------------------------
(* Small instances of Ranking for TLC. *)
EXTENDS Ranking

S(kind, limit) == [kind |-> kind, limit |-> limit, batch |-> None]
L(kind, limit, size) == [kind |-> kind, limit |-> limit, batch |-> size]

Early == {S("metric", 2), S("metric", 3), S("modelMetric", 2), S("listwise", 3),
          L("listwise", 2, 2), S("diversity", 2), S("partial", None)}
Late == Early \cup {S("pointwise", 1)}

\* All pipelines of up to three of these, and each single strategy.
Piped == {<<l>> : l \in Late} \cup {<<e, l>> : e \in Early, l \in Late}
    \cup {<<d, e, l>> : d \in Early, e \in Early, l \in Late}
Single == {<<S(k, None)>> : k \in {"metric", "modelMetric", "pointwise", "lexical", "partial"}}
    \cup {<<L("listwise", None, size)>> : size \in {None, 2, 6}}

Chains == {<<"strict">>, <<"previous_stage", "strict">>, <<"partial">>,
           <<"smaller_batches", "pointwise", "lexical">>, <<"pointwise", "input_order">>}

RequestsOf(piped, plans, topKs, chains) ==
    {[piped |-> piped, plan |-> p, topK |-> k, chain |-> c, threshold |-> t, eligibleFn |-> e] :
        p \in plans, k \in topKs, c \in chains, t \in BOOLEAN, e \in {FALSE}}

Refused ==
    [piped |-> FALSE, plan |-> <<S("lexical", None)>>, topK |-> 1, chain |-> <<"strict">>,
     threshold |-> FALSE, eligibleFn |-> TRUE]

MCRequests ==
    RequestsOf(TRUE, Piped, {None, 2}, Chains) \cup RequestsOf(FALSE, Single, {None, 0, 1}, Chains)
        \cup {Refused}

\* Two model stages, or a filter that asks the model and a model stage.
ShownRequests ==
    RequestsOf(TRUE, {<<S("modelMetric", 3), S("listwise", 3)>>, <<S("listwise", 3), S("listwise", 3)>>},
               {2}, {<<"strict">>, <<"pointwise">>})
=============================================================================

----------------------------- MODULE MCAutoPlan -----------------------------
(* Small instances of AutoPlan for TLC. *)
EXTENDS AutoPlan, TLC

Jev == [id |-> "jev", pointwise |-> TRUE, listwise |-> TRUE, location |-> "remote",
        multilingual |-> FALSE, maxBatch |-> None, maxContext |-> None, batched |-> FALSE,
        attempts |-> 2, costBound |-> FALSE, tokenBound |-> None, perQuestion |-> FALSE,
        auto |-> FALSE, overhead |-> 2, question |-> 0]
Laya == [id |-> "laya", pointwise |-> TRUE, listwise |-> TRUE, location |-> "local",
         multilingual |-> TRUE, maxBatch |-> 2, maxContext |-> 3, batched |-> TRUE,
         attempts |-> 1, costBound |-> FALSE, tokenBound |-> None, perQuestion |-> TRUE,
         auto |-> FALSE, overhead |-> 1, question |-> 1]
AutoLaya == [Laya EXCEPT !.auto = TRUE]
LayaHttp == [Laya EXCEPT !.id = "laya_http", !.location = "remote", !.attempts = 2]
\* Backends of the user's.
Lister == [Jev EXCEPT !.id = "lister", !.pointwise = FALSE, !.maxContext = 3, !.costBound = TRUE]
Batcher == [Jev EXCEPT !.id = "batcher", !.batched = TRUE, !.maxContext = 3, !.location = "unknown"]
AutoBatcher == [Batcher EXCEPT !.id = "namer", !.auto = TRUE, !.maxBatch = 2]
Unbatched == [Laya EXCEPT !.id = "unbatched", !.maxBatch = 0]
Charger == [Laya EXCEPT !.id = "charger", !.tokenBound = 6]
LocalPointer == [Jev EXCEPT !.id = "pointer", !.listwise = FALSE, !.location = "local", !.attempts = 1]

Unmeasured == [id \in {"jev", "laya", "laya_http", "lister", "batcher", "pointer"} |-> None]
R(primary, fallback, policy, measured) ==
    [primary |-> primary, fallback |-> fallback, policy |-> policy, measured |-> measured]
Routers ==
    {R(Jev, None, "availability", Unmeasured)}
    \cup {R(Jev, Laya, p, m) : p \in Policies,
             m \in {Unmeasured, [Unmeasured EXCEPT !["laya"] = 1],
                    [Unmeasured EXCEPT !["laya"] = 1, !["jev"] = 2]}}
    \cup {R(Lister, LocalPointer, p, [Unmeasured EXCEPT !["pointer"] = 1]) :
             p \in {"availability", "cost_aware"}}
    \cup {R(LocalPointer, Jev, "latency_aware", [Unmeasured EXCEPT !["pointer"] = 5, !["jev"] = 3]),
          R(Lister, Laya, "local_first", Unmeasured)}

Unlimited == [calls |-> None, tokens |-> None, cost |-> None, latency |-> None, strict |-> FALSE]
Budgets ==
    {Unlimited} \cup {[Unlimited EXCEPT !.calls = c] : c \in {0, 1, 2, 4}}
    \cup {[Unlimited EXCEPT !.tokens = t] : t \in {0, 4, 6, 9, 14}}
    \cup {[Unlimited EXCEPT !.cost = 0], [Unlimited EXCEPT !.cost = 1, !.strict = TRUE],
          [Unlimited EXCEPT !.latency = 0], [Unlimited EXCEPT !.calls = 4, !.tokens = 9]}
Configured == {Unlimited, [Unlimited EXCEPT !.calls = 3, !.strict = TRUE]}

Sizes == {<<1>>, <<3, 2>>, <<1, 2, 2>>, <<2, 1, 3, 1>>, <<1, 3, 1, 2, 1>>}
TopKs == {None, 1, 2, 7}

AsksOf(sizes, topKs, qualities, networks, budgets, configured, embedder,
       choices, languages) ==
    {[sizes |-> s, topK |-> k, quality |-> q, network |-> n, language |-> l, requested |-> b,
      configured |-> c, embedder |-> e, backend |-> x[1], router |-> x[2]] :
        s \in sizes, k \in topKs, q \in qualities, n \in networks, b \in budgets, c \in configured,
        e \in embedder, x \in choices, l \in languages}

Alone == {<<None, None>>} \cup
    {<<b, None>> : b \in {Jev, Laya, AutoLaya, LayaHttp, Lister, Batcher, Unbatched,
                           LocalPointer, Charger, AutoBatcher}}
Routed == {<<None, r>> : r \in Routers}

MCAsks ==
    AsksOf(Sizes, TopKs, {"fast", "balanced", "quality", "offline"}, {"allow"}, Budgets,
           Configured, {TRUE}, Alone, {None})
    \cup AsksOf(Sizes, {1, 2}, {"balanced", "quality"}, {"allow"}, Budgets, {Unlimited}, {FALSE},
                Alone, {None})
    \cup AsksOf(Sizes, {None, 2}, {"balanced", "offline"}, {"allow", "deny"},
                {Unlimited, [Unlimited EXCEPT !.calls = 2], [Unlimited EXCEPT !.tokens = 9]},
                {Unlimited}, {TRUE}, Routed, {"english", "other"})
=============================================================================

------------------------------ MODULE Routing ------------------------------
(***************************************************************************)
(* BackendRouter: which of two backends a model stage runs on, and in what *)
(* order the stage tries them. A backend is what the router and the plan    *)
(* read of it; its availability is asked at each call and may change, so    *)
(* it is an argument and not a field.                                       *)
(***************************************************************************)
EXTENDS Integers, Sequences, FiniteSets, SequencesExt

CONSTANT None

Mode == {"pointwise", "listwise"}
Location == {"local", "remote", "unknown"}

\* BackendCapabilities, with what the code looks up by getattr: the retry limit,
\* bounds on chargeable cost and tokens, an estimator of the context of one question;
\* and what a request takes besides its texts, once and for each candidate.
Backend == [id : STRING, pointwise : BOOLEAN, listwise : BOOLEAN, location : Location,
            multilingual : BOOLEAN, maxBatch : Nat \cup {None}, maxContext : Nat \cup {None},
            batched : BOOLEAN, attempts : Nat \ {0}, costBound : BOOLEAN,
            tokenBound : (Nat \ {0}) \cup {None}, perQuestion : BOOLEAN, auto : BOOLEAN,
            overhead : Nat, question : Nat]

Policies == {"local_first", "remote_first", "availability", "language_aware",
             "cost_aware", "latency_aware"}

\* A router has two backends or one, and measurements of some of them, by identity.
IsRouter(r) ==
    /\ r.primary \in Backend
    /\ r.fallback # None => r.fallback \in Backend /\ r.fallback.id # r.primary.id
    /\ r.policy \in Policies

Supports(b, mode) == IF mode = "pointwise" THEN b.pointwise ELSE b.listwise

\* A request that must not leave the machine.
NoNetwork(ctx) == ctx.network = "deny" \/ ctx.quality = "offline"

\* Faulty: an offline request may be routed to a remote backend.
EligibleIfNotDenied(b, mode, ctx, up) ==
    /\ Supports(b, mode)
    /\ ctx.network = "deny" => b.location = "local"
    /\ b.id \in up

Eligible(b, mode, ctx, up) ==
    /\ Supports(b, mode)
    /\ NoNetwork(ctx) => b.location = "local"
    /\ b.id \in up

Kept(b, mode, ctx, up) == IF b # None /\ Eligible(b, mode, ctx, up) THEN <<b>> ELSE <<>>

\* The eligible backends, the declared primary first.
EligibleOf(router, mode, ctx, up) ==
    Kept(router.primary, mode, ctx, up) \o Kept(router.fallback, mode, ctx, up)

\* The key choices are sorted by under a policy; a sort on it is stable.
Key(router, ctx, choices, b) ==
    CASE router.policy = "local_first" -> IF b.location = "local" THEN 0 ELSE 1
      [] router.policy = "remote_first" -> IF b.location = "remote" THEN 0 ELSE 1
      [] router.policy = "language_aware" ->
           IF ctx.language = "other" /\ ~b.multilingual THEN 1 ELSE 0
      [] router.policy \in {"cost_aware", "latency_aware"} ->
           IF \A i \in DOMAIN choices : router.measured[choices[i].id] # None
           THEN router.measured[b.id] ELSE 0
      [] router.policy = "availability" -> 0

Swapped(router, ctx, choices) ==
    /\ Len(choices) = 2
    /\ Key(router, ctx, choices, choices[2]) < Key(router, ctx, choices, choices[1])

\* Faulty: with incomplete measurements a measured backend goes first.
RoutesByAnyMeasurement(router, mode, ctx, up) ==
    LET choices == EligibleOf(router, mode, ctx, up)
        Cost(b) == IF router.measured[b.id] = None THEN 100 ELSE router.measured[b.id]
    IN  IF /\ Len(choices) = 2
           /\ IF router.policy \in {"cost_aware", "latency_aware"}
              THEN Cost(choices[2]) < Cost(choices[1])
              ELSE Swapped(router, ctx, choices)
        THEN <<choices[2], choices[1]>> ELSE choices

\* The routes of a stage; the empty sequence is the CapabilityError.
Routes(router, mode, ctx, up) ==
    LET choices == EligibleOf(router, mode, ctx, up)
    IN  IF Swapped(router, ctx, choices) THEN <<choices[2], choices[1]>> ELSE choices

-----------------------------------------------------------------------------
(* What a caller of the router relies on, stated without sorting.            *)

\* Backend a must not come after b: it is strictly better under the policy.
Better(router, ctx, all, a, b) ==
    LET measured == \A c \in all : router.measured[c.id] # None
    IN  CASE router.policy = "local_first" -> a.location = "local" /\ b.location # "local"
          [] router.policy = "remote_first" -> a.location = "remote" /\ b.location # "remote"
          [] router.policy = "language_aware" ->
               ctx.language = "other" /\ a.multilingual /\ ~b.multilingual
          [] router.policy \in {"cost_aware", "latency_aware"} ->
               measured /\ router.measured[a.id] < router.measured[b.id]
          [] router.policy = "availability" -> FALSE

\* routes holds each eligible backend once; the first is no worse than the second, and
\* the declared primary goes first unless the other is better.
RoutesFollowPolicy(routes, router, mode, ctx, up) ==
    LET all == {b \in {router.primary, router.fallback} \ {None} : Eligible(b, mode, ctx, up)}
    IN  /\ ToSet(routes) = all /\ Len(routes) = Cardinality(all)
        /\ Len(routes) = 2 =>
              routes[1] = (IF Better(router, ctx, all, router.fallback, router.primary)
                           THEN router.fallback ELSE router.primary)
=============================================================================

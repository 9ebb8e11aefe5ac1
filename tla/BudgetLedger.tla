--------------------------- MODULE BudgetLedger ---------------------------
(***************************************************************************)
(* The budget of one rerank request: BudgetLedger of _runtime/executor.py   *)
(* and the way ExecutionServices._execute_model uses it.                    *)
(*                                                                          *)
(* Many executions (one backend request each) share the ledger. Each one    *)
(* reserves the worst case of all its attempts before it starts, and then   *)
(* either reconciles the reservation with what a response reports or        *)
(* settles it after a failure. reserve, reconcile and settle_failure hold   *)
(* the ledger's lock and await nothing under it, so each is one step.       *)
(***************************************************************************)
EXTENDS Integers, FiniteSets, FiniteSetsExt

CONSTANTS
    Exec,          \* the executions of the request that may ever be started
    MaxAttempts,   \* RetryConfig.max_attempts, the calls one execution reserves
    MaxCalls,      \* Budget.max_model_calls, or None
    MaxTokens,     \* Budget.max_tokens, or None
    MaxCost,       \* Budget.max_cost_usd in a fixed unit, or None
    StrictCost,    \* Budget.strict_cost
    HasDeadline,   \* Budget.max_latency_ms is not None
    Estimates,     \* per-attempt estimates: [tokens, cost], the cost may be None
    Reports,       \* usage a response reports: [tokens, cost], each may be None
    None           \* Python's None

Limit == Nat \cup {None}

ASSUME ExecFinite == IsFiniteSet(Exec)
ASSUME NoneNotANumber == None \notin Int
ASSUME AttemptsPositive == MaxAttempts \in Nat \ {0}
ASSUME LimitsTyped == MaxCalls \in Limit /\ MaxTokens \in Limit /\ MaxCost \in Limit
ASSUME FlagsTyped == StrictCost \in BOOLEAN /\ HasDeadline \in BOOLEAN
ASSUME EstimatesTyped == Estimates \subseteq [tokens : Nat \ {0}, cost : Limit]
ASSUME ReportsTyped == Reports \subseteq [tokens : Limit, cost : Limit]

VARIABLES
    ledger,    \* the totals: [calls, tokens, cost]
    phase,     \* where each execution stands with the ledger
    estimate,  \* the per-attempt estimate an execution reserved with
    booked,    \* history: what each execution contributes to the totals now
    expired    \* the monotonic clock has passed the ledger's deadline

vars == <<ledger, phase, estimate, booked, expired>>

\* "overrun" is an execution whose reconcile raised after it had booked usage.
Phase == {"new", "reserved", "settled", "overrun", "refused"}
Totals == [calls : Int, tokens : Int, cost : Int]
Nothing == [calls |-> 0, tokens |-> 0, cost |-> 0]

TypeOK ==
    /\ ledger \in Totals
    /\ phase \in [Exec -> Phase]
    /\ estimate \in [Exec -> Estimates \cup {None}]
    /\ booked \in [Exec -> Totals]
    /\ expired \in BOOLEAN
    /\ expired => HasDeadline
    /\ \A e \in Exec : phase[e] = "reserved" => estimate[e] \in Estimates

(***************************************************************************)
(* The arithmetic of the ledger.                                            *)
(***************************************************************************)

Plus(l, d) == [calls  |-> l.calls + d.calls,
               tokens |-> l.tokens + d.tokens,
               cost   |-> l.cost + d.cost]

Minus(l, d) == [calls  |-> l.calls - d.calls,
                tokens |-> l.tokens - d.tokens,
                cost   |-> l.cost - d.cost]

\* An unpriced amount is left out of the cost total.
Priced(cost) == IF cost = None THEN 0 ELSE cost

Within(n, limit) == limit # None => n <= limit

\* What n attempts are estimated to use.
Allowance(est, n) == [calls  |-> n,
                      tokens |-> est.tokens * n,
                      cost   |-> Priced(est.cost) * n]

\* What a response with n attempts books: its report where it has one, and
\* the estimate of the attempts made where it has not.
Usage(est, n, report) ==
    [calls  |-> n,
     tokens |-> IF report.tokens # None THEN report.tokens ELSE est.tokens * n,
     cost   |-> IF report.cost # None THEN report.cost ELSE Priced(est.cost) * n]

\* Faulty: leaves the call limit to the first attempt alone.
AdmitsOneAttempt(l, est) ==
    /\ ~expired
    /\ Within(l.calls + 1, MaxCalls)
    /\ Within(l.tokens + est.tokens * MaxAttempts, MaxTokens)

\* Faulty: lets an execution without a price into a strict cost budget.
AdmitsUnpriced(l, est) ==
    LET after == Plus(l, Allowance(est, MaxAttempts))
    IN  /\ ~expired
        /\ Within(after.calls, MaxCalls)
        /\ Within(after.tokens, MaxTokens)
        /\ MaxCost # None => after.cost <= MaxCost

\* The checks of reserve, in one predicate. A strict cost budget admits no
\* execution whose price has no upper bound.
Admits(l, est) ==
    LET after == Plus(l, Allowance(est, MaxAttempts))
    IN  /\ ~expired
        /\ Within(after.calls, MaxCalls)
        /\ Within(after.tokens, MaxTokens)
        /\ MaxCost # None =>
              IF est.cost = None THEN ~StrictCost ELSE after.cost <= MaxCost

\* The totals after reserve.
Reserved(l, est) == Plus(l, Allowance(est, MaxAttempts))

\* The totals after reconcile: the reservation is replaced by the usage.
Reconciled(l, est, n, report) ==
    Plus(Minus(l, Allowance(est, MaxAttempts)), Usage(est, n, report))

\* Faulty: returns the unused calls and keeps their tokens and cost.
SettledCallsOnly(l, est, n) == [l EXCEPT !.calls = l.calls + n - MaxAttempts]

\* The totals after settle_failure: unused retries are released.
Settled(l, est, n) == Plus(Minus(l, Allowance(est, MaxAttempts)), Allowance(est, n))

\* Faulty: looks at the tokens alone.
RaisesOnTokens(l, est, report) == ~Within(l.tokens, MaxTokens)

\* The checks of reconcile, on the totals it has just updated.
Raises(l, est, report) ==
    \/ ~Within(l.tokens, MaxTokens)
    \/ ~Within(l.cost, MaxCost)
    \/ MaxCost # None /\ StrictCost /\ est.cost = None /\ report.cost = None

(***************************************************************************)
(* The steps.                                                               *)
(***************************************************************************)

Init ==
    /\ ledger = Nothing
    /\ phase = [e \in Exec |-> "new"]
    /\ estimate = [e \in Exec |-> None]
    /\ booked = [e \in Exec |-> Nothing]
    /\ expired = FALSE

\* _execute_model prices the request and reserve admits it.
Reserve(e) ==
    /\ phase[e] = "new"
    /\ \E est \in Estimates :
          /\ Admits(ledger, est)
          /\ ledger' = Reserved(ledger, est)
          /\ estimate' = [estimate EXCEPT ![e] = est]
          /\ booked' = [booked EXCEPT ![e] = Allowance(est, MaxAttempts)]
    /\ phase' = [phase EXCEPT ![e] = "reserved"]
    /\ UNCHANGED expired

\* reserve raises before it changes a total.
Refuse(e) ==
    /\ phase[e] = "new"
    /\ \E est \in Estimates : ~Admits(ledger, est)
    /\ phase' = [phase EXCEPT ![e] = "refused"]
    /\ UNCHANGED <<ledger, estimate, booked, expired>>

\* A response arrived after n attempts. The totals are updated before the
\* limits are checked, so an execution that raises has still booked its usage.
Reconcile(e, n, report) ==
    /\ phase[e] = "reserved"
    /\ ledger' = Reconciled(ledger, estimate[e], n, report)
    /\ booked' = [booked EXCEPT ![e] = Usage(estimate[e], n, report)]
    /\ phase' = [phase EXCEPT ![e] = IF Raises(ledger', estimate[e], report)
                                     THEN "overrun" ELSE "settled"]
    /\ UNCHANGED <<estimate, expired>>

\* The execution failed, timed out or was cancelled; n attempts are charged.
SettleFailure(e, n) ==
    /\ phase[e] = "reserved"
    /\ ledger' = Settled(ledger, estimate[e], n)
    /\ booked' = [booked EXCEPT ![e] = Allowance(estimate[e], n)]
    /\ phase' = [phase EXCEPT ![e] = "settled"]
    /\ UNCHANGED <<estimate, expired>>

\* time.monotonic() reaches the deadline.
Expire ==
    /\ HasDeadline /\ ~expired
    /\ expired' = TRUE
    /\ UNCHANGED <<ledger, phase, estimate, booked>>

Next ==
    \/ \E e \in Exec :
          \/ Reserve(e)
          \/ Refuse(e)
          \/ \E n \in 1..MaxAttempts, report \in Reports : Reconcile(e, n, report)
          \/ \E n \in 0..MaxAttempts : SettleFailure(e, n)
    \/ Expire

Spec == Init /\ [][Next]_vars

(***************************************************************************)
(* Properties.                                                              *)
(***************************************************************************)

\* However the executions interleave, the calls the ledger counts never pass
\* max_model_calls: reserve takes the worst case and the two settling calls
\* only give back.
CallsWithinBudget == Within(ledger.calls, MaxCalls)

\* The incremental updates of reserve, reconcile and settle_failure keep each
\* total equal to the sum of what the executions hold or have used. No order
\* of settlements leaks a reservation or releases one twice.
Balanced ==
    /\ ledger.calls  = MapThenSumSet(LAMBDA e : booked[e].calls, Exec)
    /\ ledger.tokens = MapThenSumSet(LAMBDA e : booked[e].tokens, Exec)
    /\ ledger.cost   = MapThenSumSet(LAMBDA e : booked[e].cost, Exec)

\* A token or cost total above its limit has raised BudgetExceededError in the
\* reconcile of some execution: later failures and later small responses cannot
\* leave the request over budget with every call reported as a success.
OverrunIsRaised ==
    ~(Within(ledger.tokens, MaxTokens) /\ Within(ledger.cost, MaxCost))
        => \E e \in Exec : phase[e] = "overrun"

\* What an execution has used stays within what it reserved.
AsEstimated(e) ==
    phase[e] \in {"settled", "overrun"} =>
        /\ booked[e].tokens <= Allowance(estimate[e], MaxAttempts).tokens
        /\ booked[e].cost <= Allowance(estimate[e], MaxAttempts).cost

\* As long as no response reported more than was reserved for it, the token
\* and cost totals never pass their limits, even between two settlements.
WithinWhenAsEstimated ==
    (\A e \in Exec : AsEstimated(e)) =>
        /\ Within(ledger.tokens, MaxTokens)
        /\ Within(ledger.cost, MaxCost)

\* reconcile raises only when a total really is over its limit. Under a strict
\* cost budget its third check, usage of unknown price, is never what raises:
\* reserve has admitted only executions with a price.
RaisesOnlyOverLimit ==
    [][\A e \in Exec : phase[e] = "reserved" /\ phase'[e] = "overrun" =>
          \/ ~Within(ledger'.tokens, MaxTokens)
          \/ ~Within(ledger'.cost, MaxCost)]_vars

\* Both ways: what is over a limit has been raised, and what was raised was over
\* a limit.
RaisedWhenOver == []OverrunIsRaised /\ RaisesOnlyOverLimit
=============================================================================

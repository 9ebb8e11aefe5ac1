------------------------ MODULE BudgetLedgerProofs ------------------------
(***************************************************************************)
(* Theorems about BudgetLedger, for every set of executions, every limit    *)
(* and every usage a provider may report.                                   *)
(***************************************************************************)
EXTENDS BudgetLedger, FiniteSetTheorems, WellFoundedInduction, TLAPS

LEMMA LimitFacts == Limit \ {None} = Nat /\ Limit \subseteq Int \cup {None}
BY NoneNotANumber DEF Limit

\* A longer run of attempts is never estimated to use less.
LEMMA ProductMonotone ==
    ASSUME NEW t \in Nat, NEW m \in Nat, NEW n \in 0..m
    PROVE  t * n \in Nat /\ t * n <= t * m
<1>1. PICK d \in Nat : m = n + d
  BY SMT
<1>2. t * m = t * n + t * d
  BY <1>1, SMT
<1>3. t * n \in Nat /\ t * d \in Nat
  BY <1>1, SMT
<1>4. QED
  BY <1>2, <1>3, SMT

LEMMA AllowanceType ==
    ASSUME NEW est \in Estimates, NEW n \in 0..MaxAttempts
    PROVE  /\ Allowance(est, n) \in [calls : Nat, tokens : Nat, cost : Nat]
           /\ Allowance(est, n).calls = n
           /\ Allowance(est, n).calls <= Allowance(est, MaxAttempts).calls
           /\ Allowance(est, n).tokens <= Allowance(est, MaxAttempts).tokens
           /\ Allowance(est, n).cost <= Allowance(est, MaxAttempts).cost
<1>1. est.tokens \in Nat /\ Priced(est.cost) \in Nat
  BY EstimatesTyped, NoneNotANumber DEF Limit, Priced
<1>2. MaxAttempts \in Nat /\ n \in Nat /\ n <= MaxAttempts
  BY AttemptsPositive
<1>3. est.tokens * n \in Nat /\ est.tokens * n <= est.tokens * MaxAttempts
  BY <1>1, <1>2, ProductMonotone
<1>4. Priced(est.cost) * n \in Nat /\ Priced(est.cost) * n <= Priced(est.cost) * MaxAttempts
  BY <1>1, <1>2, ProductMonotone
<1>5. QED
  BY <1>2, <1>3, <1>4 DEF Allowance

LEMMA UsageType ==
    ASSUME NEW est \in Estimates, NEW n \in 1..MaxAttempts, NEW report \in Reports
    PROVE  /\ Usage(est, n, report) \in [calls : Nat, tokens : Nat, cost : Nat]
           /\ Usage(est, n, report).calls = n
<1>1. report.tokens \in Limit /\ report.cost \in Limit
  BY ReportsTyped
<1>2. Allowance(est, n) \in [calls : Nat, tokens : Nat, cost : Nat]
  BY AllowanceType, AttemptsPositive
<1>3. est.tokens * n \in Nat /\ Priced(est.cost) * n \in Nat
  BY <1>2 DEF Allowance
<1>4. QED
  BY <1>1, <1>3, AttemptsPositive DEF Usage, Limit

LEMMA TotalsType ==
    ASSUME NEW l \in Totals, NEW d \in Totals
    PROVE  Plus(l, d) \in Totals /\ Minus(l, d) \in Totals
BY DEF Totals, Plus, Minus

\* The ledger and the bookkeeping about its executions are well typed.
THEOREM TypeCorrect == Spec => []TypeOK
<1>1. Init => TypeOK
  <2> SUFFICES ASSUME Init PROVE TypeOK
    OBVIOUS
  <2>1. Nothing \in Totals
    BY DEF Nothing, Totals
  <2>2. ledger \in Totals /\ booked \in [Exec -> Totals]
    BY <2>1 DEF Init
  <2>3. phase \in [Exec -> Phase] /\ \A e \in Exec : phase[e] # "reserved"
    BY DEF Init, Phase
  <2>4. estimate \in [Exec -> Estimates \cup {None}]
    BY DEF Init
  <2>5. expired \in BOOLEAN /\ (expired => HasDeadline)
    BY DEF Init
  <2>6. QED
    BY <2>2, <2>3, <2>4, <2>5 DEF TypeOK
<1>2. TypeOK /\ [Next]_vars => TypeOK'
  <2> SUFFICES ASSUME TypeOK, [Next]_vars PROVE TypeOK'
    OBVIOUS
  <2> USE DEF TypeOK
  <2>0. Phase = {"new", "reserved", "settled", "overrun", "refused"}
    BY DEF Phase
  <2>a. \A est \in Estimates, n \in 0..MaxAttempts : Allowance(est, n) \in Totals
    BY AllowanceType DEF Totals
  <2>b. MaxAttempts \in 0..MaxAttempts
    BY AttemptsPositive
  <2>1. ASSUME NEW e \in Exec, Reserve(e) PROVE TypeOK'
    <3>1. PICK est \in Estimates :
             /\ ledger' = Reserved(ledger, est)
             /\ estimate' = [estimate EXCEPT ![e] = est]
             /\ booked' = [booked EXCEPT ![e] = Allowance(est, MaxAttempts)]
      BY <2>1 DEF Reserve
    <3>2. Allowance(est, MaxAttempts) \in Totals
      BY <2>a, <2>b
    <3>3. ledger' \in Totals
      BY <3>1, <3>2, TotalsType DEF Reserved
    <3>4. QED
      BY <2>0, <2>1, <3>1, <3>2, <3>3 DEF Reserve
  <2>2. ASSUME NEW e \in Exec, Refuse(e) PROVE TypeOK'
    BY <2>0, <2>2 DEF Refuse
  <2>3. ASSUME NEW e \in Exec, NEW n \in 1..MaxAttempts, NEW report \in Reports,
               Reconcile(e, n, report)
        PROVE  TypeOK'
    <3>1. estimate[e] \in Estimates
      BY <2>3 DEF Reconcile
    <3>2. Usage(estimate[e], n, report) \in Totals
      BY <3>1, UsageType DEF Totals
    <3>3. Minus(ledger, Allowance(estimate[e], MaxAttempts)) \in Totals
      BY <3>1, <2>a, <2>b, TotalsType
    <3>4. ledger' \in Totals
      BY <2>3, <3>2, <3>3, TotalsType DEF Reconcile, Reconciled
    <3>5. phase' \in [Exec -> Phase] /\ \A f \in Exec : phase'[f] = "reserved" => phase[f] = "reserved"
      BY <2>0, <2>3 DEF Reconcile
    <3>6. QED
      BY <2>3, <3>2, <3>4, <3>5 DEF Reconcile
  <2>4. ASSUME NEW e \in Exec, NEW n \in 0..MaxAttempts, SettleFailure(e, n)
        PROVE  TypeOK'
    <3>1. estimate[e] \in Estimates
      BY <2>4 DEF SettleFailure
    <3>2. Allowance(estimate[e], n) \in Totals
      BY <3>1, <2>a
    <3>3. Minus(ledger, Allowance(estimate[e], MaxAttempts)) \in Totals
      BY <3>1, <2>a, <2>b, TotalsType
    <3>4. ledger' \in Totals
      BY <2>4, <3>2, <3>3, TotalsType DEF SettleFailure, Settled
    <3>5. QED
      BY <2>0, <2>4, <3>2, <3>4 DEF SettleFailure
  <2>5. CASE Expire
    BY <2>5 DEF Expire
  <2>6. CASE UNCHANGED vars
    BY <2>6 DEF vars
  <2>7. QED
    BY <2>1, <2>2, <2>3, <2>4, <2>5, <2>6 DEF Next
<1>3. QED
  BY <1>1, <1>2, PTL DEF Spec

----------------------------------------------------------------------------

\* What a settlement or a response books for calls is at most what was reserved.
LEMMA CallsOnlyReturned ==
    ASSUME TypeOK, NEW e \in Exec,
           \/ \E n \in 1..MaxAttempts, report \in Reports : Reconcile(e, n, report)
           \/ \E n \in 0..MaxAttempts : SettleFailure(e, n)
    PROVE  ledger'.calls \in Int /\ ledger'.calls <= ledger.calls
<1>0. ledger.calls \in Int /\ MaxAttempts \in Nat /\ MaxAttempts \in 0..MaxAttempts
  BY AttemptsPositive DEF TypeOK, Totals
<1>1. ASSUME NEW n \in 1..MaxAttempts, NEW report \in Reports, Reconcile(e, n, report)
      PROVE  ledger'.calls \in Int /\ ledger'.calls <= ledger.calls
  <2>1. estimate[e] \in Estimates
    BY <1>1 DEF TypeOK, Reconcile
  <2>2. Allowance(estimate[e], MaxAttempts).calls = MaxAttempts
    BY <1>0, <2>1, AllowanceType
  <2>3. Usage(estimate[e], n, report).calls = n
    BY <2>1, UsageType
  <2>4. ledger'.calls = ledger.calls - MaxAttempts + n
    BY <1>1, <2>2, <2>3 DEF Reconcile, Reconciled, Plus, Minus
  <2>5. QED
    BY <1>0, <2>4
<1>2. ASSUME NEW n \in 0..MaxAttempts, SettleFailure(e, n)
      PROVE  ledger'.calls \in Int /\ ledger'.calls <= ledger.calls
  <2>1. estimate[e] \in Estimates
    BY <1>2 DEF TypeOK, SettleFailure
  <2>2. /\ Allowance(estimate[e], MaxAttempts).calls = MaxAttempts
        /\ Allowance(estimate[e], n).calls = n
    BY <1>0, <2>1, AllowanceType
  <2>3. ledger'.calls = ledger.calls - MaxAttempts + n
    BY <1>2, <2>2 DEF SettleFailure, Settled, Plus, Minus
  <2>4. QED
    BY <1>0, <2>3
<1>3. QED
  BY <1>1, <1>2

\* The call count of the ledger never passes max_model_calls.
THEOREM CallsStayWithinBudget == Spec => []CallsWithinBudget
<1>1. Init => CallsWithinBudget
  BY LimitFacts, LimitsTyped DEF Init, CallsWithinBudget, Within, Nothing
<1>2. TypeOK /\ CallsWithinBudget /\ [Next]_vars => CallsWithinBudget'
  <2> SUFFICES ASSUME TypeOK, CallsWithinBudget, [Next]_vars, MaxCalls # None
               PROVE  ledger'.calls <= MaxCalls
    BY DEF CallsWithinBudget, Within
  <2>0. ledger.calls \in Int /\ ledger.calls <= MaxCalls /\ MaxCalls \in Int
    BY LimitsTyped, LimitFacts DEF TypeOK, Totals, CallsWithinBudget, Within
  <2>1. ASSUME NEW e \in Exec, Reserve(e) PROVE ledger'.calls <= MaxCalls
    BY <2>1 DEF Reserve, Admits, Reserved, Within
  <2>2. ASSUME NEW e \in Exec,
               \/ \E n \in 1..MaxAttempts, report \in Reports : Reconcile(e, n, report)
               \/ \E n \in 0..MaxAttempts : SettleFailure(e, n)
        PROVE  ledger'.calls <= MaxCalls
    BY <2>0, <2>2, CallsOnlyReturned
  <2>3. ASSUME NEW e \in Exec, Refuse(e) PROVE ledger'.calls <= MaxCalls
    BY <2>0, <2>3 DEF Refuse
  <2>4. CASE Expire \/ UNCHANGED vars
    BY <2>0, <2>4 DEF Expire, vars
  <2>5. QED
    BY <2>1, <2>2, <2>3, <2>4 DEF Next
<1>3. QED
  BY <1>1, <1>2, TypeCorrect, PTL DEF Spec

----------------------------------------------------------------------------

Over(l) == ~(Within(l.tokens, MaxTokens) /\ Within(l.cost, MaxCost))

\* A smaller total is within a limit that a larger one is within.
LEMMA WithinIsDownward ==
    ASSUME NEW limit \in Limit, NEW a \in Int, NEW b \in Int, a <= b, Within(b, limit)
    PROVE  Within(a, limit)
BY LimitFacts DEF Within

\* settle_failure gives back tokens and cost, and never takes any.
LEMMA SettlementReturns ==
    ASSUME TypeOK, NEW e \in Exec, NEW n \in 0..MaxAttempts, SettleFailure(e, n)
    PROVE  ledger'.tokens <= ledger.tokens /\ ledger'.cost <= ledger.cost
<1>0. MaxAttempts \in 0..MaxAttempts
  BY AttemptsPositive
<1>1. estimate[e] \in Estimates
  BY DEF TypeOK, SettleFailure
<1>2. /\ Allowance(estimate[e], n) \in [calls : Nat, tokens : Nat, cost : Nat]
      /\ Allowance(estimate[e], n).tokens <= Allowance(estimate[e], MaxAttempts).tokens
      /\ Allowance(estimate[e], n).cost <= Allowance(estimate[e], MaxAttempts).cost
  BY <1>1, AllowanceType
<1>3. Allowance(estimate[e], MaxAttempts) \in [calls : Nat, tokens : Nat, cost : Nat]
  BY <1>0, <1>1, AllowanceType
<1>4. /\ ledger'.tokens = ledger.tokens - Allowance(estimate[e], MaxAttempts).tokens
                           + Allowance(estimate[e], n).tokens
      /\ ledger'.cost = ledger.cost - Allowance(estimate[e], MaxAttempts).cost
                         + Allowance(estimate[e], n).cost
  BY DEF SettleFailure, Settled, Plus, Minus
<1>5. ledger.tokens \in Int /\ ledger.cost \in Int
  BY DEF TypeOK, Totals
<1>6. QED
  BY <1>2, <1>3, <1>4, <1>5

\* After an admission a total is within its limit, or is the cost total and is
\* what it was.
LEMMA AdmissionStaysWithin ==
    ASSUME TypeOK, NEW e \in Exec, Reserve(e)
    PROVE  /\ Within(ledger'.tokens, MaxTokens)
           /\ Within(ledger'.cost, MaxCost) \/ ledger'.cost = ledger.cost
<1>1. PICK est \in Estimates : Admits(ledger, est) /\ ledger' = Reserved(ledger, est)
  BY DEF Reserve
<1>2. Within(ledger'.tokens, MaxTokens)
  BY <1>1 DEF Admits, Reserved
<1>3. CASE est.cost = None
  <2>1. Allowance(est, MaxAttempts).cost = 0
    BY <1>3, AttemptsPositive DEF Allowance, Priced
  <2>2. ledger'.cost = ledger.cost
    BY <1>1, <2>1 DEF Reserved, Plus, TypeOK, Totals
  <2>3. QED
    BY <1>2, <2>2
<1>4. CASE est.cost # None
  BY <1>1, <1>2, <1>4 DEF Admits, Reserved, Within
<1>5. QED
  BY <1>3, <1>4

\* A request over its token or cost limit has raised in some execution.
THEOREM OverrunsAreRaised == Spec => []OverrunIsRaised
<1>1. Init => OverrunIsRaised
  BY LimitFacts, LimitsTyped DEF Init, OverrunIsRaised, Within, Nothing
<1>2. TypeOK /\ TypeOK' /\ OverrunIsRaised /\ [Next]_vars => OverrunIsRaised'
  <2> SUFFICES ASSUME TypeOK, TypeOK', OverrunIsRaised, [Next]_vars, Over(ledger')
               PROVE  \E e \in Exec : phase'[e] = "overrun"
    BY DEF OverrunIsRaised, Over
  <2>0. /\ ledger.tokens \in Int /\ ledger.cost \in Int
        /\ ledger'.tokens \in Int /\ ledger'.cost \in Int
        /\ phase \in [Exec -> Phase]
    BY DEF TypeOK, Totals
  <2>a. Over(ledger) => \E e \in Exec : phase[e] = "overrun"
    BY DEF OverrunIsRaised, Over
  <2>1. ASSUME NEW e \in Exec, Reserve(e) PROVE \E f \in Exec : phase'[f] = "overrun"
    <3>1. Over(ledger)
      BY <2>1, AdmissionStaysWithin DEF Over
    <3>2. PICK f \in Exec : phase[f] = "overrun"
      BY <2>a, <3>1
    <3>3. phase'[f] = "overrun"
      BY <2>0, <2>1, <3>2 DEF Reserve
    <3>4. QED
      BY <3>3
  <2>2. ASSUME NEW e \in Exec, Refuse(e) PROVE \E f \in Exec : phase'[f] = "overrun"
    <3>1. PICK f \in Exec : phase[f] = "overrun"
      BY <2>a, <2>2 DEF Refuse
    <3>2. phase'[f] = "overrun"
      BY <2>0, <2>2, <3>1 DEF Refuse
    <3>3. QED
      BY <3>2
  <2>3. ASSUME NEW e \in Exec, NEW n \in 1..MaxAttempts, NEW report \in Reports,
               Reconcile(e, n, report)
        PROVE  \E f \in Exec : phase'[f] = "overrun"
    <3>1. Raises(ledger', estimate[e], report)
      BY DEF Raises, Over
    <3>2. phase'[e] = "overrun"
      BY <2>0, <2>3, <3>1 DEF Reconcile
    <3>3. QED
      BY <3>2
  <2>4. ASSUME NEW e \in Exec, NEW n \in 0..MaxAttempts, SettleFailure(e, n)
        PROVE  \E f \in Exec : phase'[f] = "overrun"
    <3>1. ledger'.tokens <= ledger.tokens /\ ledger'.cost <= ledger.cost
      BY <2>4, SettlementReturns
    <3>2. Over(ledger)
      BY <2>0, <3>1, WithinIsDownward, LimitsTyped DEF Over
    <3>3. PICK f \in Exec : phase[f] = "overrun"
      BY <2>a, <3>2
    <3>4. phase'[f] = "overrun"
      BY <2>0, <2>4, <3>3 DEF SettleFailure
    <3>5. QED
      BY <3>4
  <2>5. CASE Expire \/ UNCHANGED vars
    BY <2>5, <2>a DEF Expire, vars
  <2>6. QED
    BY <2>1, <2>2, <2>3, <2>4, <2>5 DEF Next
<1>3. QED
  BY <1>1, <1>2, TypeCorrect, PTL DEF Spec

----------------------------------------------------------------------------

\* As long as responses use no more than was reserved for them, the token and
\* cost totals stay within their limits.
THEOREM WithinWhileAsEstimated == Spec => []WithinWhenAsEstimated
<1>1. Init => WithinWhenAsEstimated
  BY LimitFacts, LimitsTyped DEF Init, WithinWhenAsEstimated, Within, Nothing
<1>2. TypeOK /\ TypeOK' /\ WithinWhenAsEstimated /\ [Next]_vars => WithinWhenAsEstimated'
  <2> SUFFICES ASSUME TypeOK, TypeOK', WithinWhenAsEstimated, [Next]_vars,
                      \A f \in Exec : AsEstimated(f)'
               PROVE  Within(ledger'.tokens, MaxTokens) /\ Within(ledger'.cost, MaxCost)
    BY DEF WithinWhenAsEstimated
  <2>0. /\ ledger.tokens \in Int /\ ledger.cost \in Int
        /\ ledger'.tokens \in Int /\ ledger'.cost \in Int
        /\ phase \in [Exec -> Phase]
        /\ estimate \in [Exec -> Estimates \cup {None}]
        /\ booked \in [Exec -> Totals]
    BY DEF TypeOK, Totals
  <2>a. ASSUME \A f \in Exec : AsEstimated(f)
        PROVE  Within(ledger.tokens, MaxTokens) /\ Within(ledger.cost, MaxCost)
    BY <2>a DEF WithinWhenAsEstimated
  \* Nothing changes for the executions that take no part in the step.
  <2>b. ASSUME NEW e \in Exec, phase[e] \in {"new", "reserved"},
               \A f \in Exec \ {e} : /\ phase'[f] = phase[f]
                                     /\ estimate'[f] = estimate[f]
                                     /\ booked'[f] = booked[f]
        PROVE  Within(ledger.tokens, MaxTokens) /\ Within(ledger.cost, MaxCost)
    <3>1. \A f \in Exec \ {e} : AsEstimated(f)
      BY <2>b DEF AsEstimated
    <3>2. AsEstimated(e)
      BY <2>b DEF AsEstimated
    <3>3. QED
      BY <2>a, <3>1, <3>2
  <2>1. ASSUME NEW e \in Exec, Reserve(e)
        PROVE  Within(ledger'.tokens, MaxTokens) /\ Within(ledger'.cost, MaxCost)
    <3>1. Within(ledger.cost, MaxCost)
      BY <2>0, <2>1, <2>b DEF Reserve
    <3>2. QED
      BY <2>1, <3>1, AdmissionStaysWithin
  <2>2. ASSUME NEW e \in Exec, Refuse(e)
        PROVE  Within(ledger'.tokens, MaxTokens) /\ Within(ledger'.cost, MaxCost)
    BY <2>0, <2>2, <2>b DEF Refuse
  <2>3. ASSUME NEW e \in Exec, NEW n \in 1..MaxAttempts, NEW report \in Reports,
               Reconcile(e, n, report)
        PROVE  Within(ledger'.tokens, MaxTokens) /\ Within(ledger'.cost, MaxCost)
    <3>1. Within(ledger.tokens, MaxTokens) /\ Within(ledger.cost, MaxCost)
      BY <2>0, <2>3, <2>b DEF Reconcile
    <3>2. /\ estimate[e] \in Estimates
          /\ estimate'[e] = estimate[e]
          /\ booked'[e] = Usage(estimate[e], n, report)
          /\ phase'[e] \in {"settled", "overrun"}
      BY <2>0, <2>3 DEF Reconcile, TypeOK
    <3>4. /\ Usage(estimate[e], n, report).tokens
                <= Allowance(estimate[e], MaxAttempts).tokens
          /\ Usage(estimate[e], n, report).cost
                <= Allowance(estimate[e], MaxAttempts).cost
      BY <3>2 DEF AsEstimated
    <3>5. /\ Usage(estimate[e], n, report) \in [calls : Nat, tokens : Nat, cost : Nat]
          /\ Allowance(estimate[e], MaxAttempts) \in [calls : Nat, tokens : Nat, cost : Nat]
      BY <3>2, UsageType, AllowanceType, AttemptsPositive
    <3>6. /\ ledger'.tokens = ledger.tokens - Allowance(estimate[e], MaxAttempts).tokens
                               + Usage(estimate[e], n, report).tokens
          /\ ledger'.cost = ledger.cost - Allowance(estimate[e], MaxAttempts).cost
                             + Usage(estimate[e], n, report).cost
      BY <2>3 DEF Reconcile, Reconciled, Plus, Minus
    <3>7. ledger'.tokens <= ledger.tokens /\ ledger'.cost <= ledger.cost
      BY <2>0, <3>4, <3>5, <3>6
    <3>8. QED
      BY <2>0, <3>1, <3>7, WithinIsDownward, LimitsTyped
  <2>4. ASSUME NEW e \in Exec, NEW n \in 0..MaxAttempts, SettleFailure(e, n)
        PROVE  Within(ledger'.tokens, MaxTokens) /\ Within(ledger'.cost, MaxCost)
    <3>1. Within(ledger.tokens, MaxTokens) /\ Within(ledger.cost, MaxCost)
      BY <2>0, <2>4, <2>b DEF SettleFailure
    <3>2. ledger'.tokens <= ledger.tokens /\ ledger'.cost <= ledger.cost
      BY <2>4, SettlementReturns
    <3>3. QED
      BY <2>0, <3>1, <3>2, WithinIsDownward, LimitsTyped
  <2>5. CASE Expire \/ UNCHANGED vars
    <3>1. \A f \in Exec : AsEstimated(f)
      BY <2>5 DEF Expire, vars, AsEstimated
    <3>2. QED
      BY <2>5, <2>a, <3>1 DEF Expire, vars
  <2>6. QED
    BY <2>1, <2>2, <2>3, <2>4, <2>5 DEF Next
<1>3. QED
  BY <1>1, <1>2, TypeCorrect, PTL DEF Spec

----------------------------------------------------------------------------

\* Under a strict cost budget every admitted execution has a price.
StrictIsPriced ==
    MaxCost # None /\ StrictCost =>
        \A e \in Exec : phase[e] = "reserved" => estimate[e].cost # None

LEMMA StrictStaysPriced == Spec => []StrictIsPriced
<1>1. Init => StrictIsPriced
  BY DEF Init, StrictIsPriced
<1>2. TypeOK /\ StrictIsPriced /\ [Next]_vars => StrictIsPriced'
  <2> SUFFICES ASSUME TypeOK, StrictIsPriced, [Next]_vars,
                      MaxCost # None, StrictCost,
                      NEW f \in Exec, phase'[f] = "reserved"
               PROVE  estimate'[f].cost # None
    BY DEF StrictIsPriced
  <2>0. phase \in [Exec -> Phase] /\ estimate \in [Exec -> Estimates \cup {None}]
    BY DEF TypeOK
  <2>1. ASSUME NEW e \in Exec, Reserve(e) PROVE estimate'[f].cost # None
    <3>1. CASE f = e
      BY <2>0, <2>1, <3>1 DEF Reserve, Admits
    <3>2. CASE f # e
      BY <2>0, <2>1, <3>2 DEF Reserve, StrictIsPriced
    <3>3. QED
      BY <3>1, <3>2
  <2>2. ASSUME NEW e \in Exec,
               \/ Refuse(e)
               \/ \E n \in 1..MaxAttempts, report \in Reports : Reconcile(e, n, report)
               \/ \E n \in 0..MaxAttempts : SettleFailure(e, n)
        PROVE  estimate'[f].cost # None
    <3>1. phase[f] = "reserved" /\ estimate'[f] = estimate[f]
      BY <2>0, <2>2 DEF Refuse, Reconcile, SettleFailure
    <3>2. QED
      BY <3>1 DEF StrictIsPriced
  <2>3. CASE Expire \/ UNCHANGED vars
    BY <2>3 DEF Expire, vars, StrictIsPriced
  <2>4. QED
    BY <2>1, <2>2, <2>3 DEF Next
<1>3. QED
  BY <1>1, <1>2, TypeCorrect, PTL DEF Spec

\* reconcile raises only for a total that is over its limit; its check for usage
\* of unknown price never decides.
THEOREM RaisesAreOverLimit == Spec => RaisesOnlyOverLimit
<1>1. TypeOK /\ StrictIsPriced /\ [Next]_vars =>
        [\A e \in Exec : phase[e] = "reserved" /\ phase'[e] = "overrun" =>
            \/ ~Within(ledger'.tokens, MaxTokens)
            \/ ~Within(ledger'.cost, MaxCost)]_vars
  <2> SUFFICES ASSUME TypeOK, StrictIsPriced, Next,
                      NEW e \in Exec, phase[e] = "reserved", phase'[e] = "overrun"
               PROVE  \/ ~Within(ledger'.tokens, MaxTokens)
                      \/ ~Within(ledger'.cost, MaxCost)
    OBVIOUS
  <2>0. phase \in [Exec -> Phase]
    BY DEF TypeOK
  <2>1. PICK n \in 1..MaxAttempts, report \in Reports : Reconcile(e, n, report)
    <3>1. ASSUME NEW f \in Exec, Reserve(f) \/ Refuse(f) PROVE FALSE
      BY <2>0, <3>1 DEF Reserve, Refuse
    <3>2. ASSUME NEW f \in Exec, NEW n \in 0..MaxAttempts, SettleFailure(f, n) PROVE FALSE
      BY <2>0, <3>2 DEF SettleFailure
    <3>3. ASSUME NEW f \in Exec, f # e, NEW n \in 1..MaxAttempts, NEW report \in Reports,
                 Reconcile(f, n, report)
          PROVE  FALSE
      BY <2>0, <3>3 DEF Reconcile
    <3>4. CASE Expire
      BY <3>4 DEF Expire
    <3>5. QED
      BY <3>1, <3>2, <3>3, <3>4 DEF Next
  <2>2. Raises(ledger', estimate[e], report)
    BY <2>0, <2>1 DEF Reconcile
  <2>3. QED
    BY <2>2 DEF Raises, StrictIsPriced
<1>2. QED
  BY <1>1, TypeCorrect, StrictStaysPriced, PTL DEF Spec, RaisesOnlyOverLimit

\* An overrun is raised, and nothing else is.
THEOREM RaisedExactlyWhenOver == Spec => RaisedWhenOver
BY OverrunsAreRaised, RaisesAreOverLimit, PTL DEF RaisedWhenOver

(***************************************************************************)
(* Sums over finite sets. The library's induction rules take a predicate as *)
(* a parameter, which the provers here cannot instantiate; a set without a  *)
(* least element says the same in first-order terms.                        *)
(***************************************************************************)

\* A set of natural numbers that is not empty has a least element.
LEMMA LeastNumber ==
    ASSUME NEW T \in SUBSET Nat, T # {}
    PROVE  \E n \in T : \A m \in T : n <= m
<1> DEFINE R == OpToRel(<, Nat)
<1>1. IsWellFoundedOn(R, Nat)
  BY NatLessThanWellFounded
<1>2. \E n \in T : \A m \in T : <<m, n>> \notin R
  <2> HIDE DEF R
  <2> QED
    BY <1>1, WFMin
<1>3. PICK n \in T : \A m \in T : <<m, n>> \notin R
  BY <1>2
<1>4. \A m \in T : ~ (m < n)
  BY <1>3 DEF OpToRel
<1>5. QED
  BY <1>4

\* Induction over the subsets of a finite set, by a smallest counterexample.
LEMMA SmallestSubset ==
    ASSUME NEW S, IsFiniteSet(S), NEW B \in SUBSET (SUBSET S), B # {}
    PROVE  \E s \in B : \A x \in s : s \ {x} \notin B
<1> DEFINE T == {Cardinality(s) : s \in B}
<1>1. \A s \in SUBSET S : IsFiniteSet(s) /\ Cardinality(s) \in Nat
  BY FS_Subset, FS_CardinalityType
<1>2. T \in SUBSET Nat /\ T # {}
  BY <1>1
<1>3. PICK n \in T : \A m \in T : n <= m
  <2> HIDE DEF T
  <2> QED
    BY <1>2, LeastNumber
<1>4. PICK s \in B : \A t \in B : Cardinality(s) <= Cardinality(t)
  BY <1>3
<1>5. \A x \in s : Cardinality(s \ {x}) = Cardinality(s) - 1 /\ s \ {x} \in SUBSET S
  BY <1>1, FS_RemoveElement
<1>6. QED
  BY <1>1, <1>4, <1>5

\* The sum of a function over a set, element by element.
Pick(s) == CHOOSE x \in s : TRUE
Unfolds(F, f, s) == F[s] = IF s = {} THEN 0 ELSE f[Pick(s)] + F[s \ {Pick(s)}]
Sums(f, S) ==
    CHOOSE F : F = [s \in SUBSET S |-> IF s = {} THEN 0 ELSE f[Pick(s)] + F[s \ {Pick(s)}]]

LEMMA Smaller ==
    ASSUME NEW S, IsFiniteSet(S), NEW s \in SUBSET S, NEW x \in s
    PROVE  /\ Cardinality(s) \in Nat /\ Cardinality(s \ {x}) \in Nat
           /\ Cardinality(s \ {x}) = Cardinality(s) - 1
           /\ s \ {x} \in SUBSET S
<1>1. IsFiniteSet(s)
  BY FS_Subset
<1>2. QED
  BY <1>1, FS_RemoveElement, FS_CardinalityType

LEMMA SumsExist ==
    ASSUME NEW S, IsFiniteSet(S), NEW f \in [S -> Int]
    PROVE  \A s \in SUBSET S : Unfolds(Sums(f, S), f, s)
<1> DEFINE Upto(n) == \E F : \A s \in SUBSET S : Cardinality(s) <= n => Unfolds(F, f, s)
           T == {n \in Nat : ~ Upto(n)}
<1>0. \A s \in SUBSET S : /\ IsFiniteSet(s) /\ Cardinality(s) \in Nat
                          /\ Cardinality(s) <= Cardinality(S)
  BY FS_Subset, FS_CardinalityType
<1>1. T = {}
  <2>1. SUFFICES ASSUME T # {} PROVE FALSE
    OBVIOUS
  <2>2. PICK n \in T : \A m \in T : n <= m
    <3> HIDE DEF Upto
    <3> QED BY <2>1, LeastNumber
  <2>3. n # 0
    <3>1. SUFFICES ASSUME n = 0 PROVE Upto(n)
      BY <2>2
    <3>2. \A s \in SUBSET S : Cardinality(s) <= 0 => s = {}
      BY <1>0, FS_EmptySet
    <3>3. \A s \in SUBSET S : Cardinality(s) <= 0 => Unfolds([t \in SUBSET S |-> 0], f, s)
      BY <3>2 DEF Unfolds
    <3>4. QED
      BY <3>1, <3>3
  <2>4. Upto(n - 1)
    <3>1. n - 1 \in Nat /\ ~(n <= n - 1)
      BY <2>3
    <3> HIDE DEF Upto
    <3>2. n - 1 \notin T
      BY <2>2, <3>1
    <3> QED BY <3>1, <3>2
  <2>5. PICK F : \A s \in SUBSET S : Cardinality(s) <= n - 1 => Unfolds(F, f, s)
    BY <2>4
  <2> DEFINE G == [s \in SUBSET S |-> IF Cardinality(s) <= n - 1 THEN F[s]
                                      ELSE f[Pick(s)] + F[s \ {Pick(s)}]]
  <2>6. ASSUME NEW s \in SUBSET S, Cardinality(s) <= n PROVE Unfolds(G, f, s)
    <3>1. n \in Nat /\ n >= 1 /\ Cardinality(s) \in Nat
      BY <1>0, <2>3
    <3>2. CASE s = {}
      <4>1. Cardinality(s) <= n - 1
        BY <3>1, <3>2, FS_EmptySet
      <4>2. G[s] = F[s]
        BY <4>1
      <4>3. QED
        BY <2>5, <3>2, <4>1, <4>2 DEF Unfolds
    <3>3. CASE s # {}
      <4>1. Pick(s) \in s
        BY <3>3 DEF Pick
      <4>2. /\ Cardinality(s \ {Pick(s)}) = Cardinality(s) - 1 /\ s \ {Pick(s)} \in SUBSET S
        BY <4>1, Smaller
      <4>3. G[s \ {Pick(s)}] = F[s \ {Pick(s)}]
        BY <2>6, <3>1, <4>2
      <4>4. G[s] = f[Pick(s)] + F[s \ {Pick(s)}]
        BY <2>5, <3>3 DEF Unfolds
      <4>5. QED
        BY <3>3, <4>3, <4>4 DEF Unfolds
    <3>4. QED
      BY <3>2, <3>3
  <2> HIDE DEF G
  <2>7. Upto(n)
    BY <2>6
  <2>8. QED
    BY <2>2, <2>7
<1>2. Upto(Cardinality(S))
  <2>1. Cardinality(S) \in Nat
    BY <1>0
  <2> HIDE DEF Upto
  <2> QED BY <1>1, <2>1
<1>3. PICK F : \A s \in SUBSET S : Unfolds(F, f, s)
  BY <1>0, <1>2
<1> DEFINE G == [s \in SUBSET S |-> F[s]]
<1>4. G = [s \in SUBSET S |-> IF s = {} THEN 0 ELSE f[Pick(s)] + G[s \ {Pick(s)}]]
  BY <1>3 DEF Unfolds
<1> HIDE DEF G
<1>5. Sums(f, S) = [s \in SUBSET S |-> IF s = {} THEN 0
                                       ELSE f[Pick(s)] + Sums(f, S)[s \ {Pick(s)}]]
  BY <1>4 DEF Sums
<1> DEFINE H == Sums(f, S)
<1>6. H = [s \in SUBSET S |-> IF s = {} THEN 0 ELSE f[Pick(s)] + H[s \ {Pick(s)}]]
  BY <1>5
<1> HIDE DEF H
<1>7. \A s \in SUBSET S : Unfolds(H, f, s)
  BY <1>6 DEF Unfolds
<1>8. QED
  BY <1>7 DEF H

Total(f, S) == Sums(f, S)[S]

\* Every partial sum is a number.
LEMMA SumsType ==
    ASSUME NEW S, IsFiniteSet(S), NEW f \in [S -> Int]
    PROVE  \A s \in SUBSET S : Sums(f, S)[s] \in Int
<1> DEFINE B == {s \in SUBSET S : Sums(f, S)[s] \notin Int}
<1>1. SUFFICES ASSUME B # {} PROVE FALSE
  OBVIOUS
<1>2. PICK s \in B : \A x \in s : s \ {x} \notin B
  <2> HIDE DEF B
  <2>1. B \in SUBSET (SUBSET S)
    BY DEF B
  <2>2. QED
    BY <1>1, <2>1, SmallestSubset
<1>3. Unfolds(Sums(f, S), f, s) /\ s \in SUBSET S /\ Sums(f, S)[s] \notin Int
  BY SumsExist
<1>4. CASE s = {}
  BY <1>3, <1>4 DEF Unfolds
<1>5. CASE s # {}
  <2>1. Pick(s) \in s
    BY <1>5 DEF Pick
  <2>2. Sums(f, S)[s \ {Pick(s)}] \in Int /\ f[Pick(s)] \in Int
    BY <1>2, <1>3, <2>1
  <2>3. QED
    BY <1>3, <1>5, <2>2 DEF Unfolds
<1>6. QED
  BY <1>4, <1>5

\* A sum does not depend on the order: any element may come first.
LEMMA SumsUnfoldAnywhere ==
    ASSUME NEW S, IsFiniteSet(S), NEW f \in [S -> Int]
    PROVE  \A s \in SUBSET S : \A x \in s : Sums(f, S)[s] = f[x] + Sums(f, S)[s \ {x}]
<1> DEFINE F == Sums(f, S)
           B == {s \in SUBSET S : \E x \in s : F[s] # f[x] + F[s \ {x}]}
<1>0. \A s \in SUBSET S : Unfolds(F, f, s) /\ F[s] \in Int
  BY SumsExist, SumsType
<1> HIDE DEF F
<1>1. SUFFICES ASSUME B # {} PROVE FALSE
  BY DEF F
<1>2. PICK s \in B : \A x \in s : s \ {x} \notin B
  <2> HIDE DEF B
  <2>1. B \in SUBSET (SUBSET S)
    BY DEF B
  <2>2. QED
    BY <1>1, <2>1, SmallestSubset
<1>3. PICK x \in s : F[s] # f[x] + F[s \ {x}]
  OBVIOUS
<1> DEFINE c == Pick(s)
<1>4. c \in s
  BY <1>3 DEF Pick
<1>5. F[s] = f[c] + F[s \ {c}]
  BY <1>0, <1>3 DEF Unfolds
<1> HIDE DEF c
<1>6. c # x
  BY <1>3, <1>5
<1>7. F[s \ {c}] = f[x] + F[(s \ {c}) \ {x}]
  BY <1>2, <1>4, <1>3, <1>6
<1>8. F[s \ {x}] = f[c] + F[(s \ {x}) \ {c}]
  BY <1>2, <1>4, <1>3, <1>6
<1>9. (s \ {c}) \ {x} = (s \ {x}) \ {c}
  OBVIOUS
<1>10. F[(s \ {x}) \ {c}] \in Int /\ f[x] \in Int /\ f[c] \in Int
  BY <1>0, <1>3, <1>4
<1>11. /\ F[s] = f[c] + (f[x] + F[(s \ {x}) \ {c}])
       /\ F[s \ {x}] = f[c] + F[(s \ {x}) \ {c}]
  BY <1>5, <1>7, <1>8, <1>9
<1>12. F[s] = f[x] + F[s \ {x}]
  BY <1>10, <1>11
<1>13. QED
  BY <1>3, <1>12

\* The larger function has the larger sum.
LEMMA SumsMonotone ==
    ASSUME NEW S, IsFiniteSet(S), NEW f \in [S -> Int], NEW g \in [S -> Int]
    PROVE  \A s \in SUBSET S :
              (\A x \in s : f[x] <= g[x]) => Sums(f, S)[s] <= Sums(g, S)[s]
<1> DEFINE F == Sums(f, S)
           G == Sums(g, S)
           B == {s \in SUBSET S : (\A x \in s : f[x] <= g[x]) /\ ~ (F[s] <= G[s])}
<1>0. \A s \in SUBSET S : Unfolds(F, f, s) /\ Unfolds(G, g, s) /\ F[s] \in Int /\ G[s] \in Int
  BY SumsExist, SumsType
<1> HIDE DEF F, G
<1>1. SUFFICES ASSUME B # {} PROVE FALSE
  BY DEF F, G
<1>2. PICK s \in B : \A x \in s : s \ {x} \notin B
  <2> HIDE DEF B
  <2>1. B \in SUBSET (SUBSET S)
    BY DEF B
  <2>2. QED
    BY <1>1, <2>1, SmallestSubset
<1>3. s \in SUBSET S /\ (\A x \in s : f[x] <= g[x]) /\ ~ (F[s] <= G[s])
  OBVIOUS
<1>4. s # {}
  BY <1>0, <1>3 DEF Unfolds
<1>5. Pick(s) \in s
  BY <1>4 DEF Pick
<1>6. F[s \ {Pick(s)}] <= G[s \ {Pick(s)}]
  BY <1>2, <1>3, <1>5
<1>7. /\ F[s] = f[Pick(s)] + F[s \ {Pick(s)}]
      /\ G[s] = g[Pick(s)] + G[s \ {Pick(s)}]
  BY <1>0, <1>3, <1>4 DEF Unfolds
<1>8. /\ F[s \ {Pick(s)}] \in Int /\ G[s \ {Pick(s)}] \in Int
      /\ f[Pick(s)] \in Int /\ g[Pick(s)] \in Int /\ f[Pick(s)] <= g[Pick(s)]
  BY <1>0, <1>3, <1>5
<1>9. QED
  BY <1>3, <1>6, <1>7, <1>8

LEMMA TotalOfZeros ==
    ASSUME NEW S, IsFiniteSet(S), NEW f \in [S -> Int], \A x \in S : f[x] = 0
    PROVE  Total(f, S) = 0
<1> DEFINE F == Sums(f, S)
           B == {s \in SUBSET S : F[s] # 0}
<1>0. \A s \in SUBSET S : Unfolds(F, f, s) /\ F[s] \in Int
  BY SumsExist, SumsType
<1> HIDE DEF F
<1>1. SUFFICES ASSUME B # {} PROVE FALSE
  BY DEF F, Total
<1>2. PICK s \in B : \A x \in s : s \ {x} \notin B
  <2> HIDE DEF B
  <2>1. B \in SUBSET (SUBSET S)
    BY DEF B
  <2>2. QED
    BY <1>1, <2>1, SmallestSubset
<1>3. s # {}
  BY <1>0 DEF Unfolds
<1>4. Pick(s) \in s
  BY <1>3 DEF Pick
<1>5. F[s \ {Pick(s)}] = 0 /\ f[Pick(s)] = 0
  BY <1>2, <1>4
<1>6. QED
  BY <1>0, <1>3, <1>5 DEF Unfolds

\* One value changes: the sum changes by the difference.
LEMMA TotalUpdated ==
    ASSUME NEW S, IsFiniteSet(S), NEW f \in [S -> Int], NEW g \in [S -> Int], NEW e \in S,
           \A x \in S \ {e} : g[x] = f[x]
    PROVE  Total(g, S) = Total(f, S) - f[e] + g[e]
<1>1. \A x \in S \ {e} : g[x] <= f[x] /\ f[x] <= g[x]
  OBVIOUS
<1>2. /\ Sums(f, S)[S \ {e}] <= Sums(g, S)[S \ {e}]
      /\ Sums(g, S)[S \ {e}] <= Sums(f, S)[S \ {e}]
  BY <1>1, SumsMonotone
<1>3. Sums(f, S)[S \ {e}] \in Int /\ Sums(g, S)[S \ {e}] \in Int
  BY SumsType
<1>4. S \in SUBSET S
  OBVIOUS
<1>5. Sums(f, S)[S] = f[e] + Sums(f, S)[S \ {e}]
  BY <1>4, SumsUnfoldAnywhere
<1>6. Sums(g, S)[S] = g[e] + Sums(g, S)[S \ {e}]
  BY <1>4, SumsUnfoldAnywhere
<1>7. QED
  BY <1>2, <1>3, <1>5, <1>6 DEF Total

\* A sum of which each member of P contributes at least one.
LEMMA TotalCovers ==
    ASSUME NEW S, IsFiniteSet(S), NEW f \in [S -> Nat], NEW P \in SUBSET S, \A x \in P : f[x] >= 1
    PROVE  Cardinality(P) <= Total(f, S)
<1> DEFINE F == Sums(f, S)
           B == {s \in SUBSET S : ~ (Cardinality(s \cap P) <= F[s])}
<1>0. \A s \in SUBSET S : Unfolds(F, f, s) /\ F[s] \in Int
  BY SumsExist, SumsType
<1>1. S \cap P = P /\ S \in SUBSET S /\ F[S] = Total(f, S)
  BY DEF Total
<1> HIDE DEF F
<1>2. SUFFICES ASSUME B # {} PROVE FALSE
  BY <1>1
<1>3. PICK s \in B : \A x \in s : s \ {x} \notin B
  <2> HIDE DEF B
  <2>1. B \in SUBSET (SUBSET S)
    BY DEF B
  <2>2. QED
    BY <1>2, <2>1, SmallestSubset
<1>4. s # {}
  <2>1. ASSUME s = {} PROVE FALSE
    <3>1. s \cap P = {} /\ Cardinality({}) = 0 /\ F[s] = 0
      BY <1>0, <2>1, FS_EmptySet DEF Unfolds
    <3>2. QED
      BY <3>1
  <2>2. QED
    BY <2>1
<1> DEFINE x == Pick(s)
           rest == s \ {x}
<1>5. x \in s /\ rest \in SUBSET S
  BY <1>4 DEF Pick
<1>6. F[s] = f[x] + F[rest] /\ F[rest] \in Int /\ F[s] \in Int /\ f[x] \in Nat
  BY <1>0, <1>4, <1>5 DEF Unfolds
<1> DEFINE U == s \cap P
           V == rest \cap P
<1>7. Cardinality(V) <= F[rest]
  BY <1>3, <1>5
<1>8. /\ IsFiniteSet(U) /\ IsFiniteSet(V)
      /\ Cardinality(U) \in Nat /\ Cardinality(V) \in Nat
  <2>1. U \in SUBSET S /\ V \in SUBSET S
    OBVIOUS
  <2> HIDE DEF U, V
  <2>2. QED
    BY <2>1, FS_Subset, FS_CardinalityType
<1>9. CASE x \in P
  <2>1. V = U \ {x} /\ x \in U /\ f[x] >= 1
    BY <1>5, <1>9
  <2> HIDE DEF U, V, x, rest
  <2>2. Cardinality(V) = Cardinality(U) - 1
    BY <1>8, <2>1, FS_RemoveElement
  <2>3. Cardinality(U) <= F[s]
    BY <1>6, <1>7, <1>8, <2>1, <2>2
  <2>4. QED
    BY <2>3 DEF U
<1>10. CASE x \notin P
  <2>1. V = U
    BY <1>10
  <2> HIDE DEF U, V, x, rest
  <2>2. Cardinality(U) <= F[s]
    BY <1>6, <1>7, <1>8, <2>1
  <2>3. QED
    BY <2>2 DEF U
<1>11. QED
  BY <1>9, <1>10

(***************************************************************************)
(* The ledger is balanced.                                                  *)
(***************************************************************************)

BookedCalls == [e \in Exec |-> booked[e].calls]
BookedTokens == [e \in Exec |-> booked[e].tokens]
BookedCost == [e \in Exec |-> booked[e].cost]

\* The three sums of Balanced, as totals of functions.
Booked ==
    /\ ledger.calls = Total(BookedCalls, Exec)
    /\ ledger.tokens = Total(BookedTokens, Exec)
    /\ ledger.cost = Total(BookedCost, Exec)

\* What an execution is booked with before it is settled.
Holds ==
    \A e \in Exec :
        /\ phase[e] = "new" => booked[e] = Nothing
        /\ phase[e] = "reserved" => booked[e] = Allowance(estimate[e], MaxAttempts)

LEMMA SumsAreTotals ==
    ASSUME TypeOK
    PROVE  /\ MapThenSumSet(LAMBDA e : booked[e].calls, Exec) = Total(BookedCalls, Exec)
           /\ MapThenSumSet(LAMBDA e : booked[e].tokens, Exec) = Total(BookedTokens, Exec)
           /\ MapThenSumSet(LAMBDA e : booked[e].cost, Exec) = Total(BookedCost, Exec)
<1>0. \A s \in SUBSET Exec : s # {} => Pick(s) \in Exec
  BY DEF Pick
<1>1. MapThenSumSet(LAMBDA e : booked[e].calls, Exec) = Total(BookedCalls, Exec)
  <2>1. Sums(BookedCalls, Exec) =
          CHOOSE F : F = [s \in SUBSET Exec |->
                             IF s = {} THEN 0 ELSE booked[Pick(s)].calls + F[s \ {Pick(s)}]]
    <3>1. \A F : F = [s \in SUBSET Exec |->
                        IF s = {} THEN 0 ELSE BookedCalls[Pick(s)] + F[s \ {Pick(s)}]]
             <=> F = [s \in SUBSET Exec |->
                        IF s = {} THEN 0 ELSE booked[Pick(s)].calls + F[s \ {Pick(s)}]]
      BY <1>0 DEF BookedCalls
    <3>2. QED
      BY <3>1 DEF Sums
  <2>2. QED
    BY <2>1 DEF MapThenSumSet, MapThenFoldSet, Total, Pick
<1>2. MapThenSumSet(LAMBDA e : booked[e].tokens, Exec) = Total(BookedTokens, Exec)
  <2>1. Sums(BookedTokens, Exec) =
          CHOOSE F : F = [s \in SUBSET Exec |->
                             IF s = {} THEN 0 ELSE booked[Pick(s)].tokens + F[s \ {Pick(s)}]]
    <3>1. \A F : F = [s \in SUBSET Exec |->
                        IF s = {} THEN 0 ELSE BookedTokens[Pick(s)] + F[s \ {Pick(s)}]]
             <=> F = [s \in SUBSET Exec |->
                        IF s = {} THEN 0 ELSE booked[Pick(s)].tokens + F[s \ {Pick(s)}]]
      BY <1>0 DEF BookedTokens
    <3>2. QED
      BY <3>1 DEF Sums
  <2>2. QED
    BY <2>1 DEF MapThenSumSet, MapThenFoldSet, Total, Pick
<1>3. MapThenSumSet(LAMBDA e : booked[e].cost, Exec) = Total(BookedCost, Exec)
  <2>1. Sums(BookedCost, Exec) =
          CHOOSE F : F = [s \in SUBSET Exec |->
                             IF s = {} THEN 0 ELSE booked[Pick(s)].cost + F[s \ {Pick(s)}]]
    <3>1. \A F : F = [s \in SUBSET Exec |->
                        IF s = {} THEN 0 ELSE BookedCost[Pick(s)] + F[s \ {Pick(s)}]]
             <=> F = [s \in SUBSET Exec |->
                        IF s = {} THEN 0 ELSE booked[Pick(s)].cost + F[s \ {Pick(s)}]]
      BY <1>0 DEF BookedCost
    <3>2. QED
      BY <3>1 DEF Sums
  <2>2. QED
    BY <2>1 DEF MapThenSumSet, MapThenFoldSet, Total, Pick
<1>4. QED
  BY <1>1, <1>2, <1>3

\* One execution is booked anew, and the totals change by the difference.
LEMMA Rebooked ==
    ASSUME TypeOK, Booked, NEW e \in Exec, NEW usage \in Totals,
           booked' = [booked EXCEPT ![e] = usage],
           ledger' = Plus(Minus(ledger, booked[e]), usage)
    PROVE  Booked'
<1>1. /\ BookedCalls \in [Exec -> Int] /\ BookedTokens \in [Exec -> Int] /\ BookedCost \in [Exec -> Int]
      /\ usage.calls \in Int /\ usage.tokens \in Int /\ usage.cost \in Int
  BY DEF TypeOK, Totals, BookedCalls, BookedTokens, BookedCost
<1>2. Total(BookedCalls', Exec) = Total(BookedCalls, Exec) - booked[e].calls + usage.calls
  <2>1. /\ BookedCalls' \in [Exec -> Int] /\ BookedCalls'[e] = usage.calls
        /\ BookedCalls[e] = booked[e].calls /\ \A x \in Exec \ {e} : BookedCalls'[x] = BookedCalls[x]
    BY <1>1 DEF TypeOK, BookedCalls
  <2>2. QED
    BY <1>1, <2>1, ExecFinite, TotalUpdated
<1>3. Total(BookedTokens', Exec) = Total(BookedTokens, Exec) - booked[e].tokens + usage.tokens
  <2>1. /\ BookedTokens' \in [Exec -> Int] /\ BookedTokens'[e] = usage.tokens
        /\ BookedTokens[e] = booked[e].tokens /\ \A x \in Exec \ {e} : BookedTokens'[x] = BookedTokens[x]
    BY <1>1 DEF TypeOK, BookedTokens
  <2>2. QED
    BY <1>1, <2>1, ExecFinite, TotalUpdated
<1>4. Total(BookedCost', Exec) = Total(BookedCost, Exec) - booked[e].cost + usage.cost
  <2>1. /\ BookedCost' \in [Exec -> Int] /\ BookedCost'[e] = usage.cost
        /\ BookedCost[e] = booked[e].cost /\ \A x \in Exec \ {e} : BookedCost'[x] = BookedCost[x]
    BY <1>1 DEF TypeOK, BookedCost
  <2>2. QED
    BY <1>1, <2>1, ExecFinite, TotalUpdated
<1>5. /\ ledger'.calls = ledger.calls - booked[e].calls + usage.calls
      /\ ledger'.tokens = ledger.tokens - booked[e].tokens + usage.tokens
      /\ ledger'.cost = ledger.cost - booked[e].cost + usage.cost
  BY DEF Plus, Minus
<1>6. QED
  BY <1>2, <1>3, <1>4, <1>5 DEF Booked

\* However reservations and settlements interleave, each total of the ledger is the sum of
\* what the executions hold or have used: none is leaked and none released twice.
THEOREM LedgerBalanced == Spec => []Balanced
<1>1. Init => Booked /\ Holds
  <2> SUFFICES ASSUME Init PROVE Booked /\ Holds
    OBVIOUS
  <2>1. Holds
    BY DEF Init, Holds
  <2> DEFINE zero == [e \in Exec |-> 0]
  <2>2. BookedCalls = zero /\ BookedTokens = zero /\ BookedCost = zero
    BY DEF Init, BookedCalls, BookedTokens, BookedCost, Nothing
  <2>3. zero \in [Exec -> Int] /\ \A e \in Exec : zero[e] = 0
    OBVIOUS
  <2> HIDE DEF zero
  <2>4. Total(zero, Exec) = 0
    BY <2>3, ExecFinite, TotalOfZeros
  <2>5. QED
    BY <2>1, <2>2, <2>4 DEF Init, Booked, Nothing
<1>2. TypeOK /\ TypeOK' /\ Booked /\ Holds /\ [Next]_vars => Booked' /\ Holds'
  <2> SUFFICES ASSUME TypeOK, TypeOK', Booked, Holds, [Next]_vars PROVE Booked' /\ Holds'
    OBVIOUS
  <2>0. /\ phase \in [Exec -> Phase] /\ estimate \in [Exec -> Estimates \cup {None}]
        /\ booked \in [Exec -> Totals] /\ booked' \in [Exec -> Totals] /\ ledger \in Totals
    BY DEF TypeOK
  <2>a. ASSUME NEW e \in Exec, Reserve(e) PROVE Booked' /\ Holds'
    <3>1. PICK est \in Estimates :
             /\ ledger' = Reserved(ledger, est)
             /\ estimate' = [estimate EXCEPT ![e] = est]
             /\ booked' = [booked EXCEPT ![e] = Allowance(est, MaxAttempts)]
      BY <2>a DEF Reserve
    <3>2. Allowance(est, MaxAttempts) \in Totals
      BY AllowanceType, AttemptsPositive DEF Totals
    <3>3. booked[e] = Nothing
      BY <2>a DEF Reserve, Holds
    <3>4. ledger' = Plus(Minus(ledger, booked[e]), Allowance(est, MaxAttempts))
      BY <2>0, <3>1, <3>3 DEF Reserved, Plus, Minus, Nothing, Totals
    <3>5. Holds'
      BY <2>0, <2>a, <3>1 DEF Reserve, Holds
    <3>6. QED
      BY <3>1, <3>2, <3>4, <3>5, Rebooked
  <2>b. ASSUME NEW e \in Exec, NEW usage,
               phase[e] = "reserved", phase'[e] \in {"settled", "overrun"},
               ledger' = Plus(Minus(ledger, Allowance(estimate[e], MaxAttempts)), usage),
               booked' = [booked EXCEPT ![e] = usage],
               \A f \in Exec \ {e} : phase'[f] = phase[f],
               estimate' = estimate
        PROVE  Booked' /\ Holds'
    <3>1. usage \in Totals
      BY <2>0, <2>b
    <3>2. booked[e] = Allowance(estimate[e], MaxAttempts)
      BY <2>b DEF Holds
    <3>3. Holds'
      BY <2>0, <2>b DEF Holds
    <3>4. QED
      BY <2>b, <3>1, <3>2, <3>3, Rebooked
  <2>c. ASSUME NEW e \in Exec, NEW n \in 1..MaxAttempts, NEW report \in Reports,
               Reconcile(e, n, report)
        PROVE  Booked' /\ Holds'
    BY <2>0, <2>b, <2>c DEF Reconcile, Reconciled
  <2>d. ASSUME NEW e \in Exec, NEW n \in 0..MaxAttempts, SettleFailure(e, n)
        PROVE  Booked' /\ Holds'
    BY <2>0, <2>b, <2>d DEF SettleFailure, Settled
  <2>e. ASSUME UNCHANGED <<ledger, booked, estimate>>,
               \A f \in Exec : phase'[f] \in {phase[f], "refused"}
        PROVE  Booked' /\ Holds'
    BY <2>e DEF Booked, BookedCalls, BookedTokens, BookedCost, Holds
  <2>f. ASSUME NEW e \in Exec, Refuse(e) PROVE Booked' /\ Holds'
    BY <2>0, <2>e, <2>f DEF Refuse
  <2>g. CASE Expire \/ UNCHANGED vars
    BY <2>e, <2>g DEF Expire, vars
  <2>h. QED
    BY <2>a, <2>c, <2>d, <2>f, <2>g DEF Next
<1>3. TypeOK /\ Booked => Balanced
  BY SumsAreTotals DEF Booked, Balanced
<1>4. QED
  BY <1>1, <1>2, <1>3, TypeCorrect, PTL DEF Spec
=============================================================================

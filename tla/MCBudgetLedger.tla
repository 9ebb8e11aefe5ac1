-------------------------- MODULE MCBudgetLedger --------------------------
(* Small instances of BudgetLedger for TLC. *)
EXTENDS BudgetLedger, TLC

\* Two priced per-attempt estimates and an unpriced one.
MCEstimates == {[tokens |-> 2, cost |-> 1], [tokens |-> 1, cost |-> 2],
                [tokens |-> 1, cost |-> None]}

\* Nothing reported, less than estimated, more than estimated.
MCReports == {[tokens |-> None, cost |-> None],
              [tokens |-> 1, cost |-> 1],
              [tokens |-> 6, cost |-> 4]}

ExecSymmetry == Permutations(Exec)
=============================================================================

--------------------------- MODULE MCModelStage ---------------------------
(* Small instances of ModelStage for TLC. *)
EXTENDS ModelStage

\* One estimate: its size matters to BudgetLedger, not here.
MCEstimates == {[tokens |-> 2, cost |-> None]}

\* Nothing reported, and usage beyond any reservation.
MCReports == {[tokens |-> None, cost |-> None], [tokens |-> 9, cost |-> None]}
=============================================================================

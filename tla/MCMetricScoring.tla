-------------------------- MODULE MCMetricScoring --------------------------
(***************************************************************************)
(* Two requests of two tenants, three candidates of which the first and the *)
(* last are alike, one permit (a window of two), a cache of two entries     *)
(* that live for one tick.                                                  *)
(***************************************************************************)
EXTENDS MetricScoring

MCRequest == {"r1", "r2"}
MCContentOf == <<"x", "y", "x">>
MCTenantOf == [r \in MCRequest |-> IF r = "r1" THEN "t1" ELSE "t2"]
MCQuery == [r \in MCRequest |-> "q"]

Cached == [kind |-> "each", cacheable |-> TRUE, active |-> TRUE, thread |-> FALSE]
InThread == [Cached EXCEPT !.cacheable = FALSE, !.thread = TRUE]
Batch == [Cached EXCEPT !.kind = "batch", !.cacheable = FALSE]
Model == [Batch EXCEPT !.kind = "model"]
Off(m) == [m EXCEPT !.active = FALSE]

Mixed == <<Off(InThread), Model, Batch>>

MCMetrics == {[r \in MCRequest |-> IF r = "r1" THEN m[1] ELSE m[2]] :
                  m \in {<<<<Cached>>, <<Cached>>>>, <<<<Cached>>, <<InThread>>>>,
                         <<<<InThread>>, Mixed>>, <<Mixed, Mixed>>}}
=============================================================================

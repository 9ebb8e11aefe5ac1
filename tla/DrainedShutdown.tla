--------------------------- MODULE DrainedShutdown ---------------------------
(***************************************************************************)
(* What a backend that runs a model in threads promises about its shutdown:  *)
(* work begins only while it is open, and the model is dropped once, when    *)
(* the last piece of work has ended, and never loaded again.                 *)
(***************************************************************************)
CONSTANT Job

VARIABLES
    door,    \* open, closing or closed
    busy,    \* the work handed to a thread that has not ended
    loaded   \* the model is in memory

vars == <<door, busy, loaded>>

Init == door = "open" /\ busy = {} /\ loaded \in BOOLEAN

Start(j) ==
    /\ door = "open" /\ j \notin busy
    /\ busy' = busy \cup {j}
    /\ UNCHANGED <<door, loaded>>

\* Only work loads the model.
Load ==
    /\ busy # {}
    /\ loaded' = TRUE
    /\ UNCHANGED <<door, busy>>

Finish(j) ==
    /\ j \in busy
    /\ busy' = busy \ {j}
    /\ UNCHANGED <<door, loaded>>

Close ==
    /\ door = "open"
    /\ door' = "closing"
    /\ UNCHANGED <<busy, loaded>>

Closed ==
    /\ door = "closing" /\ busy = {}
    /\ door' = "closed"
    /\ loaded' = FALSE
    /\ UNCHANGED busy

Next ==
    \/ \E j \in Job : Start(j) \/ Finish(j)
    \/ Load \/ Close \/ Closed

Spec == Init /\ [][Next]_vars
=============================================================================

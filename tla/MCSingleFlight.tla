-------------------------- MODULE MCSingleFlight --------------------------
(***************************************************************************)
(* A small instance of SingleFlight. The callers c1 and c2 make the same     *)
(* call; c3 makes it with missing candidates allowed.                        *)
(***************************************************************************)
EXTENDS SingleFlight
CONSTANTS c1, c2, c3, text, id1

MCContentOf == [c \in Caller |-> text]
MCIdsOf == [c \in Caller |-> id1]
=============================================================================

--------------------------- MODULE MCLayaWorker ---------------------------
(* A small instance of LayaWorker for TLC. *)
EXTENDS LayaWorker
=============================================================================
